------------------------------ MODULE ScanProof -----------------------------
(***************************************************************************)
(* The scans of strings find what trying all parts finds, for all strings. *)
(* Each is a loop again, written as in TextProof: Step is one turn of its  *)
(* body, Start the state it starts from, Loop the states it goes through   *)
(* and States the invariant that a turn keeps.                             *)
(***************************************************************************)
EXTENDS TextProof

-----------------------------------------------------------------------------
(* test680.                                                                *)

\* s without its i-th element.
Without(s, i) == SubSeq(s, 1, i - 1) \o SubSeq(s, i + 1, Len(s))

\* What it holds.
LEMMA WithoutIs ==
  ASSUME NEW s \in Seq(Element), NEW i \in DOMAIN s
  PROVE  /\ Without(s, i) \in Seq(Element) /\ Len(Without(s, i)) = Len(s) - 1
         /\ \A k \in 0..Len(s) - 2 : At(Without(s, i), k) = IF k < i - 1 THEN At(s, k) ELSE At(s, k + 1)
<1>0. PICK n, p, q : n = Len(s) /\ p = SubSeq(s, 1, i - 1) /\ q = SubSeq(s, i + 1, n)
  OBVIOUS
<1>1. n \in Nat /\ i \in 1..n
  BY <1>0, Numbers
<1>2. p \in Seq(Element) /\ Len(p) = i - 1 /\ \A k \in 1..i - 1 : p[k] = s[k]
  BY <1>0, <1>1
<1>3. q \in Seq(Element) /\ Len(q) = n - i /\ \A k \in 1..n - i : q[k] = s[i + k]
  BY <1>0, <1>1
<1>4. PICK u : u = p \o q
  OBVIOUS
<1>5. /\ u \in Seq(Element) /\ Len(u) = n - 1
      /\ (\A k \in 1..i - 1 : u[k] = s[k]) /\ \A k \in 1..n - i : u[i - 1 + k] = s[i + k]
  <2>1. /\ u \in Seq(Element) /\ Len(u) = (i - 1) + (n - i)
        /\ (\A k \in 1..i - 1 : u[k] = p[k]) /\ \A k \in 1..n - i : u[i - 1 + k] = q[k]
    <3>1. /\ u \in Seq(Element) /\ Len(u) = Len(p) + Len(q)
          /\ (\A k \in 1..Len(p) : u[k] = p[k]) /\ \A k \in 1..Len(q) : u[Len(p) + k] = q[k]
      <4>1. p \in Seq(Element) /\ q \in Seq(Element)
        BY <1>2, <1>3
      <4> QED
        BY <4>1, <1>4, BothIs
    <3>2. Len(p) = i - 1 /\ Len(q) = n - i
      BY <1>2, <1>3
    <3> QED
      BY <3>1, <3>2
  <2>2. (i - 1) + (n - i) = n - 1
    BY <1>1
  <2> QED
    BY <2>1, <2>2, <1>2, <1>3
<1>6. ASSUME NEW k \in 0..n - 2 PROVE u[k + 1] = IF k < i - 1 THEN s[k + 1] ELSE s[k + 2]
  <2>1. CASE k < i - 1
    <3>1. k + 1 \in 1..i - 1
      BY <2>1, <1>1
    <3> QED
      BY <2>1, <3>1, <1>5
  <2>2. CASE ~ (k < i - 1)
    <3>1. k + 2 - i \in 1..n - i /\ i - 1 + (k + 2 - i) = k + 1 /\ i + (k + 2 - i) = k + 2
      BY <2>2, <1>1
    <3> QED
      BY <2>2, <3>1, <1>5
  <2> QED
    BY <2>1, <2>2
<1>7. \A k \in 0..n - 2 : k + 1 + 1 = k + 2
  OBVIOUS
<1>8. \A k \in 0..n - 2 : At(u, k) = IF k < i - 1 THEN At(s, k) ELSE At(s, k + 1)
  BY <1>6, <1>7 DEF At
<1>9. u = Without(s, i)
  BY <1>0, <1>4 DEF Without
<1> QED
  BY <1>0, <1>5, <1>8, <1>9

\* A palindrome is the same from both ends, over its whole length.
LEMMA PalindromeIs ==
  ASSUME NEW s, Len(s) \in Nat
  PROVE  isPalindrome(s) <=> \A k \in 0..Len(s) - 1 : At(s, k) = At(s, Len(s) - 1 - k)
<1>0. PICK n : n = Len(s)
  OBVIOUS
<1>1. n \in Nat
  BY <1>0
<1>2. ASSUME isPalindrome(s), NEW k \in 0..n - 1 PROVE At(s, k) = At(s, n - 1 - k)
  <2>1. CASE k \in 0..(n \div 2) - 1
    BY <2>1, <1>0, <1>2 DEF isPalindrome
  <2>2. CASE n - 1 - k \in 0..(n \div 2) - 1
    <3>1. n - 1 - (n - 1 - k) = k
      BY <1>1
    <3>2. At(s, n - 1 - k) = At(s, n - 1 - (n - 1 - k))
      BY <2>2, <1>0, <1>2 DEF isPalindrome
    <3> QED
      BY <3>1, <3>2
  <2>3. CASE ~ (k \in 0..(n \div 2) - 1) /\ ~ (n - 1 - k \in 0..(n \div 2) - 1)
    <3>1. n - 1 - k = k
      BY <2>3, <1>1
    <3> QED
      BY <3>1
  <2> QED
    BY <2>1, <2>2, <2>3
<1>3. ASSUME \A k \in 0..n - 1 : At(s, k) = At(s, n - 1 - k) PROVE isPalindrome(s)
  <2>1. \A k \in 0..(n \div 2) - 1 : k \in 0..n - 1
    BY <1>1
  <2> QED
    BY <2>1, <1>0, <1>3 DEF isPalindrome
<1> QED
  BY <1>0, <1>2, <1>3

\* One turn of the loop of test680, all its turns, and its states: the ends up to l match.
Step680(s, v) == IF Open(v) /\ At(s, v.l) = At(s, v.r) THEN [l |-> v.l + 1, r |-> v.r - 1] ELSE v
Start680(s) == [l |-> 0, r |-> Len(s) - 1]
Loop680(s) == CHOOSE f : f = [k \in 0..Len(s) |-> IF k = 0 THEN Start680(s) ELSE Step680(s, f[k - 1])]
States680(s) ==
  {w \in [l : 0..Len(s), r : -1..Len(s) - 1] :
     w.l + w.r = Len(s) - 1 /\ w.l <= w.r + 1 /\ \A k \in 0..w.l - 1 : At(s, k) = At(s, Len(s) - 1 - k)}

\* A turn keeps to the states, and brings the two ends closer.
LEMMA Turn680 ==
  ASSUME NEW s \in Seq(Element), NEW w \in States680(s)
  PROVE  /\ Step680(s, w) \in States680(s)
         /\ IF Open(w) /\ At(s, w.l) = At(s, w.r) THEN Step680(s, w).r < w.r ELSE Step680(s, w) = w
<1>0. PICK n, l, r, u : n = Len(s) /\ l = w.l /\ r = w.r /\ u = Step680(s, w)
  OBVIOUS
<1>1. /\ n \in Nat /\ l \in 0..n /\ r \in -1..n - 1 /\ l + r = n - 1 /\ l <= r + 1
      /\ w = [l |-> l, r |-> r] /\ \A k \in 0..l - 1 : At(s, k) = At(s, n - 1 - k)
  BY <1>0, Numbers DEF States680
<1>2. CASE l < r /\ At(s, l) = At(s, r)
  <2>1. u = [l |-> l + 1, r |-> r - 1]
    BY <1>0, <1>2 DEF Step680, Open
  <2>2. /\ l + 1 \in 0..n /\ r - 1 \in -1..n - 1 /\ (l + 1) + (r - 1) = n - 1 /\ l + 1 <= (r - 1) + 1
        /\ r - 1 < r /\ n - 1 - l = r /\ \A k \in 0..(l + 1) - 1 : k \in 0..l - 1 \/ k = l
    BY <1>1, <1>2
  <2>3. \A k \in 0..(l + 1) - 1 : At(s, k) = At(s, n - 1 - k)
    BY <2>2, <1>1, <1>2
  <2>4. u.l = l + 1 /\ u.r = r - 1 /\ u \in [l : 0..n, r : -1..n - 1]
    BY <2>1, <2>2
  <2>5. u \in States680(s)
    BY <2>2, <2>3, <2>4, <1>0, SMTT(30) DEF States680
  <2> QED
    BY <2>2, <2>4, <2>5, <1>0, <1>2 DEF Open
<1>3. CASE ~ (l < r /\ At(s, l) = At(s, r))
  <2>1. u = w
    BY <1>0, <1>3 DEF Step680, Open
  <2> QED
    BY <2>1, <1>0, <1>3 DEF Open
<1> QED
  BY <1>2, <1>3

\* Where the ends first differ, one of the two has to go.
LEMMA OneGoes ==
  ASSUME NEW s \in Seq(Element), NEW w \in States680(s), Open(w), At(s, w.l) # At(s, w.r)
  PROVE  /\ ~ isPalindrome(s)
         /\ checkPalindrome(s, w.l + 1, w.r) \/ checkPalindrome(s, w.l, w.r - 1)
            <=> \E i \in DOMAIN s : isPalindrome(Without(s, i))
<1>0. PICK n, l, r : n = Len(s) /\ l = w.l /\ r = w.r
  OBVIOUS
<1>1. /\ n \in Nat /\ l \in 0..n /\ r \in -1..n - 1 /\ l + r = n - 1 /\ l < r /\ At(s, l) # At(s, r)
      /\ \A k \in 0..l - 1 : At(s, k) = At(s, n - 1 - k)
  BY <1>0, Numbers DEF States680, Open
<1>2. n \in Int /\ l \in Int /\ r \in Int /\ 0 <= l /\ l < r /\ r = n - 1 - l
  BY <1>1
<1>3. ~ isPalindrome(s)
  <2>1. l \in 0..n - 1
    BY <1>2
  <2> QED
    BY <2>1, <1>0, <1>1, <1>2, PalindromeIs
<1>4. ASSUME NEW i \in DOMAIN s, NEW d, d = i - 1
      PROVE  /\ d \in 0..n - 1
             /\ isPalindrome(Without(s, i)) <=> \A k \in 0..n - 2 : At(Without(s, i), k) = At(Without(s, i), n - 2 - k)
             /\ \A k \in 0..n - 2 : At(Without(s, i), k) = IF k < d THEN At(s, k) ELSE At(s, k + 1)
  <2>1. i \in 1..n
    BY <1>0, Numbers
  <2>2. PICK u : u = Without(s, i)
    OBVIOUS
  <2>3. Len(u) = n - 1 /\ \A k \in 0..n - 2 : At(u, k) = IF k < d THEN At(s, k) ELSE At(s, k + 1)
    BY <2>2, <1>0, <1>4, WithoutIs
  <2>4. d \in 0..n - 1 /\ n - 1 \in Nat /\ (n - 1) - 1 = n - 2 /\ n - 1 - 1 = n - 2
    BY <2>1, <1>1, <1>4
  <2>5. isPalindrome(u) <=> \A k \in 0..n - 2 : At(u, k) = At(u, n - 2 - k)
    <3>1. Len(u) \in Nat
      BY <2>3, <2>4
    <3>2. isPalindrome(u) <=> \A k \in 0..Len(u) - 1 : At(u, k) = At(u, Len(u) - 1 - k)
      BY <3>1, PalindromeIs
    <3>3. Len(u) - 1 = n - 2
      BY <2>3, <2>4
    <3> QED
      BY <3>2, <3>3
  <2> QED
    BY <2>2, <2>3, <2>4, <2>5
<1>5. ASSUME NEW i \in DOMAIN s, isPalindrome(Without(s, i))
      PROVE  checkPalindrome(s, l + 1, r) \/ checkPalindrome(s, l, r - 1)
  <2>1. PICK d, u : d = i - 1 /\ u = Without(s, i)
    OBVIOUS
  <2>2. /\ d \in 0..n - 1
        /\ \A k \in 0..n - 2 : At(u, k) = At(u, n - 2 - k)
        /\ \A k \in 0..n - 2 : At(u, k) = IF k < d THEN At(s, k) ELSE At(s, k + 1)
    BY <2>1, <1>4, <1>5
  <2>3. CASE d >= r
    <3>1. ASSUME NEW k \in 0..(r - 1) - l PROVE At(s, l + k) = At(s, (r - 1) - k)
      <4>1. /\ l + k \in 0..n - 2 /\ n - 2 - (l + k) = (r - 1) - k /\ (r - 1) - k \in 0..n - 2
            /\ l + k < d /\ (r - 1) - k < d
        BY <2>2, <2>3, <1>2
      <4> QED
        BY <4>1, <2>2
    <3> QED
      BY <3>1 DEF checkPalindrome
  <2>4. CASE d <= l
    <3>1. ASSUME NEW k \in 0..r - (l + 1) PROVE At(s, (l + 1) + k) = At(s, r - k)
      <4>1. /\ l + k \in 0..n - 2 /\ n - 2 - (l + k) = (r - 1) - k /\ (r - 1) - k \in 0..n - 2
            /\ ~ (l + k < d) /\ ~ ((r - 1) - k < d) /\ l + k + 1 = (l + 1) + k /\ (r - 1) - k + 1 = r - k
        BY <2>2, <2>4, <1>2
      <4>2. At(u, l + k) = At(u, (r - 1) - k)
        BY <4>1, <2>2
      <4>3. At(u, l + k) = At(s, (l + 1) + k) /\ At(u, (r - 1) - k) = At(s, r - k)
        BY <4>1, <2>2
      <4> QED
        BY <4>2, <4>3
    <3> QED
      BY <3>1 DEF checkPalindrome
  <2>5. CASE l < d /\ d < r
    <3>1. l \in 0..n - 2 /\ n - 2 - l = r - 1 /\ r - 1 \in 0..n - 2 /\ ~ (r - 1 < d) /\ r - 1 + 1 = r
      BY <2>2, <2>5, <1>2
    <3>2. At(u, l) = At(s, l) /\ At(u, r - 1) = At(s, r) /\ At(u, l) = At(u, r - 1)
      BY <3>1, <2>2, <2>5
    <3> QED
      BY <3>2, <1>1
  <2>6. d \in Int
    BY <2>2
  <2> QED
    BY <2>3, <2>4, <2>5, <2>6, <1>2
<1>6. ASSUME NEW d \in 0..n - 1,
             \A k \in 0..n - 2 : k < n - 2 - k =>
               (IF k < d THEN At(s, k) ELSE At(s, k + 1))
                 = IF n - 2 - k < d THEN At(s, n - 2 - k) ELSE At(s, n - 1 - k)
      PROVE  \E i \in DOMAIN s : isPalindrome(Without(s, i))
  <2>1. PICK i, u : i = d + 1 /\ u = Without(s, i)
    OBVIOUS
  <2>2. i \in DOMAIN s /\ d = i - 1
    <3>1. i \in 1..n /\ d = i - 1
      BY <2>1, <1>1
    <3> QED
      BY <3>1, <1>0, Numbers
  <2>3. \A k \in 0..n - 2 : At(u, k) = IF k < d THEN At(s, k) ELSE At(s, k + 1)
    BY <2>1, <2>2, <1>4
  <2>4. ASSUME NEW k \in 0..n - 2, k < n - 2 - k PROVE At(u, k) = At(u, n - 2 - k)
    <3>1. n - 2 - k \in 0..n - 2 /\ n - 2 - k + 1 = n - 1 - k
      BY <1>2
    <3> QED
      BY <3>1, <2>3, <2>4, <1>6
  <2>5. ASSUME NEW k \in 0..n - 2 PROVE At(u, k) = At(u, n - 2 - k)
    <3>1. n - 2 - k \in 0..n - 2 /\ n - 2 - (n - 2 - k) = k
      BY <1>2
    <3>2. CASE k < n - 2 - k
      BY <3>2, <2>4
    <3>3. CASE n - 2 - k < k
      <4>1. At(u, n - 2 - k) = At(u, n - 2 - (n - 2 - k))
        BY <3>1, <3>3, <2>4
      <4> QED
        BY <4>1, <3>1
    <3>4. CASE n - 2 - k = k
      BY <3>4
    <3> QED
      BY <3>2, <3>3, <3>4, <1>2
  <2>6. isPalindrome(u)
    BY <2>1, <2>2, <2>5, <1>4
  <2> QED
    BY <2>1, <2>2, <2>6
<1>7. ASSUME checkPalindrome(s, l + 1, r) PROVE \E i \in DOMAIN s : isPalindrome(Without(s, i))
  <2>1. l \in 0..n - 1
    BY <1>2
  <2>2. ASSUME NEW k \in 0..n - 2, k < n - 2 - k
        PROVE  (IF k < l THEN At(s, k) ELSE At(s, k + 1))
                 = IF n - 2 - k < l THEN At(s, n - 2 - k) ELSE At(s, n - 1 - k)
    <3>1. ~ (n - 2 - k < l)
      BY <2>2, <1>2
    <3>2. CASE k < l
      <4>1. k \in 0..l - 1
        BY <3>2, <1>2
      <4> QED
        BY <3>1, <3>2, <4>1, <1>1
    <3>3. CASE ~ (k < l)
      <4>1. k - l \in 0..r - (l + 1) /\ (l + 1) + (k - l) = k + 1 /\ r - (k - l) = n - 1 - k
        BY <3>1, <3>3, <1>2
      <4>2. At(s, (l + 1) + (k - l)) = At(s, r - (k - l))
        BY <4>1, <1>7 DEF checkPalindrome
      <4> QED
        BY <3>1, <3>3, <4>1, <4>2
    <3> QED
      BY <3>2, <3>3
  <2> QED
    BY <2>1, <2>2, <1>6
<1>8. ASSUME checkPalindrome(s, l, r - 1) PROVE \E i \in DOMAIN s : isPalindrome(Without(s, i))
  <2>1. r \in 0..n - 1
    BY <1>2
  <2>2. ASSUME NEW k \in 0..n - 2, k < n - 2 - k
        PROVE  (IF k < r THEN At(s, k) ELSE At(s, k + 1))
                 = IF n - 2 - k < r THEN At(s, n - 2 - k) ELSE At(s, n - 1 - k)
    <3>1. k < r
      BY <2>2, <1>2
    <3>2. CASE k < l
      <4>1. k \in 0..l - 1 /\ ~ (n - 2 - k < r)
        BY <3>2, <1>2
      <4> QED
        BY <3>1, <4>1, <1>1
    <3>3. CASE ~ (k < l)
      <4>1. k - l \in 0..(r - 1) - l /\ l + (k - l) = k /\ (r - 1) - (k - l) = n - 2 - k /\ n - 2 - k < r
        BY <3>1, <3>3, <1>2
      <4>2. At(s, l + (k - l)) = At(s, (r - 1) - (k - l))
        BY <4>1, <1>8 DEF checkPalindrome
      <4> QED
        BY <3>1, <4>1, <4>2
    <3> QED
      BY <3>2, <3>3
  <2> QED
    BY <2>1, <2>2, <1>6
<1> QED
  BY <1>0, <1>3, <1>5, <1>7, <1>8

\* test680 finds the palindromes but for one element.
LEMMA test680Is ==
  ASSUME NEW s \in Seq(Element)
  PROVE  test680(s) <=> isPalindrome(s) \/ \E i \in DOMAIN s : isPalindrome(Without(s, i))
<1>0. PICK n : n = Len(s)
  OBVIOUS
<1> DEFINE w0 == Start680(s)  g == Loop680(s)  D == States680(s)
           G == [w \in D |-> Step680(s, w)]  M == [w \in D |-> w.r + 1]
<1>1. n \in Nat
  BY <1>0, Numbers
<1>2. w0 \in D
  <2>1. 0 \in 0..n /\ n - 1 \in -1..n - 1 /\ 0 + (n - 1) = n - 1 /\ 0 <= (n - 1) + 1 /\ 0..0 - 1 = {}
    BY <1>1
  <2> QED
    BY <1>0, <2>1 DEF Start680, States680
<1>3. \A v \in D : v.r \in -1..n - 1
  BY <1>0 DEF States680
<1>4. \A v \in D : /\ Step680(s, v) \in D
                   /\ IF Open(v) /\ At(s, v.l) = At(s, v.r) THEN Step680(s, v).r < v.r ELSE Step680(s, v) = v
  BY Turn680
<1>5. G \in [D -> D] /\ M \in [D -> Nat] /\ M[w0] <= n /\ \A v \in D : G[v] = v \/ M[G[v]] < M[v]
  <2> HIDE DEF D
  <2>1. w0.r = n - 1
    BY <1>0 DEF Start680
  <2>2. M[w0] <= n
    <3> HIDE DEF w0
    <3> QED
      BY <1>1, <1>2, <2>1
  <2>3. \A v \in D : v.r + 1 \in Nat
    BY <1>1, <1>3
  <2>4. G \in [D -> D] /\ M \in [D -> Nat]
    BY <1>4, <2>3
  <2>5. ASSUME NEW v \in D PROVE G[v] = v \/ M[G[v]] < M[v]
    <3>1. Step680(s, v) \in D /\ (Step680(s, v).r < v.r \/ Step680(s, v) = v)
      BY <1>4
    <3>2. Step680(s, v).r \in Int /\ v.r \in Int
      BY <3>1, <1>1, <1>3
    <3> QED
      BY <3>1, <3>2
  <2> QED
    BY <2>2, <2>4, <2>5
<1>p. PICK f : EndsAs(n, D, G, w0, f)
  <2> HIDE DEF D, G, M, w0
  <2> QED
    BY <1>1, <1>2, <1>5, LoopRule
<1>6. /\ f \in [0..n -> D] /\ f[0] = w0 /\ \A d \in 1..n : f[d] = G[f[d - 1]]
      /\ f[n] \in D /\ G[f[n]] = f[n]
      /\ \A z : Follows(n, D, G, z) /\ z[0] = w0 => z[n] = f[n]
  BY <1>p DEF EndsAs
<1>7. g[n] = f[n]
  <2>1. f = [d \in 0..n |-> IF d = 0 THEN w0 ELSE Step680(s, f[d - 1])]
    <3>1. \A d \in 1..n : d - 1 \in 0..n
      BY <1>1
    <3>2. \A d \in 1..n : f[d] = Step680(s, f[d - 1])
      BY <1>6, <3>1
    <3> HIDE DEF D
    <3> QED
      BY <1>6, <3>2, <1>1
  <2>2. g = [d \in 0..n |-> IF d = 0 THEN w0 ELSE Step680(s, g[d - 1])]
    BY <2>1, <1>0 DEF Loop680
  <2>3. g[0] = w0 /\ \A d \in 1..n : g[d] = Step680(s, g[d - 1])
    BY <2>2, <1>1
  <2>4. Follows(n, D, G, g)
    BY <2>3 DEF Follows
  <2> HIDE DEF D, G, g
  <2> QED
    BY <1>6, <2>3, <2>4
<1>8. PICK v : v = f[n]
  OBVIOUS
<1>9. v \in D /\ Step680(s, v) = v
  BY <1>6, <1>8
<1>10. Open(v) => At(s, v.l) # At(s, v.r)
  <2>1. v.r \in Int
    BY <1>1, <1>3, <1>9
  <2>2. ~ (v.r < v.r)
    BY <2>1
  <2> HIDE DEF D
  <2> QED
    BY <2>2, <1>4, <1>9
<1>11. test680(s) <=> (Open(v) => checkPalindrome(s, v.l + 1, v.r) \/ checkPalindrome(s, v.l, v.r - 1))
  <2>1. test680(s) <=> (Open(g[Len(s)]) => \/ checkPalindrome(s, g[Len(s)].l + 1, g[Len(s)].r)
                                           \/ checkPalindrome(s, g[Len(s)].l, g[Len(s)].r - 1))
    BY DEF test680, While, Step680, Start680, Loop680
  <2> HIDE DEF g
  <2> QED
    BY <2>1, <1>0, <1>7, <1>8
<1> HIDE DEF g, G, M, w0
<1>12. CASE Open(v)
  BY <1>9, <1>10, <1>11, <1>12, OneGoes
<1>13. CASE ~ Open(v)
  <2>1. /\ v.l \in 0..n /\ v.r \in -1..n - 1 /\ v.l + v.r = n - 1 /\ ~ (v.l < v.r)
        /\ \A k \in 0..v.l - 1 : At(s, k) = At(s, n - 1 - k)
    BY <1>0, <1>9, <1>13 DEF States680, Open
  <2>2. \A k \in 0..(n \div 2) - 1 : k \in 0..v.l - 1
    BY <2>1, <1>1
  <2>3. isPalindrome(s)
    BY <2>1, <2>2, <1>0 DEF isPalindrome
  <2> QED
    BY <2>3, <1>11, <1>13
<1> QED
  BY <1>12, <1>13

-----------------------------------------------------------------------------
(* checkSubString.                                                         *)

\* f takes the first k elements of t to their likes among the first p of s, in their order;
\* and there is such an f.
TakesBy(s, p, t, k, f) ==
  f \in [1..k -> 1..p] /\ \A i, j \in 1..k : t[i] = s[f[i]] /\ (i < j => f[i] < f[j])
Taken(s, p, t, k) == \E f : TakesBy(s, p, t, k, f)

\* One turn of the loop of checkSubString, all its turns, and its states: no more of t can
\* be taken to what has been seen of s.
StepSub(s, t, v) ==
  IF v.ls < Len(s) /\ v.lt < Len(s)
  THEN [ls |-> v.ls + 1,
        lt |-> IF v.lt < Len(t) /\ At(s, v.ls) = At(t, v.lt) THEN v.lt + 1 ELSE v.lt]
  ELSE v
StartSub == [ls |-> 0, lt |-> 0]
LoopSub(s, t) == CHOOSE f : f = [k \in 0..Len(s) |-> IF k = 0 THEN StartSub ELSE StepSub(s, t, f[k - 1])]
StatesSub(s, t) ==
  {w \in [ls : 0..Len(s), lt : 0..Len(t)] :
     w.lt <= w.ls /\ Taken(s, w.ls, t, w.lt) /\ \A k \in 0..Len(t) : Taken(s, w.ls, t, k) => k <= w.lt}

\* One more element of s takes one more of t, if it is its like.
LEMMA OneMore ==
  ASSUME NEW s \in Seq(Element), NEW t \in Seq(Element), NEW p \in 0..Len(s) - 1, NEW m \in 0..Len(t) - 1,
         Taken(s, p, t, m), s[p + 1] = t[m + 1]
  PROVE  Taken(s, p + 1, t, m + 1)
<1>0. p \in Nat /\ m \in Nat
  BY Numbers
<1>1. PICK f : TakesBy(s, p, t, m, f)
  BY DEF Taken
<1>2. PICK q, n : q = p + 1 /\ n = m + 1
  OBVIOUS
<1>3. PICK g : g = [i \in 1..n |-> IF i = n THEN q ELSE f[i]]
  OBVIOUS
<1>4. q \in Nat /\ n \in Nat /\ 1..p \subseteq 1..q /\ q \in 1..q /\ \A i \in 1..n : i = n \/ i \in 1..m
  BY <1>0, <1>2
<1>5. g \in [1..n -> 1..q]
  BY <1>1, <1>3, <1>4 DEF TakesBy
<1>6. \A i \in 1..n : t[i] = s[g[i]]
  BY <1>1, <1>2, <1>3, <1>4 DEF TakesBy
<1>7. ASSUME NEW i \in 1..n, NEW j \in 1..n, i < j PROVE g[i] < g[j]
  <2>1. i \in 1..m /\ g[i] = f[i] /\ f[i] \in 1..p
    <3>1. i # n
      BY <1>4, <1>7
    <3> QED
      BY <3>1, <1>1, <1>3, <1>4 DEF TakesBy
  <2>2. CASE j = n
    BY <2>1, <2>2, <1>0, <1>2, <1>3
  <2>3. CASE j \in 1..m
    <3>1. j # n
      BY <2>3, <1>0, <1>2
    <3> QED
      BY <3>1, <2>1, <2>3, <1>1, <1>3, <1>7 DEF TakesBy
  <2> QED
    BY <2>2, <2>3, <1>4
<1>8. TakesBy(s, q, t, n, g)
  BY <1>5, <1>6, <1>7 DEF TakesBy
<1> QED
  BY <1>2, <1>8 DEF Taken

\* One element of s takes at most one of t.
LEMMA OneLess ==
  ASSUME NEW s \in Seq(Element), NEW t \in Seq(Element), NEW p \in 0..Len(s) - 1, NEW k \in 1..Len(t),
         Taken(s, p + 1, t, k)
  PROVE  Taken(s, p, t, k - 1) /\ (Taken(s, p, t, k) \/ t[k] = s[p + 1])
<1>0. p \in Nat /\ k \in Nat /\ k \in 1..k
  BY Numbers
<1>1. PICK f : TakesBy(s, p + 1, t, k, f)
  BY DEF Taken
<1>2. PICK q, m : q = p + 1 /\ m = k - 1
  OBVIOUS
<1>3. q \in Nat /\ m \in Nat /\ 1..m \subseteq 1..k /\ \A i \in 1..m : i < k
  BY <1>0, <1>2
<1>4. /\ f \in [1..k -> 1..q]
      /\ \A i \in 1..k : t[i] = s[f[i]]
      /\ \A i, j \in 1..k : i < j => f[i] < f[j]
  BY <1>1, <1>2 DEF TakesBy
<1>5. f[k] \in 1..q
  BY <1>0, <1>4
<1>6. \A i \in 1..m : f[i] \in 1..p
  <2>1. \A i \in 1..m : f[i] \in 1..q /\ f[i] < f[k]
    BY <1>0, <1>3, <1>4
  <2> QED
    BY <2>1, <1>5, <1>0, <1>2
<1>7. Taken(s, p, t, m)
  <2>1. PICK g : g = [i \in 1..m |-> f[i]]
    OBVIOUS
  <2>2. g \in [1..m -> 1..p]
    BY <2>1, <1>6
  <2>3. TakesBy(s, p, t, m, g)
    BY <2>1, <2>2, <1>3, <1>4 DEF TakesBy
  <2> QED
    BY <2>3 DEF Taken
<1>8. CASE f[k] = q
  BY <1>0, <1>2, <1>4, <1>7, <1>8
<1>9. CASE f[k] # q
  <2>1. f[k] \in 1..p
    BY <1>5, <1>9, <1>0, <1>2
  <2>2. \A i \in 1..k : i = k \/ i \in 1..m
    BY <1>0, <1>2
  <2>3. \A i \in 1..k : f[i] \in 1..p
    BY <2>1, <2>2, <1>6
  <2>4. f \in [1..k -> 1..p]
    BY <2>3, <1>4
  <2>5. TakesBy(s, p, t, k, f)
    BY <2>4, <1>4 DEF TakesBy
  <2> QED
    BY <2>5, <1>2, <1>7 DEF Taken
<1> QED
  BY <1>8, <1>9

\* A turn keeps to the states, and goes on in s.
LEMMA TurnSub ==
  ASSUME NEW s \in Seq(Element), NEW t \in Seq(Element), NEW w \in StatesSub(s, t)
  PROVE  /\ StepSub(s, t, w) \in StatesSub(s, t)
         /\ IF w.ls < Len(s) THEN StepSub(s, t, w).ls = w.ls + 1 ELSE StepSub(s, t, w) = w
<1>0. PICK n, m, p, q, u : n = Len(s) /\ m = Len(t) /\ p = w.ls /\ q = w.lt /\ u = StepSub(s, t, w)
  OBVIOUS
<1>1. /\ n \in Nat /\ m \in Nat /\ p \in 0..n /\ q \in 0..m /\ q <= p /\ Taken(s, p, t, q)
      /\ \A k \in 0..m : Taken(s, p, t, k) => k <= q
  BY <1>0, Numbers DEF StatesSub
<1>2. CASE p < n
  <2>1. PICK z : z = IF q < m /\ s[p + 1] = t[q + 1] THEN q + 1 ELSE q
    OBVIOUS
  <2>2. u = [ls |-> p + 1, lt |-> z]
    <3>1. p < n /\ q < n
      BY <1>1, <1>2
    <3> QED
      BY <3>1, <2>1, <1>0 DEF StepSub, At
  <2>3. p \in 0..n - 1 /\ p + 1 \in 0..n /\ z \in 0..m /\ z <= p + 1
    BY <2>1, <1>1, <1>2
  <2>4. Taken(s, p + 1, t, z)
    <3>1. CASE q < m /\ s[p + 1] = t[q + 1]
      <4>1. q \in 0..m - 1
        BY <3>1, <1>1
      <4> QED
        BY <4>1, <3>1, <2>1, <2>3, <1>0, <1>1, OneMore
    <3>2. CASE ~ (q < m /\ s[p + 1] = t[q + 1])
      <4>1. PICK f : TakesBy(s, p, t, q, f)
        BY <1>1 DEF Taken
      <4>2. 1..p \subseteq 1..p + 1
        BY <1>1
      <4>3. TakesBy(s, p + 1, t, q, f)
        BY <4>1, <4>2 DEF TakesBy
      <4> QED
        BY <4>3, <3>2, <2>1 DEF Taken
    <3> QED
      BY <3>1, <3>2
  <2>5. ASSUME NEW k \in 0..m, Taken(s, p + 1, t, k) PROVE k <= z
    <3>1. CASE k = 0
      BY <3>1, <2>3
    <3>2. CASE k \in 1..m
      <4>1. Taken(s, p, t, k - 1) /\ (Taken(s, p, t, k) \/ t[k] = s[p + 1])
        BY <3>2, <2>3, <2>5, <1>0, OneLess
      <4>2. k - 1 \in 0..m
        BY <3>2, <1>1
      <4>3. k - 1 <= q /\ (k <= q \/ t[k] = s[p + 1])
        BY <4>1, <4>2, <2>5, <1>1
      <4>4. CASE k <= q
        BY <4>4, <2>1, <1>1
      <4>5. CASE ~ (k <= q)
        <5>1. k = q + 1 /\ q < m
          BY <4>3, <4>5, <3>2, <1>1
        <5> QED
          BY <5>1, <4>3, <4>5, <2>1
      <4> QED
        BY <4>4, <4>5
    <3> QED
      BY <3>1, <3>2, <1>1
  <2>6. u.ls = p + 1 /\ u.lt = z /\ u \in [ls : 0..n, lt : 0..m]
    BY <2>2, <2>3
  <2>7. u \in StatesSub(s, t)
    BY <2>3, <2>4, <2>5, <2>6, <1>0, SMTT(30) DEF StatesSub
  <2> QED
    BY <2>6, <2>7, <1>0, <1>2
<1>3. CASE ~ (p < n)
  <2>1. u = w
    BY <1>0, <1>3 DEF StepSub
  <2> QED
    BY <2>1, <1>0, <1>3
<1> QED
  BY <1>2, <1>3

\* checkSubString tells whether all of t can be taken to elements of s.
LEMMA checkSubStringIs ==
  ASSUME NEW s \in Seq(Element), NEW t \in Seq(Element)
  PROVE  checkSubString(s, t) <=>
           \E f \in [DOMAIN t -> DOMAIN s] : \A i, j \in DOMAIN t : t[i] = s[f[i]] /\ (i < j => f[i] < f[j])
<1>0. PICK n, m : n = Len(s) /\ m = Len(t)
  OBVIOUS
<1> DEFINE w0 == StartSub  g == LoopSub(s, t)  D == StatesSub(s, t)
           G == [w \in D |-> StepSub(s, t, w)]  M == [w \in D |-> n - w.ls]
<1>1. n \in Nat /\ m \in Nat /\ DOMAIN s = 1..n /\ DOMAIN t = 1..m
  BY <1>0, Numbers
<1>2. w0 \in D
  <2>1. \A k \in 0..m : Taken(s, 0, t, k) => k <= 0
    <3> SUFFICES ASSUME NEW k \in 0..m, Taken(s, 0, t, k), ~ (k <= 0) PROVE FALSE
      OBVIOUS
    <3>1. PICK f : TakesBy(s, 0, t, k, f)
      BY DEF Taken
    <3>2. 1 \in 1..k /\ f \in [1..k -> 1..0]
      BY <3>1, <1>1 DEF TakesBy
    <3>3. f[1] \in 1..0
      BY <3>2
    <3> QED
      BY <3>3
  <2>2. Taken(s, 0, t, 0)
    <3>1. TakesBy(s, 0, t, 0, [i \in 1..0 |-> 0])
      BY DEF TakesBy
    <3> QED
      BY <3>1 DEF Taken
  <2>3. 0 \in 0..n /\ 0 \in 0..m /\ 0 <= 0
    BY <1>1
  <2> QED
    BY <1>0, <2>1, <2>2, <2>3 DEF StartSub, StatesSub
<1>3. \A v \in D : v.ls \in 0..n
  BY <1>0 DEF StatesSub
<1>4. \A v \in D : /\ StepSub(s, t, v) \in D
                   /\ IF v.ls < n THEN StepSub(s, t, v).ls = v.ls + 1 ELSE StepSub(s, t, v) = v
  BY <1>0, TurnSub
<1>5. G \in [D -> D] /\ M \in [D -> Nat] /\ M[w0] <= n /\ \A v \in D : G[v] = v \/ M[G[v]] < M[v]
  <2> HIDE DEF D
  <2>1. w0.ls = 0
    BY DEF StartSub
  <2>2. M[w0] <= n
    <3> HIDE DEF w0
    <3> QED
      BY <1>1, <1>2, <2>1
  <2>3. \A v \in D : n - v.ls \in Nat
    BY <1>1, <1>3
  <2>4. G \in [D -> D] /\ M \in [D -> Nat]
    BY <1>4, <2>3
  <2>5. ASSUME NEW v \in D PROVE G[v] = v \/ M[G[v]] < M[v]
    <3>1. StepSub(s, t, v) \in D /\ (StepSub(s, t, v).ls = v.ls + 1 \/ StepSub(s, t, v) = v)
      BY <1>4
    <3>2. v.ls \in Int /\ n \in Int
      BY <1>1, <1>3
    <3> QED
      BY <3>1, <3>2
  <2> QED
    BY <2>2, <2>4, <2>5
<1>p. PICK f : EndsAs(n, D, G, w0, f)
  <2> HIDE DEF D, G, M, w0
  <2> QED
    BY <1>1, <1>2, <1>5, LoopRule
<1>6. /\ f \in [0..n -> D] /\ f[0] = w0 /\ \A d \in 1..n : f[d] = G[f[d - 1]]
      /\ f[n] \in D /\ G[f[n]] = f[n]
      /\ \A z : Follows(n, D, G, z) /\ z[0] = w0 => z[n] = f[n]
  BY <1>p DEF EndsAs
<1>7. g[n] = f[n]
  <2>1. f = [d \in 0..n |-> IF d = 0 THEN w0 ELSE StepSub(s, t, f[d - 1])]
    <3>1. \A d \in 1..n : d - 1 \in 0..n
      BY <1>1
    <3>2. \A d \in 1..n : f[d] = StepSub(s, t, f[d - 1])
      BY <1>6, <3>1
    <3> HIDE DEF D
    <3> QED
      BY <1>6, <3>2, <1>1
  <2>2. g = [d \in 0..n |-> IF d = 0 THEN w0 ELSE StepSub(s, t, g[d - 1])]
    BY <2>1, <1>0 DEF LoopSub
  <2>3. g[0] = w0 /\ \A d \in 1..n : g[d] = StepSub(s, t, g[d - 1])
    BY <2>2, <1>1
  <2>4. Follows(n, D, G, g)
    BY <2>3 DEF Follows
  <2> HIDE DEF D, G, g
  <2> QED
    BY <1>6, <2>3, <2>4
<1>8. PICK v : v = f[n]
  OBVIOUS
<1>9. v \in D /\ StepSub(s, t, v) = v
  BY <1>6, <1>8
<1>10. v.ls = n
  <2>1. v.ls \in 0..n
    BY <1>3, <1>9
  <2>2. ~ (v.ls = v.ls + 1)
    BY <2>1
  <2> HIDE DEF D
  <2> QED
    BY <2>1, <2>2, <1>1, <1>4, <1>9
<1>11. checkSubString(s, t) <=> v.lt = m
  <2>1. checkSubString(s, t) <=> g[Len(s)].lt = Len(t)
    BY DEF checkSubString, While, StepSub, StartSub, LoopSub
  <2> HIDE DEF g
  <2> QED
    BY <2>1, <1>0, <1>7, <1>8
<1> HIDE DEF g, G, M, w0
<1>12. v.lt \in 0..m /\ Taken(s, n, t, v.lt) /\ \A k \in 0..m : Taken(s, n, t, k) => k <= v.lt
  BY <1>0, <1>9, <1>10 DEF StatesSub
<1>13. v.lt = m <=> Taken(s, n, t, m)
  <2>1. m \in 0..m
    BY <1>1
  <2>2. Taken(s, n, t, m) => v.lt = m
    BY <2>1, <1>1, <1>12
  <2> QED
    BY <2>2, <1>12
<1> QED
  BY <1>1, <1>11, <1>13 DEF Taken, TakesBy

\* The part of s between places l and r, what it holds, and that Parts has it.
LEMMA PartIs ==
  ASSUME NEW s \in Seq(Element), NEW l \in 0..Len(s), NEW r \in l..Len(s)
  PROVE  /\ SubSeq(s, l + 1, r) \in Seq(Element) /\ Len(SubSeq(s, l + 1, r)) = r - l
         /\ \A k \in 1..r - l : SubSeq(s, l + 1, r)[k] = s[l + k]
         /\ l < r => SubSeq(s, l + 1, r) \in Parts(s)
<1>0. PICK n : n = Len(s)
  OBVIOUS
<1>1. n \in Nat /\ l \in Nat /\ r \in Nat /\ l <= r /\ r <= n
  BY <1>0, Numbers
<1>2. SubSeq(s, l + 1, r) \in Seq(Element) /\ Len(SubSeq(s, l + 1, r)) = r - l
      /\ \A k \in 1..r - l : SubSeq(s, l + 1, r)[k] = s[l + k]
  BY <1>0, <1>1
<1>3. l < r => l + 1 \in 1..n /\ r \in 0..n
  BY <1>1
<1>4. l < r => SubSeq(s, l + 1, r) \in Parts(s)
  <2> SUFFICES ASSUME l < r PROVE SubSeq(s, l + 1, r) \in Parts(s)
    OBVIOUS
  <2>1. PICK i, j, x : i = l + 1 /\ j = r /\ x = SubSeq(s, i, j)
    OBVIOUS
  <2>2. i \in 1..Len(s) /\ j \in 0..Len(s)
    BY <2>1, <1>0, <1>3
  <2>3. x \in Parts(s)
    BY <2>1, <2>2 DEF Parts
  <2> QED
    BY <2>1, <2>3
<1> QED
  BY <1>0, <1>2, <1>4

\* Every member of Parts is such a part.
LEMMA PartsAre ==
  ASSUME NEW s \in Seq(Element), NEW x \in Parts(s)
  PROVE  \E l \in 0..Len(s) : \E r \in l..Len(s) : x = SubSeq(s, l + 1, r)
<1>0. PICK n : n = Len(s)
  OBVIOUS
<1>1. n \in Nat
  BY <1>0, Numbers
<1>2. PICK i \in 1..n, j \in 0..n : x = SubSeq(s, i, j)
  BY <1>0 DEF Parts
<1>3. CASE i <= j
  <2>1. i - 1 \in 0..n /\ j \in i - 1..n /\ (i - 1) + 1 = i
    BY <1>1, <1>3
  <2> QED
    BY <2>1, <1>0, <1>2
<1>4. CASE ~ (i <= j)
  <2>1. x = <<>>
    BY <1>0, <1>1, <1>2, <1>4
  <2>2. SubSeq(s, 0 + 1, 0) = <<>>
    BY <1>0, <1>1
  <2>3. 0 \in 0..n
    BY <1>1
  <2> QED
    BY <2>1, <2>2, <2>3, <1>0
<1> QED
  BY <1>3, <1>4

\* The length of the longest of some parts.
LEMMA LongestIs ==
  ASSUME NEW s \in Seq(Element), NEW P, P \subseteq Parts(s), NEW L \in 0..Len(s),
         L = 0 \/ (\E x \in P : Len(x) = L), \A x \in P : Len(x) <= L
  PROVE  Longest(P) = L
<1>0. PICK n : n = Len(s)
  OBVIOUS
<1>1. n \in Nat /\ L \in 0..n
  BY <1>0, Numbers
<1>2. PICK S : S = {0} \cup {Len(x) : x \in P}
  OBVIOUS
<1>3. \A x \in P : Len(x) \in 0..n
  <2> SUFFICES ASSUME NEW x \in P PROVE Len(x) \in 0..n
    OBVIOUS
  <2>1. PICK l, r : l \in 0..n /\ r \in l..n /\ x = SubSeq(s, l + 1, r)
    <3>1. x \in Parts(s)
      OBVIOUS
    <3>2. \E l \in 0..n : \E r \in l..n : x = SubSeq(s, l + 1, r)
      BY <3>1, <1>0, PartsAre
    <3> QED
      BY <3>2
  <2>2. Len(x) = r - l
    BY <2>1, <1>0, PartIs
  <2> QED
    BY <2>2, <1>1
<1>4. S \subseteq 0..n /\ S # {} /\ L \in S /\ \A k \in S : k <= L
  BY <1>1, <1>2, <1>3
<1>5. Max(S) \in S /\ L <= Max(S)
  BY <1>1, <1>4, MaxIs
<1>6. Max(S) <= L /\ Max(S) \in Int
  <2>1. PICK k : k = Max(S)
    OBVIOUS
  <2>2. k \in S /\ k \in 0..n
    BY <2>1, <1>4, <1>5
  <2> QED
    BY <2>1, <2>2, <1>4
<1>7. Max(S) = L
  BY <1>1, <1>5, <1>6
<1> QED
  BY <1>2, <1>7 DEF Longest

-----------------------------------------------------------------------------
(* lengthOfLongestSubstringEx.                                             *)

\* No element is in s twice between places l and r.
Distinct(s, l, r) == \A i, j \in l + 1..r : s[i] = s[j] => i = j

\* L is the length of a longest of these parts up to place m.
MostDistinct(s, m, L) ==
  /\ \E r \in 0..m : \E l \in 0..r : Distinct(s, l, r) /\ L = r - l
  /\ \A r \in 0..m : \A l \in 0..r : Distinct(s, l, r) => r - l <= L

\* Among all parts as well.
LEMMA LongestDistinct ==
  ASSUME NEW s \in Seq(Element), NEW L, MostDistinct(s, Len(s), L)
  PROVE  L = Longest({x \in Parts(s) : \A i, j \in DOMAIN x : x[i] = x[j] => i = j})
<1>0. PICK n : n = Len(s)
  OBVIOUS
<1>1. n \in Nat
  BY <1>0, Numbers
<1>2. PICK P : P = {x \in Parts(s) : \A i, j \in DOMAIN x : x[i] = x[j] => i = j}
  OBVIOUS
<1>3. ASSUME NEW r \in 0..n, NEW l \in 0..r, NEW x, x = SubSeq(s, l + 1, r)
      PROVE  Distinct(s, l, r) <=> \A i, j \in DOMAIN x : x[i] = x[j] => i = j
  <2>1. l \in 0..n /\ r \in l..n /\ l \in Int /\ r \in Int
    BY <1>1
  <2>2. x \in Seq(Element) /\ Len(x) = r - l /\ \A k \in 1..r - l : x[k] = s[l + k]
    BY <2>1, <1>0, <1>3, PartIs
  <2>3. DOMAIN x = 1..r - l
    BY <2>2, Numbers
  <2>4. ASSUME Distinct(s, l, r), NEW i \in 1..r - l, NEW j \in 1..r - l, x[i] = x[j] PROVE i = j
    <3>1. l + i \in l + 1..r /\ l + j \in l + 1..r
      BY <2>1
    <3>2. l + i = l + j
      BY <3>1, <2>2, <2>4 DEF Distinct
    <3> QED
      BY <3>2, <2>1
  <2>5. ASSUME \A i, j \in 1..r - l : x[i] = x[j] => i = j, NEW i \in l + 1..r, NEW j \in l + 1..r, s[i] = s[j]
        PROVE  i = j
    <3>1. i - l \in 1..r - l /\ j - l \in 1..r - l /\ l + (i - l) = i /\ l + (j - l) = j
      BY <2>1
    <3>2. i - l = j - l
      BY <3>1, <2>2, <2>5
    <3> QED
      BY <3>1, <3>2
  <2> QED
    BY <2>3, <2>4, <2>5 DEF Distinct
<1>4. PICK r, l : r \in 0..n /\ l \in 0..r /\ Distinct(s, l, r) /\ L = r - l
  BY <1>0 DEF MostDistinct
<1>5. L \in 0..n
  BY <1>1, <1>4
<1>6. L = 0 \/ \E x \in P : Len(x) = L
  <2> SUFFICES ASSUME L # 0 PROVE \E x \in P : Len(x) = L
    OBVIOUS
  <2>1. PICK x : x = SubSeq(s, l + 1, r)
    OBVIOUS
  <2>2. l \in 0..n /\ r \in l..n /\ l < r
    BY <1>1, <1>4
  <2>3. x \in Parts(s) /\ Len(x) = L
    BY <2>1, <2>2, <1>0, <1>4, PartIs
  <2>4. x \in P
    BY <2>1, <2>3, <1>2, <1>3, <1>4
  <2> QED
    BY <2>3, <2>4
<1>7. ASSUME NEW x \in P PROVE Len(x) <= L
  <2>1. PICK y, z : y \in 0..n /\ z \in y..n /\ x = SubSeq(s, y + 1, z)
    <3>1. x \in Parts(s)
      BY <1>2
    <3>2. \E i \in 0..n : \E j \in i..n : x = SubSeq(s, i + 1, j)
      BY <3>1, <1>0, PartsAre
    <3> QED
      BY <3>2
  <2>2. z \in 0..n /\ y \in 0..z
    BY <2>1, <1>1
  <2>3. Len(x) = z - y
    BY <2>1, <1>0, PartIs
  <2>4. Distinct(s, y, z)
    BY <2>1, <2>2, <1>2, <1>3, <1>7
  <2> QED
    BY <2>2, <2>3, <2>4, <1>0 DEF MostDistinct
<1>8. P \subseteq Parts(s)
  BY <1>2
<1> QED
  BY <1>0, <1>2, <1>5, <1>6, <1>7, <1>8, LongestIs

\* A part up to the next place m + 1 starts at or after i.
LEMMA MoreDistinct ==
  ASSUME NEW s, NEW m \in Nat, NEW i \in 0..m + 1, NEW L \in 0..m, MostDistinct(s, m, L),
         Distinct(s, i, m + 1), \A l \in 0..m + 1 : Distinct(s, l, m + 1) => i <= l
  PROVE  MostDistinct(s, m + 1, IF m + 1 - i > L THEN m + 1 - i ELSE L)
<1>1. PICK K, q : K = (IF m + 1 - i > L THEN m + 1 - i ELSE L) /\ q = m + 1
  OBVIOUS
<1>2. K \in Int /\ L <= K /\ q - i <= K /\ q \in Nat /\ \A r \in 0..q : r = q \/ r \in 0..m
  BY <1>1
<1>3. \E r \in 0..q : \E l \in 0..r : Distinct(s, l, r) /\ K = r - l
  <2>1. CASE K = q - i
    <3>1. q \in 0..q /\ i \in 0..q
      BY <1>1
    <3> QED
      BY <3>1, <2>1, <1>1
  <2>2. CASE K = L
    <3>1. 0..m \subseteq 0..q
      BY <1>1
    <3> QED
      BY <3>1, <2>2 DEF MostDistinct
  <2> QED
    BY <2>1, <2>2, <1>1
<1>4. ASSUME NEW r \in 0..q, NEW l \in 0..r, Distinct(s, l, r) PROVE r - l <= K
  <2>1. CASE r = q
    <3>1. i <= l /\ l \in Int
      BY <2>1, <1>1, <1>4
    <3> QED
      BY <3>1, <2>1, <1>2
  <2>2. CASE r \in 0..m
    <3>1. r - l <= L
      BY <2>2, <1>4 DEF MostDistinct
    <3>2. r - l \in Int
      OBVIOUS
    <3> QED
      BY <3>1, <3>2, <1>2
  <2> QED
    BY <2>1, <2>2, <1>2
<1>5. MostDistinct(s, q, K)
  BY <1>3, <1>4 DEF MostDistinct
<1> QED
  BY <1>1, <1>5

\* The part that ends with x starts behind the x before, if it is in the part.
LEMMA NextDistinct ==
  ASSUME NEW s, NEW m \in Nat, NEW i \in 0..m, NEW p \in 0..m, NEW h, h = (IF p >= i THEN p ELSE i),
         Distinct(s, i, m), \A l \in 0..m : Distinct(s, l, m) => i <= l,
         p > 0 => s[p] = s[m + 1], \A k \in h + 1..m : s[k] # s[m + 1]
  PROVE  h \in 0..m /\ Distinct(s, h, m + 1) /\ \A l \in 0..m + 1 : Distinct(s, l, m + 1) => h <= l
<1>0. PICK q : q = m + 1
  OBVIOUS
<1>1. h \in 0..m /\ i <= h /\ p <= h /\ (h = i \/ h = p) /\ q \in Nat
  BY <1>0
<1>2. ASSUME NEW j \in h + 1..q, NEW k \in h + 1..q, s[j] = s[k] PROVE j = k
  <2>1. CASE j = q
    <3>1. ~ (k \in h + 1..m)
      BY <2>1, <1>0, <1>2
    <3> QED
      BY <3>1, <2>1, <1>0, <1>1
  <2>2. CASE k = q
    <3>1. ~ (j \in h + 1..m)
      BY <2>2, <1>0, <1>2
    <3> QED
      BY <3>1, <2>2, <1>0, <1>1
  <2>3. CASE j # q /\ k # q
    <3>1. j \in i + 1..m /\ k \in i + 1..m
      BY <2>3, <1>0, <1>1
    <3> QED
      BY <3>1, <1>2 DEF Distinct
  <2> QED
    BY <2>1, <2>2, <2>3
<1>3. ASSUME NEW l \in 0..q, Distinct(s, l, q) PROVE h <= l
  <2>1. CASE l = q
    BY <2>1, <1>0, <1>1
  <2>2. CASE l \in 0..m
    <3>1. l + 1..m \subseteq l + 1..q
      BY <1>0
    <3>2. Distinct(s, l, m)
      BY <3>1, <1>3 DEF Distinct
    <3>3. i <= l
      BY <3>2, <2>2
    <3>4. ASSUME h = p, ~ (p <= l) PROVE FALSE
      <4>1. p \in l + 1..q /\ q \in l + 1..q /\ p > 0 /\ p # q
        BY <3>4, <2>2, <1>0
      <4> QED
        BY <4>1, <1>0, <1>3 DEF Distinct
    <3> QED
      BY <3>3, <3>4, <1>1
  <2> QED
    BY <2>1, <2>2, <1>0
<1> QED
  BY <1>0, <1>1, <1>2, <1>3 DEF Distinct

\* p is the last place of x up to m, or 0.
LastAt(s, m, x, p) == p \in 0..m /\ (p > 0 => s[p] = x) /\ \A k \in p + 1..m : s[k] # x

\* One turn of the loop, all turns, and the states.
StepEx(s, w) ==
  IF w.j < Len(s)
  THEN LET x == At(s, w.j)  i == Max({w.index[x], w.i})
       IN [j |-> w.j + 1, i |-> i, ans |-> Max({w.ans, w.j - i + 1}),
           index |-> [w.index EXCEPT ![x] = w.j + 1]]
  ELSE w
StartEx == [j |-> 0, i |-> 0, ans |-> 0, index |-> [x \in Element |-> 0]]
LoopEx(s) == CHOOSE f : f = [k \in 0..Len(s) |-> IF k = 0 THEN StartEx ELSE StepEx(s, f[k - 1])]
StatesEx(s) ==
  {w \in [j : 0..Len(s), i : 0..Len(s), ans : 0..Len(s), index : [Element -> 0..Len(s)]] :
     /\ w.i \in 0..w.j /\ w.ans \in 0..w.j
     /\ Distinct(s, w.i, w.j) /\ (\A l \in 0..w.j : Distinct(s, l, w.j) => w.i <= l)
     /\ MostDistinct(s, w.j, w.ans) /\ \A x \in Element : LastAt(s, w.j, x, w.index[x])}

\* A turn keeps to the states and goes on.
LEMMA TurnEx ==
  ASSUME NEW s \in Seq(Element), NEW w \in StatesEx(s)
  PROVE  /\ StepEx(s, w) \in StatesEx(s)
         /\ IF w.j < Len(s) THEN StepEx(s, w).j = w.j + 1 ELSE StepEx(s, w) = w
<1>0. PICK n, m, i, c, t, u : n = Len(s) /\ m = w.j /\ i = w.i /\ c = w.ans /\ t = w.index /\ u = StepEx(s, w)
  OBVIOUS
<1>1. /\ n \in Nat /\ m \in 0..n /\ i \in 0..m /\ c \in 0..m /\ t \in [Element -> 0..n]
      /\ Distinct(s, i, m) /\ (\A l \in 0..m : Distinct(s, l, m) => i <= l)
      /\ MostDistinct(s, m, c) /\ \A x \in Element : LastAt(s, m, x, t[x])
  BY <1>0, Numbers DEF StatesEx
<1>2. CASE m < n
  <2>1. PICK x, p : x = s[m + 1] /\ p = t[x]
    OBVIOUS
  <2>2. PICK h : h = (IF p >= i THEN p ELSE i)
    OBVIOUS
  <2>3. PICK d, y : d = (IF m + 1 - h > c THEN m + 1 - h ELSE c) /\ y = [t EXCEPT ![x] = m + 1]
    OBVIOUS
  <2>4. m \in Nat /\ m + 1 \in 1..n /\ m + 1 \in 0..n /\ x \in Element
    <3>1. m \in Nat /\ m + 1 \in 1..n /\ m + 1 \in 0..n
      BY <1>1, <1>2
    <3> QED
      BY <3>1, <2>1, <1>0, Numbers
  <2>5. p \in 0..m /\ (p > 0 => s[p] = s[m + 1]) /\ \A k \in p + 1..m : s[k] # s[m + 1]
    BY <2>1, <2>4, <1>1 DEF LastAt
  <2>6. h \in 0..m /\ \A k \in h + 1..m : k \in p + 1..m
    BY <2>2, <2>5, <1>1
  <2>7. Distinct(s, h, m + 1) /\ \A l \in 0..m + 1 : Distinct(s, l, m + 1) => h <= l
    <3>1. \A k \in h + 1..m : s[k] # s[m + 1]
      BY <2>5, <2>6
    <3> QED
      BY <3>1, <2>2, <2>4, <2>5, <1>1, NextDistinct
  <2>8. MostDistinct(s, m + 1, d)
    <3>1. h \in 0..m + 1
      BY <2>4, <2>6
    <3> QED
      BY <3>1, <2>3, <2>4, <2>7, <1>1, MoreDistinct
  <2>9. u = [j |-> m + 1, i |-> h, ans |-> d, index |-> y]
    <3>1. Max({p, i}) = h
      <4>1. p \in Int /\ i \in Int
        BY <2>5, <1>1
      <4> QED
        BY <4>1, <2>2, MaxOfTwo
    <3>2. Max({c, m - h + 1}) = d
      <4>1. c \in Int /\ m - h + 1 \in Int /\ m - h + 1 = m + 1 - h
        BY <2>4, <2>6, <1>1
      <4>2. Max({c, m - h + 1}) = IF c >= m - h + 1 THEN c ELSE m - h + 1
        BY <4>1, MaxOfTwo
      <4> QED
        BY <4>1, <4>2, <2>3
    <3>3. At(s, m) = x
      BY <2>1 DEF At
    <3> QED
      BY <3>1, <3>2, <3>3, <2>1, <2>3, <1>0, <1>2 DEF StepEx
  <2>10. u.j = m + 1 /\ u.i = h /\ u.ans = d /\ u.index = y
    BY <2>9
  <2>11. h \in 0..m + 1 /\ h \in 0..n /\ d \in 0..m + 1 /\ d \in 0..n
    BY <2>3, <2>4, <2>6, <1>1
  <2>12. y \in [Element -> 0..n] /\ y[x] = m + 1 /\ \A z \in Element : z # x => y[z] = t[z]
    BY <2>3, <2>4, <1>1
  <2>13. ASSUME NEW z \in Element PROVE LastAt(s, m + 1, z, y[z])
    <3>1. CASE z = x
      <4>1. m + 1 \in 0..m + 1 /\ (m + 1) + 1..m + 1 = {}
        BY <2>4
      <4> QED
        BY <4>1, <3>1, <2>1, <2>12 DEF LastAt
    <3>2. CASE z # x
      <4>1. PICK e : e = t[z]
        OBVIOUS
      <4>2. e \in 0..m /\ (e > 0 => s[e] = z) /\ (\A k \in e + 1..m : s[k] # z) /\ y[z] = e
        BY <4>1, <3>2, <2>12, <1>1 DEF LastAt
      <4>3. e \in 0..m + 1 /\ \A k \in e + 1..m + 1 : k = m + 1 \/ k \in e + 1..m
        BY <4>2, <2>4
      <4> QED
        BY <4>2, <4>3, <3>2, <2>1 DEF LastAt
    <3> QED
      BY <3>1, <3>2
  <2>14. u \in [j : 0..n, i : 0..n, ans : 0..n, index : [Element -> 0..n]]
    BY <2>4, <2>9, <2>11, <2>12
  <2>15. u \in StatesEx(s)
    BY <2>7, <2>8, <2>10, <2>11, <2>13, <2>14, <1>0, SMTT(30) DEF StatesEx
  <2> QED
    BY <2>10, <2>15, <1>0, <1>2
<1>3. CASE ~ (m < n)
  <2>1. u = w
    BY <1>0, <1>3 DEF StepEx
  <2> QED
    BY <2>1, <1>0, <1>3
<1> QED
  BY <1>2, <1>3

\* It finds the length of the longest part without a repetition.
LEMMA LongestExIs ==
  ASSUME NEW s \in Seq(Element)
  PROVE  MostDistinct(s, Len(s), lengthOfLongestSubstringEx(s))
<1>0. PICK n : n = Len(s)
  OBVIOUS
<1> DEFINE w0 == StartEx  g == LoopEx(s)  D == StatesEx(s)
           G == [w \in D |-> StepEx(s, w)]  M == [w \in D |-> n - w.j]
<1>1. n \in Nat
  BY <1>0, Numbers
<1>2. w0 \in D
  <2>1. 0 \in 0..n /\ 0 \in 0..0 /\ [x \in Element |-> 0] \in [Element -> 0..n] /\ 0 - 0 = 0
    BY <1>1
  <2>2. Distinct(s, 0, 0) /\ MostDistinct(s, 0, 0)
    BY <2>1 DEF Distinct, MostDistinct
  <2>3. \A x \in Element : LastAt(s, 0, x, 0)
    BY DEF LastAt
  <2>4. w0.j = 0 /\ w0.i = 0 /\ w0.ans = 0 /\ w0.index = [x \in Element |-> 0]
    BY DEF StartEx
  <2>5. w0 \in [j : 0..n, i : 0..n, ans : 0..n, index : [Element -> 0..n]]
    BY <2>1 DEF StartEx
  <2> HIDE DEF w0
  <2>6. \A l \in 0..0 : 0 <= l
    OBVIOUS
  <2> QED
    BY <2>1, <2>2, <2>3, <2>4, <2>5, <2>6, <1>0 DEF StatesEx
<1>3. \A v \in D : v.j \in 0..n
  BY <1>0 DEF StatesEx
<1>4. \A v \in D : /\ StepEx(s, v) \in D
                   /\ IF v.j < n THEN StepEx(s, v).j = v.j + 1 ELSE StepEx(s, v) = v
  BY <1>0, TurnEx
<1>5. G \in [D -> D] /\ M \in [D -> Nat] /\ M[w0] <= n /\ \A v \in D : G[v] = v \/ M[G[v]] < M[v]
  <2> HIDE DEF D
  <2>1. w0.j = 0
    BY DEF StartEx
  <2>2. M[w0] <= n
    <3> HIDE DEF w0
    <3> QED
      BY <1>1, <1>2, <2>1
  <2>3. \A v \in D : n - v.j \in Nat
    BY <1>1, <1>3
  <2>4. G \in [D -> D] /\ M \in [D -> Nat]
    BY <1>4, <2>3
  <2>5. ASSUME NEW v \in D PROVE G[v] = v \/ M[G[v]] < M[v]
    <3>1. StepEx(s, v) \in D /\ (StepEx(s, v).j = v.j + 1 \/ StepEx(s, v) = v)
      BY <1>4
    <3>2. v.j \in Int /\ n \in Int
      BY <1>1, <1>3
    <3> QED
      BY <3>1, <3>2
  <2> QED
    BY <2>2, <2>4, <2>5
<1>p. PICK f : EndsAs(n, D, G, w0, f)
  <2> HIDE DEF D, G, M, w0
  <2> QED
    BY <1>1, <1>2, <1>5, LoopRule
<1>6. /\ f \in [0..n -> D] /\ f[0] = w0 /\ \A d \in 1..n : f[d] = G[f[d - 1]]
      /\ f[n] \in D /\ G[f[n]] = f[n]
      /\ \A z : Follows(n, D, G, z) /\ z[0] = w0 => z[n] = f[n]
  BY <1>p DEF EndsAs
<1>7. g[n] = f[n]
  <2>1. f = [d \in 0..n |-> IF d = 0 THEN w0 ELSE StepEx(s, f[d - 1])]
    <3>1. \A d \in 1..n : d - 1 \in 0..n
      BY <1>1
    <3>2. \A d \in 1..n : f[d] = StepEx(s, f[d - 1])
      BY <1>6, <3>1
    <3> HIDE DEF D
    <3> QED
      BY <1>6, <3>2, <1>1
  <2>2. g = [d \in 0..n |-> IF d = 0 THEN w0 ELSE StepEx(s, g[d - 1])]
    BY <2>1, <1>0 DEF LoopEx
  <2>3. g[0] = w0 /\ \A d \in 1..n : g[d] = StepEx(s, g[d - 1])
    BY <2>2, <1>1
  <2>4. Follows(n, D, G, g)
    BY <2>3 DEF Follows
  <2> HIDE DEF D, G, g
  <2> QED
    BY <1>6, <2>3, <2>4
<1>8. PICK v : v = f[n]
  OBVIOUS
<1>9. v \in D /\ StepEx(s, v) = v
  BY <1>6, <1>8
<1>10. v.j = n
  <2>1. v.j \in 0..n
    BY <1>3, <1>9
  <2>2. ~ (v.j = v.j + 1)
    BY <2>1
  <2> HIDE DEF D
  <2> QED
    BY <2>1, <2>2, <1>1, <1>4, <1>9
<1>11. lengthOfLongestSubstringEx(s) = v.ans
  <2>1. lengthOfLongestSubstringEx(s) = g[Len(s)].ans
    BY DEF lengthOfLongestSubstringEx, While, StepEx, StartEx, LoopEx
  <2> HIDE DEF g
  <2> QED
    BY <2>1, <1>0, <1>7, <1>8
<1> HIDE DEF g, G, M, w0
<1> QED
  BY <1>0, <1>9, <1>10, <1>11 DEF StatesEx

-----------------------------------------------------------------------------
(* lengthOfLongestSubstring.                                               *)

\* The greatest element of a set of numbers, or -1.
LEMMA MaxOrNone ==
  ASSUME NEW n \in Nat, NEW S, S \subseteq 0..n
  PROVE  LET m == Max({-1} \cup S) IN IF S = {} THEN m = -1 ELSE m \in S /\ \A k \in S : k <= m
<1>1. PICK T, m : T = {-1} \cup S /\ m = Max(T)
  OBVIOUS
<1>2. \A k \in S : k \in Int /\ -1 < k
  OBVIOUS
<1>3. \E k \in T : \A j \in T : k >= j
  <2>1. CASE S = {}
    BY <2>1, <1>1
  <2>2. CASE S # {}
    <3>1. PICK k : k \in S /\ \A j \in S : j <= k
      BY <2>2, MaxIs
    <3>2. k \in T /\ \A j \in T : k >= j
      BY <3>1, <1>1, <1>2
    <3> QED
      BY <3>2
  <2> QED
    BY <2>1, <2>2
<1>4. m \in T /\ \A j \in T : m >= j
  BY <1>1, <1>3 DEF Max
<1>5. CASE S = {}
  BY <1>1, <1>4, <1>5
<1>6. CASE S # {}
  <2>1. PICK k : k \in S
    BY <1>6
  <2>2. m >= k /\ m # -1 /\ m \in S
    <3>1. m >= k
      BY <2>1, <1>1, <1>4
    <3>2. m # -1
      BY <3>1, <2>1, <1>2
    <3> QED
      BY <3>1, <3>2, <1>1, <1>4
  <2>3. \A j \in S : j <= m
    BY <2>2, <1>1, <1>2, <1>4
  <2> QED
    BY <2>2, <2>3, <1>1, <1>6
<1> QED
  BY <1>5, <1>6

\* One turn of the loop, all turns, and the states: re is the part up to i.
StepRe(s, w) ==
  IF w.i < Len(s)
  THEN LET x == At(s, w.i)
           index == Max({-1} \cup {k \in 0..Len(w.re) - 1 : At(w.re, k) = x})
       IN IF w.tmp # x /\ index = -1
          THEN [w EXCEPT !.i = w.i + 1, !.re = Append(w.re, x), !.tmpresult = w.tmpresult + 1]
          ELSE LET re == Append(SubSeq(w.re, index + 2, Len(w.re)), x)
               IN [i |-> w.i + 1, tmp |-> x, re |-> re, tmpresult |-> Len(re),
                   result |-> Max({w.result, w.tmpresult})]
  ELSE w
StartRe(s) == [i |-> 1, tmp |-> At(s, 0), re |-> <<At(s, 0)>>, tmpresult |-> 1, result |-> 1]
LoopRe(s) == CHOOSE f : f = [k \in 0..Len(s) |-> IF k = 0 THEN StartRe(s) ELSE StepRe(s, f[k - 1])]
MoreOf(x, y) == IF x >= y THEN x ELSE y
ReIs(s, m, re, tmp) ==
  /\ Len(re) \in 1..m /\ (\A k \in 1..Len(re) : re[k] = s[m - Len(re) + k])
  /\ (\E k \in 1..Len(re) : re[k] = tmp)
  /\ Distinct(s, m - Len(re), m) /\ \A l \in 0..m : Distinct(s, l, m) => m - Len(re) <= l
StatesRe(s) ==
  {w \in [i : 1..Len(s), tmp : Element, re : Seq(Element), tmpresult : 1..Len(s), result : 1..Len(s)] :
     /\ ReIs(s, w.i, w.re, w.tmp) /\ w.tmpresult = Len(w.re)
     /\ w.result <= w.i /\ MostDistinct(s, w.i, MoreOf(w.result, w.tmpresult))}

\* x is added to the part if it is not in it.
LEMMA ReAdds ==
  ASSUME NEW s \in Seq(Element), NEW m \in 1..Len(s) - 1, NEW re \in Seq(Element), NEW tmp,
         ReIs(s, m, re, tmp), \A k \in 1..Len(re) : re[k] # s[m + 1]
  PROVE  /\ Append(re, s[m + 1]) \in Seq(Element) /\ Len(Append(re, s[m + 1])) = Len(re) + 1
         /\ ReIs(s, m + 1, Append(re, s[m + 1]), tmp)
<1>0. PICK n, c, r, x : n = Len(s) /\ c = Len(re) /\ x = s[m + 1] /\ r = Append(re, x)
  OBVIOUS
<1>1. /\ n \in Nat /\ m \in Nat /\ m \in 1..n - 1 /\ c \in 1..m /\ c \in Nat /\ x \in Element
      /\ (\A k \in 1..c : re[k] = s[m - c + k]) /\ (\E k \in 1..c : re[k] = tmp)
      /\ Distinct(s, m - c, m) /\ \A l \in 0..m : Distinct(s, l, m) => m - c <= l
  <2>1. n \in Nat /\ m \in 1..n - 1
    BY <1>0, Numbers
  <2>2. m + 1 \in 1..n
    BY <2>1
  <2> QED
    BY <2>1, <2>2, <1>0, Numbers DEF ReIs
<1>2. r \in Seq(Element) /\ Len(r) = c + 1 /\ r[c + 1] = x /\ \A k \in 1..c : r[k] = re[k]
  BY <1>0, <1>1
<1>3. PICK h : h = m - c
  OBVIOUS
<1>4. h \in 0..m /\ (m + 1) - (c + 1) = h /\ h \in Int
  BY <1>1, <1>3
<1>5. ASSUME NEW k \in h + 1..m PROVE s[k] # s[m + 1]
  <2>1. PICK e : e = k - h
    OBVIOUS
  <2>2. e \in 1..c /\ h + e = k
    BY <2>1, <1>1, <1>3, <1>4
  <2>3. re[e] = s[h + e]
    BY <2>2, <1>1, <1>3
  <2> QED
    BY <2>2, <2>3, <1>0
<1>6. Distinct(s, h, m + 1) /\ \A l \in 0..m + 1 : Distinct(s, l, m + 1) => h <= l
  <2>1. PICK p : p = 0
    OBVIOUS
  <2>2. p \in 0..m /\ h = (IF p >= h THEN p ELSE h) /\ ~ (p > 0)
    BY <2>1, <1>1, <1>4
  <2> QED
    BY <2>2, <1>1, <1>3, <1>4, <1>5, NextDistinct
<1>7. ASSUME NEW k \in 1..c + 1 PROVE r[k] = s[h + k]
  <2>1. CASE k = c + 1
    <3>1. h + k = m + 1
      BY <2>1, <1>1, <1>3
    <3> QED
      BY <3>1, <2>1, <1>0, <1>2
  <2>2. CASE k # c + 1
    <3>1. k \in 1..c
      BY <2>2, <1>1
    <3> QED
      BY <3>1, <1>1, <1>2, <1>3
  <2> QED
    BY <2>1, <2>2
<1>8. c + 1 \in 1..m + 1 /\ \E k \in 1..c + 1 : r[k] = tmp
  <2>1. 1..c \subseteq 1..c + 1
    BY <1>1
  <2> QED
    BY <2>1, <1>1, <1>2
<1> QED
  BY <1>0, <1>2, <1>4, <1>6, <1>7, <1>8 DEF ReIs

\* If it is, at place d, the part behind that place is kept.
LEMMA ReDrops ==
  ASSUME NEW s \in Seq(Element), NEW m \in 1..Len(s) - 1, NEW re \in Seq(Element), NEW tmp,
         ReIs(s, m, re, tmp), NEW d \in 1..Len(re), re[d] = s[m + 1]
  PROVE  LET r == Append(SubSeq(re, d + 1, Len(re)), s[m + 1])
         IN r \in Seq(Element) /\ Len(r) = Len(re) - d + 1 /\ ReIs(s, m + 1, r, s[m + 1])
<1>0. PICK n, c, q, r, x : /\ n = Len(s) /\ c = Len(re) /\ x = s[m + 1]
                           /\ q = SubSeq(re, d + 1, c) /\ r = Append(q, x)
  OBVIOUS
<1>1. /\ n \in Nat /\ m \in Nat /\ m \in 1..n - 1 /\ c \in 1..m /\ c \in Nat /\ x \in Element
      /\ d \in 1..c /\ d \in Nat
      /\ (\A k \in 1..c : re[k] = s[m - c + k])
      /\ Distinct(s, m - c, m) /\ \A l \in 0..m : Distinct(s, l, m) => m - c <= l
  <2>1. n \in Nat /\ m \in 1..n - 1 /\ d \in 1..c
    BY <1>0, Numbers
  <2>2. m + 1 \in 1..n
    BY <2>1
  <2> QED
    BY <2>1, <2>2, <1>0, Numbers DEF ReIs
<1>2. q \in Seq(Element) /\ Len(q) = c - d /\ \A k \in 1..c - d : q[k] = re[d + k]
  <2>1. d \in 0..c /\ c \in d..c
    BY <1>1
  <2> QED
    BY <2>1, <1>0, PartIs
<1>3. PICK b0 : b0 = c - d
  OBVIOUS
<1>4. r \in Seq(Element) /\ Len(r) = b0 + 1 /\ r[b0 + 1] = x /\ \A k \in 1..b0 : r[k] = re[d + k]
  <2>1. b0 \in Nat
    BY <1>1, <1>3
  <2> QED
    BY <2>1, <1>0, <1>1, <1>2, <1>3, SMTT(30)
<1>5. PICK i, h : i = m - c /\ h = m - b0
  OBVIOUS
<1>6. i \in 0..m /\ h \in 0..m /\ h = i + d /\ h >= i /\ (m + 1) - (b0 + 1) = h /\ b0 + 1 \in 1..m + 1 /\ b0 \in Int
  <2>1. m \in Int /\ c \in Int /\ d \in Int /\ 1 <= d /\ d <= c /\ c <= m
    BY <1>1
  <2>2. h = i + d /\ (m + 1) - (b0 + 1) = h /\ 0 <= i /\ i <= h /\ h <= m
    BY <2>1, <1>3, <1>5
  <2>3. b0 \in Int /\ 0 <= b0 /\ b0 <= m /\ i \in Int /\ h \in Int
    BY <2>1, <1>3, <1>5
  <2> QED
    BY <2>1, <2>2, <2>3
<1>7. ASSUME NEW k \in h + 1..m PROVE s[k] # s[m + 1]
  <2>1. s[h] = s[m + 1]
    BY <1>0, <1>1, <1>5, <1>6
  <2>2. k \in i + 1..m /\ h \in i + 1..m /\ k # h
    BY <1>1, <1>6
  <2> QED
    BY <2>1, <2>2, <1>1, <1>5 DEF Distinct
<1>8. Distinct(s, h, m + 1) /\ \A l \in 0..m + 1 : Distinct(s, l, m + 1) => h <= l
  <2>1. s[h] = s[m + 1]
    BY <1>0, <1>1, <1>5, <1>6
  <2>2. h = (IF h >= i THEN h ELSE i)
    BY <1>6
  <2> QED
    BY <2>1, <2>2, <1>1, <1>5, <1>6, <1>7, NextDistinct
<1>9. ASSUME NEW k \in 1..b0 + 1 PROVE r[k] = s[h + k]
  <2>1. CASE k = b0 + 1
    <3>1. h + k = m + 1
      BY <2>1, <1>1, <1>5, <1>6
    <3> QED
      BY <3>1, <2>1, <1>0, <1>4
  <2>2. CASE k # b0 + 1
    <3>1. k \in 1..b0 /\ d + k \in 1..c /\ m - c + (d + k) = h + k
      BY <2>2, <1>1, <1>3, <1>5, <1>6
    <3> QED
      BY <3>1, <1>1, <1>4
  <2> QED
    BY <2>1, <2>2
<1>10. b0 + 1 \in 1..b0 + 1
  BY <1>6
<1>11. ReIs(s, m + 1, r, x)
  BY <1>4, <1>6, <1>8, <1>9, <1>10 DEF ReIs
<1> QED
  BY <1>0, <1>3, <1>4, <1>11

\* A turn keeps to the states and goes on.
LEMMA TurnRe ==
  ASSUME NEW s \in Seq(Element), NEW w \in StatesRe(s)
  PROVE  /\ StepRe(s, w) \in StatesRe(s)
         /\ IF w.i < Len(s) THEN StepRe(s, w).i = w.i + 1 ELSE StepRe(s, w) = w
<1>0. PICK n, m, re, tmp, c, e, u : /\ n = Len(s) /\ m = w.i /\ re = w.re /\ tmp = w.tmp
                                    /\ c = w.tmpresult /\ e = w.result /\ u = StepRe(s, w)
  OBVIOUS
<1>1. /\ n \in Nat /\ m \in 1..n /\ tmp \in Element /\ re \in Seq(Element) /\ c \in 1..n /\ e \in 1..n
      /\ w = [i |-> m, tmp |-> tmp, re |-> re, tmpresult |-> c, result |-> e]
      /\ ReIs(s, m, re, tmp) /\ c = Len(re) /\ c <= m /\ e <= m /\ MostDistinct(s, m, MoreOf(e, c))
  <2>1. /\ n \in Nat /\ m \in 1..n /\ tmp \in Element /\ re \in Seq(Element) /\ c \in 1..n /\ e \in 1..n
        /\ ReIs(s, m, re, tmp) /\ c = Len(re) /\ e <= m /\ MostDistinct(s, m, MoreOf(e, c))
        /\ w = [i |-> m, tmp |-> tmp, re |-> re, tmpresult |-> c, result |-> e]
    BY <1>0, Numbers DEF StatesRe
  <2> QED
    BY <2>1 DEF ReIs
<1>2. CASE m < n
  <2>1. PICK x, S, index : /\ x = At(s, m) /\ S = {k \in 0..c - 1 : At(re, k) = x}
                           /\ index = Max({-1} \cup S)
    OBVIOUS
  <2>2. x = s[m + 1] /\ x \in Element /\ m \in 1..n - 1 /\ m + 1 \in 1..n /\ m \in Nat
    <3>1. m \in 1..n - 1 /\ m + 1 \in 1..n /\ m \in Nat
      BY <1>1, <1>2
    <3>2. x = s[m + 1]
      BY <2>1 DEF At
    <3> QED
      BY <3>1, <3>2, <1>0, Numbers
  <2>3. IF S = {} THEN index = -1 ELSE index \in S /\ \A k \in S : k <= index
    <3>1. c - 1 \in Nat /\ S \subseteq 0..c - 1
      BY <2>1, <1>1
    <3> QED
      BY <3>1, <2>1, MaxOrNone
  <2>4. \A k \in 1..c : re[k] = x => k - 1 \in S
    <3>1. \A k \in 1..c : k - 1 \in 0..c - 1 /\ k - 1 + 1 = k
      BY <1>1
    <3> QED
      BY <3>1, <2>1 DEF At
  <2>5. PICK L : L = MoreOf(e, c)
    OBVIOUS
  <2>6. L \in 1..m /\ c <= L /\ e <= L
    BY <2>5, <1>1 DEF MoreOf
  <2>7. CASE tmp # x /\ index = -1
    <3>1. u = [i |-> m + 1, tmp |-> tmp, re |-> Append(re, x), tmpresult |-> c + 1, result |-> e]
      BY <2>1, <2>7, <1>0, <1>1, <1>2 DEF StepRe
    <3>2. PICK r : r = Append(re, x)
      OBVIOUS
    <3>3. \A k \in 1..Len(re) : re[k] # s[m + 1]
      <4>1. S = {}
        <5>1. \A k \in S : k # -1
          BY <2>1
        <5> QED
          BY <5>1, <2>3, <2>7
      <4> QED
        BY <4>1, <2>2, <2>4, <1>1
    <3>4. r \in Seq(Element) /\ Len(r) = c + 1 /\ ReIs(s, m + 1, r, tmp)
      BY <3>2, <3>3, <2>2, <1>0, <1>1, ReAdds, ZenonT(60)
    <3>h. PICK h : h = (m + 1) - Len(r)
      OBVIOUS
    <3>5. h = (m + 1) - (c + 1)
      <4>1. Len(r) = c + 1
        BY <3>4
      <4> QED
        BY <4>1, <3>h
    <3>6. h \in 0..m + 1 /\ m + 1 - h = c + 1 /\ c + 1 \in 1..n /\ e <= m + 1
      BY <3>5, <2>2, <1>1
    <3>7. Distinct(s, h, m + 1) /\ \A l \in 0..m + 1 : Distinct(s, l, m + 1) => h <= l
      BY <3>4, <3>h DEF ReIs
    <3>8. MostDistinct(s, m + 1, IF m + 1 - h > L THEN m + 1 - h ELSE L)
      <4>1. L \in 0..m
        BY <2>6
      <4> QED
        BY <4>1, <3>6, <3>7, <2>2, <2>5, <1>1, MoreDistinct
    <3>9. MoreOf(e, c + 1) = IF m + 1 - h > L THEN m + 1 - h ELSE L
      BY <3>6, <2>5, <2>6, <1>1 DEF MoreOf
    <3>10. u \in [i : 1..n, tmp : Element, re : Seq(Element), tmpresult : 1..n, result : 1..n]
      BY <3>1, <3>2, <3>4, <3>6, <2>2, <1>1
    <3>11. u.i = m + 1 /\ u.tmp = tmp /\ u.re = r /\ u.tmpresult = c + 1 /\ u.result = e
      BY <3>1, <3>2
    <3>12. u \in StatesRe(s)
      BY <3>4, <3>6, <3>8, <3>9, <3>10, <3>11, <1>0 DEF StatesRe
    <3> QED
      BY <3>11, <3>12, <1>0, <1>2
  <2>8. CASE ~ (tmp # x /\ index = -1)
    <3>1. PICK r : r = Append(SubSeq(re, index + 2, c), x)
      OBVIOUS
    <3>2. u = [i |-> m + 1, tmp |-> x, re |-> r, tmpresult |-> Len(r), result |-> Max({e, c})]
      BY <3>1, <2>1, <2>8, <1>0, <1>1, <1>2 DEF StepRe
    <3>3. index \in S
      <4>1. S # {}
        <5>1. CASE tmp = x
          <6>1. PICK k \in 1..c : re[k] = tmp
            BY <1>1 DEF ReIs
          <6> QED
            BY <6>1, <5>1, <2>4
        <5>2. CASE index # -1
          BY <5>2, <2>3
        <5> QED
          BY <5>1, <5>2, <2>8
      <4> QED
        BY <4>1, <2>3
    <3>4. PICK d : d = index + 1
      OBVIOUS
    <3>5. d \in 1..c /\ re[d] = s[m + 1] /\ d + 1 = index + 2
      <4>1. index \in 0..c - 1 /\ At(re, index) = x
        BY <3>3, <2>1
      <4>2. d \in 1..c /\ d + 1 = index + 2
        BY <4>1, <3>4, <1>1
      <4> QED
        BY <4>1, <4>2, <3>4, <2>2 DEF At
    <3>6. r \in Seq(Element) /\ Len(r) = c - d + 1 /\ ReIs(s, m + 1, r, x)
      <4>1. r = Append(SubSeq(re, d + 1, Len(re)), s[m + 1])
        BY <3>1, <3>5, <2>2, <1>1
      <4>2. /\ m \in 1..Len(s) - 1 /\ d \in 1..Len(re) /\ re[d] = s[m + 1]
            /\ re \in Seq(Element) /\ ReIs(s, m, re, tmp)
        BY <3>5, <2>2, <1>0, <1>1
      <4>3. r \in Seq(Element) /\ Len(r) = Len(re) - d + 1 /\ ReIs(s, m + 1, r, s[m + 1])
        BY <4>1, <4>2, ReDrops
      <4> QED
        BY <4>3, <2>2, <1>1
    <3>h. PICK h : h = (m + 1) - Len(r)
      OBVIOUS
    <3>7. PICK b0 : b0 = c - d + 1 /\ b0 = Len(r) /\ h = (m + 1) - b0
      BY <3>h, <3>6
    <3>8. h \in 0..m + 1 /\ m + 1 - h = b0 /\ b0 \in 1..n /\ L <= m + 1 /\ L \in 1..n /\ b0 <= c
      <4>1. /\ m \in Int /\ c \in Int /\ d \in Int /\ n \in Int /\ L \in Int /\ 1 <= d /\ d <= c
            /\ c <= m /\ m + 1 <= n /\ 1 <= L /\ L <= m
        BY <3>5, <2>2, <2>6, <1>1
      <4> QED
        BY <4>1, <3>7
    <3>9. Distinct(s, h, m + 1) /\ \A l \in 0..m + 1 : Distinct(s, l, m + 1) => h <= l
      BY <3>6, <3>h DEF ReIs
    <3>10. MostDistinct(s, m + 1, IF m + 1 - h > L THEN m + 1 - h ELSE L)
      <4>1. L \in 0..m
        BY <2>6
      <4> QED
        BY <4>1, <3>8, <3>9, <2>2, <2>5, <1>1, MoreDistinct
    <3>11. Max({e, c}) = L
      <4>1. e \in Int /\ c \in Int
        BY <1>1
      <4> QED
        BY <4>1, <2>5, MaxOfTwo DEF MoreOf
    <3>12. MoreOf(L, b0) = IF m + 1 - h > L THEN m + 1 - h ELSE L
      BY <3>8, <2>6 DEF MoreOf
    <3>13. u \in [i : 1..n, tmp : Element, re : Seq(Element), tmpresult : 1..n, result : 1..n]
      BY <3>2, <3>6, <3>7, <3>8, <3>11, <2>2, <1>1
    <3>14. u.i = m + 1 /\ u.tmp = x /\ u.re = r /\ u.tmpresult = b0 /\ u.result = L /\ b0 = Len(r)
      BY <3>2, <3>6, <3>7, <3>11
    <3>15. u \in StatesRe(s)
      BY <3>6, <3>8, <3>10, <3>12, <3>13, <3>14, <1>0, SMTT(30) DEF StatesRe
    <3> QED
      BY <3>14, <3>15, <1>0, <1>2
  <2> QED
    BY <2>7, <2>8
<1>3. CASE ~ (m < n)
  <2>1. u = w
    BY <1>0, <1>3 DEF StepRe
  <2> QED
    BY <2>1, <1>0, <1>3
<1> QED
  BY <1>2, <1>3

\* It finds the same length.
LEMMA LongestReIs ==
  ASSUME NEW s \in Seq(Element)
  PROVE  MostDistinct(s, Len(s), lengthOfLongestSubstring(s))
<1>0. PICK n : n = Len(s)
  OBVIOUS
<1> DEFINE w0 == StartRe(s)  g == LoopRe(s)  D == StatesRe(s)
           G == [w \in D |-> StepRe(s, w)]  M == [w \in D |-> n - w.i]
<1>1. n \in Nat
  BY <1>0, Numbers
<1>c. CASE n = 0
  <2>1. s = <<>>
    BY <1>c, <1>0
  <2>2. lengthOfLongestSubstring(s) = 0
    BY <2>1 DEF lengthOfLongestSubstring
  <2>3. MostDistinct(s, 0, 0)
    <3>1. 0 \in 0..0 /\ 0 - 0 = 0 /\ \A r \in 0..0 : \A l \in 0..r : r - l <= 0
      OBVIOUS
    <3>2. Distinct(s, 0, 0)
      BY DEF Distinct
    <3> QED
      BY <3>1, <3>2 DEF MostDistinct
  <2> QED
    BY <2>2, <2>3, <1>c, <1>0
<1>d. SUFFICES ASSUME n # 0 PROVE MostDistinct(s, n, lengthOfLongestSubstring(s))
  BY <1>c, <1>0
<1>2. w0 \in D
  <2>1. PICK x, r : x = s[1] /\ r = <<x>>
    OBVIOUS
  <2>2. x \in Element /\ 1 \in 1..n
    <3>1. 1 \in 1..n
      BY <1>1, <1>d
    <3> QED
      BY <3>1, <2>1, <1>0, Numbers
  <2>3. r \in Seq(Element) /\ Len(r) = 1 /\ r[1] = x
    BY <2>1, <2>2
  <2>4. 1 \in 1..1 /\ 1 - 1 = 0 /\ 1 <= 1 /\ (\A k \in 1..1 : k = 1) /\ 0 \in 0..1 /\ 1 - 1 + 1 = 1
    OBVIOUS
  <2>5. Distinct(s, 0, 1)
    <3>1. \A i, j \in 0 + 1..1 : i = j
      OBVIOUS
    <3> QED
      BY <3>1 DEF Distinct
  <2>6. ReIs(s, 1, r, x)
    <3>1. \A l \in 0..1 : 0 <= l
      OBVIOUS
    <3>2. \A k \in 1..1 : r[k] = s[1 - 1 + k]
      BY <2>1, <2>3, <2>4
    <3> QED
      BY <3>1, <3>2, <2>3, <2>4, <2>5 DEF ReIs
  <2>7. MostDistinct(s, 1, 1)
    <3>1. 1 \in 0..1 /\ 0 \in 0..1 /\ 1 - 0 = 1 /\ \A i \in 0..1 : \A l \in 0..i : i - l <= 1
      OBVIOUS
    <3> QED
      BY <3>1, <2>5 DEF MostDistinct
  <2>8. w0 = [i |-> 1, tmp |-> x, re |-> r, tmpresult |-> 1, result |-> 1]
    <3>1. At(s, 0) = x
      BY <2>1 DEF At
    <3> QED
      BY <3>1, <2>1 DEF StartRe
  <2>9. w0.i = 1 /\ w0.tmp = x /\ w0.re = r /\ w0.tmpresult = 1 /\ w0.result = 1
    BY <2>8
  <2>10. w0 \in [i : 1..n, tmp : Element, re : Seq(Element), tmpresult : 1..n, result : 1..n]
    BY <2>2, <2>3, <2>8
  <2>11. MoreOf(1, 1) = 1
    BY DEF MoreOf
  <2> HIDE DEF w0
  <2> QED
    BY <2>3, <2>4, <2>6, <2>7, <2>9, <2>10, <2>11, <1>0 DEF StatesRe
<1>3. \A v \in D : v.i \in 1..n
  BY <1>0 DEF StatesRe
<1>4. \A v \in D : /\ StepRe(s, v) \in D
                   /\ IF v.i < n THEN StepRe(s, v).i = v.i + 1 ELSE StepRe(s, v) = v
  BY <1>0, TurnRe
<1>5. G \in [D -> D] /\ M \in [D -> Nat] /\ M[w0] <= n /\ \A v \in D : G[v] = v \/ M[G[v]] < M[v]
  <2> HIDE DEF D
  <2>1. w0.i = 1
    BY DEF StartRe
  <2>2. M[w0] <= n
    <3> HIDE DEF w0
    <3> QED
      BY <1>1, <1>2, <2>1
  <2>3. \A v \in D : n - v.i \in Nat
    BY <1>1, <1>3
  <2>4. G \in [D -> D] /\ M \in [D -> Nat]
    BY <1>4, <2>3
  <2>5. ASSUME NEW v \in D PROVE G[v] = v \/ M[G[v]] < M[v]
    <3>1. StepRe(s, v) \in D /\ (StepRe(s, v).i = v.i + 1 \/ StepRe(s, v) = v)
      BY <1>4
    <3>2. v.i \in Int /\ n \in Int
      BY <1>1, <1>3
    <3> QED
      BY <3>1, <3>2
  <2> QED
    BY <2>2, <2>4, <2>5
<1>p. PICK f : EndsAs(n, D, G, w0, f)
  <2> HIDE DEF D, G, M, w0
  <2> QED
    BY <1>1, <1>2, <1>5, LoopRule
<1>6. /\ f \in [0..n -> D] /\ f[0] = w0 /\ \A d \in 1..n : f[d] = G[f[d - 1]]
      /\ f[n] \in D /\ G[f[n]] = f[n]
      /\ \A z : Follows(n, D, G, z) /\ z[0] = w0 => z[n] = f[n]
  BY <1>p DEF EndsAs
<1>7. g[n] = f[n]
  <2>1. f = [d \in 0..n |-> IF d = 0 THEN w0 ELSE StepRe(s, f[d - 1])]
    <3>1. \A d \in 1..n : d - 1 \in 0..n
      BY <1>1
    <3>2. \A d \in 1..n : f[d] = StepRe(s, f[d - 1])
      BY <1>6, <3>1
    <3> HIDE DEF D
    <3> QED
      BY <1>6, <3>2, <1>1
  <2>2. g = [d \in 0..n |-> IF d = 0 THEN w0 ELSE StepRe(s, g[d - 1])]
    BY <2>1, <1>0 DEF LoopRe
  <2>3. g[0] = w0 /\ \A d \in 1..n : g[d] = StepRe(s, g[d - 1])
    BY <2>2, <1>1
  <2>4. Follows(n, D, G, g)
    BY <2>3 DEF Follows
  <2> HIDE DEF D, G, g
  <2> QED
    BY <1>6, <2>3, <2>4
<1>8. PICK v : v = f[n]
  OBVIOUS
<1>9. v \in D /\ StepRe(s, v) = v
  BY <1>6, <1>8
<1>10. v.i = n
  <2>1. v.i \in 1..n
    BY <1>3, <1>9
  <2>2. ~ (v.i = v.i + 1)
    BY <2>1
  <2> HIDE DEF D
  <2> QED
    BY <2>1, <2>2, <1>1, <1>4, <1>9
<1>11. lengthOfLongestSubstring(s) = Max({v.result, v.tmpresult})
  <2>1. s # <<>>
    BY <1>0, <1>d, SMTT(30)
  <2>2. lengthOfLongestSubstring(s) = Max({g[Len(s)].result, g[Len(s)].tmpresult})
    BY <2>1, Zenon DEF lengthOfLongestSubstring, While, StepRe, StartRe, LoopRe
  <2> HIDE DEF g
  <2> QED
    BY <2>2, <1>0, <1>7, <1>8
<1> HIDE DEF g, G, M, w0
<1>12. v.result \in Int /\ v.tmpresult \in Int /\ MostDistinct(s, n, MoreOf(v.result, v.tmpresult))
  BY <1>0, <1>9, <1>10 DEF StatesRe
<1>13. Max({v.result, v.tmpresult}) = MoreOf(v.result, v.tmpresult)
  BY <1>12, MaxOfTwo DEF MoreOf
<1> QED
  BY <1>11, <1>12, <1>13

-----------------------------------------------------------------------------
(* longestPalindromeEx.                                                    *)

\* The part of s between places l and r is a palindrome.
Pal(s, l, r) == \A k \in l + 1..r : s[k] = s[l + 1 + r - k]

\* L is the length of a longest one.
MostPal(s, L) ==
  /\ \E l \in 0..Len(s) - L : Pal(s, l, l + L)
  /\ \A r \in 0..Len(s) : \A l \in 0..r : Pal(s, l, r) => r - l <= L

\* What isPalindrome says of a part.
LEMMA PalPart ==
  ASSUME NEW s \in Seq(Element), NEW l \in 0..Len(s), NEW r \in l..Len(s)
  PROVE  isPalindrome(SubSeq(s, l + 1, r)) <=> Pal(s, l, r)
<1>0. PICK n, x, m : n = Len(s) /\ x = SubSeq(s, l + 1, r) /\ m = r - l
  OBVIOUS
<1>1. n \in Nat /\ l \in Nat /\ r \in Nat /\ m \in Nat /\ l <= r /\ r <= n
  BY <1>0, Numbers
<1>2. Len(x) = m /\ \A k \in 1..m : x[k] = s[l + k]
  BY <1>0, PartIs
<1>3. isPalindrome(x) <=> \A k \in 0..m - 1 : At(x, k) = At(x, m - 1 - k)
  BY <1>1, <1>2, PalindromeIs
<1>4. ASSUME NEW k \in 0..m - 1
      PROVE  At(x, k) = s[l + 1 + k] /\ At(x, m - 1 - k) = s[l + 1 + r - (l + 1 + k)]
  <2>1. /\ k + 1 \in 1..m /\ m - 1 - k + 1 \in 1..m /\ l + (k + 1) = l + 1 + k
        /\ l + (m - 1 - k + 1) = l + 1 + r - (l + 1 + k)
    BY <1>0, <1>1
  <2>2. x[k + 1] = s[l + (k + 1)] /\ x[m - 1 - k + 1] = s[l + (m - 1 - k + 1)]
    BY <2>1, <1>2
  <2> QED
    BY <2>1, <2>2 DEF At
<1>5. ASSUME Pal(s, l, r), NEW k \in 0..m - 1 PROVE At(x, k) = At(x, m - 1 - k)
  <2>1. l + 1 + k \in l + 1..r
    BY <1>0, <1>1
  <2> QED
    BY <2>1, <1>4, <1>5 DEF Pal
<1>6. ASSUME \A k \in 0..m - 1 : At(x, k) = At(x, m - 1 - k), NEW e \in l + 1..r
      PROVE  s[e] = s[l + 1 + r - e]
  <2>1. PICK k : k = e - l - 1
    OBVIOUS
  <2>2. k \in 0..m - 1 /\ l + 1 + k = e
    BY <2>1, <1>0, <1>1
  <2>3. At(x, k) = s[e] /\ At(x, m - 1 - k) = s[l + 1 + r - e]
    BY <2>2, <1>4
  <2> QED
    BY <2>2, <2>3, <1>6
<1> QED
  BY <1>0, <1>3, <1>5, <1>6 DEF Pal

\* A longest one is what ScansAgree asks for.
LEMMA LongestPal ==
  ASSUME NEW s \in Seq(Element), NEW L \in 0..Len(s), MostPal(s, L),
         NEW l \in 0..Len(s) - L, Pal(s, l, l + L)
  PROVE  LET x == SubSeq(s, l + 1, l + L)
             palindromes == {y \in Parts(s) : isPalindrome(y)}
         IN s # <<>> => x \in palindromes /\ Len(x) = Longest(palindromes)
<1>0. PICK n, x, P, r : n = Len(s) /\ r = l + L /\ x = SubSeq(s, l + 1, r) /\ P = {y \in Parts(s) : isPalindrome(y)}
  OBVIOUS
<1>1. n \in Nat /\ L \in 0..n /\ l \in 0..n /\ r \in l..n /\ r - l = L
  BY <1>0, Numbers
<1>2. SUFFICES ASSUME s # <<>> PROVE x \in P /\ Len(x) = Longest(P)
  BY <1>0
<1>3. n > 0
  BY <1>0, <1>1, <1>2
<1>4. L > 0
  <2>1. Pal(s, 0, 1)
    <3>1. \A k \in 0 + 1..1 : 0 + 1 + 1 - k = k
      OBVIOUS
    <3> QED
      BY <3>1 DEF Pal
  <2>2. 1 \in 0..n /\ 0 \in 0..1
    BY <1>1, <1>3
  <2>3. 1 - 0 <= L
    BY <2>1, <2>2, <1>0 DEF MostPal
  <2> QED
    BY <2>3, <1>1
<1>5. x \in Parts(s) /\ Len(x) = L
  <2>1. l < r
    BY <1>1, <1>4
  <2> QED
    BY <2>1, <1>0, <1>1, PartIs
<1>6. x \in P
  <2>1. isPalindrome(x)
    BY <1>0, <1>1, PalPart
  <2> QED
    BY <2>1, <1>0, <1>5
<1>7. ASSUME NEW y \in P PROVE Len(y) <= L
  <2>1. y \in Parts(s) /\ isPalindrome(y)
    BY <1>0, <1>7
  <2>2. \E i \in 0..n : \E j \in i..n : y = SubSeq(s, i + 1, j)
    BY <2>1, <1>0, PartsAre
  <2>3. PICK i, j : i \in 0..n /\ j \in i..n /\ y = SubSeq(s, i + 1, j)
    BY <2>2
  <2>4. Pal(s, i, j) /\ Len(y) = j - i
    BY <2>1, <2>3, <1>0, PalPart, PartIs
  <2>5. j \in 0..n /\ i \in 0..j
    BY <2>3, <1>1
  <2> QED
    BY <2>4, <2>5, <1>0 DEF MostPal
<1>8. Longest(P) = L
  <2>1. P \subseteq Parts(s)
    BY <1>0
  <2> QED
    BY <2>1, <1>0, <1>1, <1>5, <1>6, <1>7, LongestIs
<1> QED
  BY <1>5, <1>6, <1>8

\* There is a longest one.
LEMMA SomePal ==
  ASSUME NEW s \in Seq(Element)
  PROVE  \E L \in 0..Len(s) : MostPal(s, L)
<1>0. PICK n, S : n = Len(s) /\ S = {L \in 0..n : \E l \in 0..n - L : Pal(s, l, l + L)}
  OBVIOUS
<1>1. n \in Nat
  BY <1>0, Numbers
<1>2. 0 \in S
  <2>1. Pal(s, 0, 0 + 0)
    <3>1. \A k \in 0 + 1..0 + 0 : FALSE
      OBVIOUS
    <3> QED
      BY <3>1 DEF Pal
  <2>2. 0 \in 0..n /\ 0 \in 0..n - 0
    BY <1>1
  <2> QED
    BY <2>1, <2>2, <1>0
<1>3. PICK L : L \in S /\ \A k \in S : k <= L
  <2>1. S \subseteq 0..n /\ S # {}
    BY <1>0, <1>2
  <2> QED
    BY <2>1, <1>1, MaxIs
<1>4. ASSUME NEW r \in 0..n, NEW l \in 0..r, Pal(s, l, r) PROVE r - l <= L
  <2>1. PICK k : k = r - l
    OBVIOUS
  <2>2. k \in 0..n /\ l \in 0..n - k /\ l + k = r
    BY <2>1, <1>1
  <2>3. k \in S
    BY <2>2, <1>0, <1>4
  <2> QED
    BY <2>1, <2>3, <1>3
<1> QED
  BY <1>0, <1>3, <1>4 DEF MostPal

\* The common part of s up to i and s reversed up to j.
Common(s) ==
  CHOOSE c : c = [i \in 0..Len(s) - 1 |-> [j \in 0..Len(s) - 1 |->
    IF At(s, Len(s) - 1 - j) # At(s, i) THEN 0 ELSE IF i = 0 \/ j = 0 THEN 1 ELSE c[i - 1][j - 1] + 1]]
Run(s, i, j, len) ==
  /\ len \in 0..i + 1 /\ len <= j + 1
  /\ \A k \in 0..len - 1 : At(s, i - k) = At(s, Len(s) - 1 - (j - k))
  /\ len = i + 1 \/ len = j + 1 \/ At(s, i - len) # At(s, Len(s) - 1 - (j - len))

\* It has one length.
LEMMA RunOnce ==
  ASSUME NEW s, NEW i \in Nat, NEW j \in Nat, NEW x, NEW y, Run(s, i, j, x), Run(s, i, j, y)
  PROVE  x = y
<1>1. x \in 0..i + 1 /\ y \in 0..i + 1 /\ x <= j + 1 /\ y <= j + 1
  BY DEF Run
<1>2. ~ (x < y)
  <2> SUFFICES ASSUME x < y PROVE FALSE
    OBVIOUS
  <2>1. x # i + 1 /\ x # j + 1 /\ x \in 0..y - 1
    BY <1>1
  <2> QED
    BY <2>1 DEF Run
<1>3. ~ (y < x)
  <2> SUFFICES ASSUME y < x PROVE FALSE
    OBVIOUS
  <2>1. y # i + 1 /\ y # j + 1 /\ y \in 0..x - 1
    BY <1>1
  <2> QED
    BY <2>1 DEF Run
<1> QED
  BY <1>1, <1>2, <1>3

\* It is there.
LEMMA RunThere ==
  ASSUME NEW s, NEW i \in Nat, NEW j \in Nat
  PROVE  \E len : Run(s, i, j, len)
<1>1. PICK m : m = IF i <= j THEN i + 1 ELSE j + 1
  OBVIOUS
<1>2. m \in Nat /\ m <= i + 1 /\ m <= j + 1 /\ (m = i + 1 \/ m = j + 1)
  BY <1>1
<1>3. PICK W : W = {k \in 0..m : k = m \/ At(s, i - k) # At(s, Len(s) - 1 - (j - k))}
  OBVIOUS
<1>4. PICK len \in W : \A k \in W : len <= k
  <2>1. W \subseteq 0..m /\ W # {}
    <3>1. m \in 0..m
      BY <1>2
    <3> QED
      BY <3>1, <1>3
  <2> QED
    BY <2>1, <1>2, LeastNumber
<1>5. len \in 0..m
  BY <1>3
<1>6. ASSUME NEW k \in 0..len - 1 PROVE At(s, i - k) = At(s, Len(s) - 1 - (j - k))
  <2>1. k \in 0..m /\ ~ (len <= k)
    BY <1>2, <1>5
  <2> QED
    BY <2>1, <1>3, <1>4
<1>7. len = i + 1 \/ len = j + 1 \/ At(s, i - len) # At(s, Len(s) - 1 - (j - len))
  BY <1>2, <1>3
<1>8. len \in 0..i + 1 /\ len <= j + 1
  BY <1>2, <1>5
<1> QED
  BY <1>6, <1>7, <1>8 DEF Run

\* It is one longer than the one up to the elements before.
LEMMA RunMore ==
  ASSUME NEW s, NEW i \in Nat, NEW j \in Nat, NEW c
  PROVE  /\ At(s, Len(s) - 1 - j) # At(s, i) => Run(s, i, j, 0)
         /\ At(s, Len(s) - 1 - j) = At(s, i) /\ (i = 0 \/ j = 0) => Run(s, i, j, 1)
         /\ At(s, Len(s) - 1 - j) = At(s, i) /\ i # 0 /\ j # 0 /\ Run(s, i - 1, j - 1, c) => Run(s, i, j, c + 1)
<1>0. PICK N : N = Len(s) - 1
  OBVIOUS
<1>1. /\ 0 \in 0..i + 1 /\ 0 <= j + 1 /\ i - 0 = i /\ j - 0 = j /\ 1 \in 0..i + 1 /\ 1 <= j + 1
      /\ (\A k \in 0..0 - 1 : FALSE) /\ \A k \in 0..1 - 1 : k = 0
  OBVIOUS
<1>2. ASSUME At(s, N - j) # At(s, i) PROVE Run(s, i, j, 0)
  BY <1>0, <1>1, <1>2 DEF Run
<1>3. ASSUME At(s, N - j) = At(s, i), i = 0 \/ j = 0 PROVE Run(s, i, j, 1)
  <2>1. 1 = i + 1 \/ 1 = j + 1
    BY <1>3
  <2>2. \A k \in 0..1 - 1 : At(s, i - k) = At(s, N - (j - k))
    BY <1>1, <1>3
  <2> QED
    BY <2>1, <2>2, <1>0, <1>1 DEF Run
<1>4. ASSUME At(s, N - j) = At(s, i), i # 0, j # 0, Run(s, i - 1, j - 1, c) PROVE Run(s, i, j, c + 1)
  <2>1. /\ c \in 0..i /\ c <= j /\ c + 1 \in 0..i + 1 /\ c + 1 <= j + 1 /\ i - (c + 1) = (i - 1) - c
        /\ j - (c + 1) = (j - 1) - c /\ (c = (i - 1) + 1 => c + 1 = i + 1) /\ (c = (j - 1) + 1 => c + 1 = j + 1)
    <3>1. c \in 0..(i - 1) + 1 /\ c <= (j - 1) + 1
      BY <1>4 DEF Run
    <3> QED
      BY <3>1, <1>4
  <2>2. c + 1 = i + 1 \/ c + 1 = j + 1 \/ At(s, i - (c + 1)) # At(s, N - (j - (c + 1)))
    <3>1. c = (i - 1) + 1 \/ c = (j - 1) + 1 \/ At(s, (i - 1) - c) # At(s, N - ((j - 1) - c))
      BY <1>0, <1>4 DEF Run
    <3> QED
      BY <3>1, <2>1
  <2>3. ASSUME NEW k \in 0..(c + 1) - 1 PROVE At(s, i - k) = At(s, N - (j - k))
    <3>1. CASE k = 0
      BY <3>1, <1>1, <1>4
    <3>2. CASE k # 0
      <4>1. k - 1 \in 0..c - 1 /\ (i - 1) - (k - 1) = i - k /\ (j - 1) - (k - 1) = j - k
        BY <3>2, <2>1
      <4>2. At(s, (i - 1) - (k - 1)) = At(s, N - ((j - 1) - (k - 1)))
        BY <4>1, <1>0, <1>4 DEF Run
      <4> QED
        BY <4>1, <4>2
    <3> QED
      BY <3>1, <3>2
  <2> QED
    BY <2>1, <2>2, <2>3, <1>0 DEF Run
<1> QED
  BY <1>0, <1>2, <1>3, <1>4

\* The recursive function computes these lengths.
LEMMA CommonIs ==
  ASSUME NEW s \in Seq(Element), NEW i \in 0..Len(s) - 1, NEW j \in 0..Len(s) - 1
  PROVE  Run(s, i, j, Common(s)[i][j])
<1> DEFINE n == Len(s)  I == 0..n - 1
<1>0. n = Len(s) /\ I = 0..n - 1
  OBVIOUS
<1> HIDE DEF n, I
<1>1. n \in Nat /\ I \subseteq Nat /\ \A x \in I : x # 0 => x - 1 \in I
  BY <1>0, Numbers
<1> DEFINE next(c, x, y) ==
             IF At(s, n - 1 - y) # At(s, x) THEN 0 ELSE IF x = 0 \/ y = 0 THEN 1 ELSE c[x - 1][y - 1] + 1
<1>2. \E c : c = [x \in I |-> [y \in I |-> next(c, x, y)]]
  <2>1. PICK c : c = [x \in I |-> [y \in I |-> CHOOSE len : Run(s, x, y, len)]]
    OBVIOUS
  <2>2. ASSUME NEW x \in I, NEW y \in I PROVE Run(s, x, y, c[x][y])
    <3>1. \E len : Run(s, x, y, len)
      <4>1. x \in Nat /\ y \in Nat
        BY <1>1
      <4> QED
        BY <4>1, RunThere
    <3>2. c[x][y] = CHOOSE len : Run(s, x, y, len)
      BY <2>1
    <3> QED
      BY <3>1, <3>2
  <2>3. ASSUME NEW x \in I, NEW y \in I PROVE c[x][y] = next(c, x, y)
    <3>1. Run(s, x, y, c[x][y]) /\ x \in Nat /\ y \in Nat
      BY <2>2, <1>1
    <3>2. x # 0 /\ y # 0 => Run(s, x - 1, y - 1, c[x - 1][y - 1])
      BY <2>2, <1>1
    <3>3. Run(s, x, y, next(c, x, y))
      BY <3>1, <3>2, <1>0, RunMore
    <3> HIDE DEF next
    <3> QED
      BY <3>1, <3>3, RunOnce
  <2>4. c = [x \in I |-> [y \in I |-> next(c, x, y)]]
    <3> HIDE DEF next
    <3> QED
      BY <2>1, <2>3
  <2> QED
    BY <2>4
<1>3. PICK c : c = Common(s)
  BY SMTT(30)
<1>4. c = [x \in I |-> [y \in I |-> next(c, x, y)]]
  BY <1>2, <1>3 DEF Common, n, I
<1>5. ASSUME NEW x \in I, NEW y \in I PROVE c[x][y] = next(c, x, y)
  <2> HIDE DEF next
  <2> QED
    BY <1>4
<1>6. PICK W : W = {x \in I : \E y \in I : ~ Run(s, x, y, c[x][y])}
  OBVIOUS
<1>7. CASE W # {}
  <2>1. W \subseteq 0..n
    BY <1>0, <1>1, <1>6
  <2>2. PICK x \in W : \A m \in W : x <= m
    BY <2>1, <1>1, <1>7, LeastNumber
  <2>3. PICK y \in I : ~ Run(s, x, y, c[x][y])
    BY <2>2, <1>6
  <2>4. x \in I /\ x \in Nat /\ y \in Nat
    BY <1>1, <1>6
  <2>5. x # 0 /\ y # 0 => Run(s, x - 1, y - 1, c[x - 1][y - 1])
    <3> SUFFICES ASSUME x # 0, y # 0 PROVE Run(s, x - 1, y - 1, c[x - 1][y - 1])
      OBVIOUS
    <3>1. x - 1 \in I /\ y - 1 \in I /\ ~ (x <= x - 1)
      BY <2>3, <2>4, <1>1
    <3>2. x - 1 \notin W
      BY <3>1, <2>2
    <3> QED
      BY <3>1, <3>2, <1>6
  <2>6. Run(s, x, y, next(c, x, y))
    BY <2>4, <2>5, <1>0, RunMore
  <2>7. c[x][y] = next(c, x, y)
    BY <2>3, <2>4, <1>5
  <2> HIDE DEF next
  <2> QED
    BY <2>3, <2>6, <2>7
<1>8. CASE W = {}
  BY <1>0, <1>3, <1>6, <1>8
<1> QED
  BY <1>7, <1>8

\* All pairs of places, one after the other.
LEMMA Places ==
  ASSUME NEW n \in Nat, n > 0
  PROVE  /\ \A h \in 0..n * n - 1 : h \div n \in 0..n - 1 /\ h % n \in 0..n - 1
         /\ \A i, j \in 0..n - 1 : i * n + j \in 0..n * n - 1 /\ (i * n + j) \div n = i /\ (i * n + j) % n = j
<1>1. n * n \in Nat
  OBVIOUS
<1>2. ASSUME NEW h \in 0..n * n - 1 PROVE h \div n \in 0..n - 1 /\ h % n \in 0..n - 1
  <2>1. h \in Nat /\ h < n * n
    BY <1>1
  <2>2. PICK q : q = h \div n
    OBVIOUS
  <2>3. q \in Nat /\ q * n <= h
    BY <2>1, <2>2
  <2>4. ~ (q >= n)
    <3> SUFFICES ASSUME q >= n PROVE FALSE
      OBVIOUS
    <3>1. n * n <= q * n
      BY <2>3
    <3>2. q * n \in Nat
      BY <2>3
    <3> QED
      BY <3>1, <3>2, <2>1, <2>3, <1>1
  <2>5. h % n \in 0..n - 1
    BY <2>1
  <2> QED
    BY <2>2, <2>3, <2>4, <2>5
<1>3. ASSUME NEW i \in 0..n - 1, NEW j \in 0..n - 1
      PROVE  i * n + j \in 0..n * n - 1 /\ (i * n + j) \div n = i /\ (i * n + j) % n = j
  <2>1. i \in Nat /\ i + 1 <= n /\ i + 1 \in Nat
    OBVIOUS
  <2>2. (i + 1) * n <= n * n /\ (i + 1) * n = i * n + n /\ i * n \in Nat
    BY <2>1
  <2>3. i * n + j \in 0..n * n - 1
    BY <2>2, <1>1
  <2> QED
    BY <2>1, <2>3
<1> QED
  BY <1>2, <1>3

\* One turn of the loop, all turns, and the states: the greatest such length where both
\* parts are at the same place, of the pairs so far.
StepPal(n, c, w) ==
  IF w.k < n * n
  THEN LET i == w.k \div n  j == w.k % n  len == c[i][j]
       IN IF len > w.max /\ n - 1 - j + len - 1 = i THEN [k |-> w.k + 1, max |-> len, start |-> i]
          ELSE [w EXCEPT !.k = w.k + 1]
  ELSE w
StartPal == [k |-> 0, max |-> 0, start |-> 0]
LoopPal(s) ==
  CHOOSE f : f = [k \in 0..Len(s) * Len(s) |-> IF k = 0 THEN StartPal ELSE StepPal(Len(s), Common(s), f[k - 1])]
SamePlace(s, h, len) ==
  Run(s, h \div Len(s), h % Len(s), len) /\ Len(s) - 1 - (h % Len(s)) + len - 1 = h \div Len(s)
StatesPal(s) ==
  {w \in [k : 0..Len(s) * Len(s), max : 0..Len(s), start : 0..Len(s) - 1] :
     /\ w.max <= w.start + 1 /\ Pal(s, w.start - w.max + 1, w.start + 1)
     /\ \A h \in 0..w.k - 1 : \A len : SamePlace(s, h, len) => len <= w.max}

\* A part at the same place is a palindrome.
LEMMA SamePal ==
  ASSUME NEW s, Len(s) \in Nat, NEW i \in 0..Len(s) - 1, NEW j \in 0..Len(s) - 1, NEW len,
         Run(s, i, j, len), Len(s) - 1 - j + len - 1 = i
  PROVE  len \in 0..i + 1 /\ Pal(s, i - len + 1, i + 1)
<1>0. PICK n, l : n = Len(s) /\ l = i - len + 1
  OBVIOUS
<1>1. /\ n \in Nat /\ i \in Nat /\ j \in Nat /\ len \in Nat /\ len <= i + 1 /\ l \in Nat /\ n - 1 - j = l
  <2>1. len \in 0..i + 1
    BY DEF Run
  <2> QED
    BY <2>1, <1>0
<1>2. ASSUME NEW e \in l + 1..i + 1 PROVE s[e] = s[l + 1 + (i + 1) - e]
  <2>1. PICK k : k = i + 1 - e
    OBVIOUS
  <2>2. k \in 0..len - 1 /\ i - k + 1 = e /\ n - 1 - (j - k) + 1 = l + 1 + (i + 1) - e
    BY <2>1, <1>0, <1>1
  <2>3. At(s, i - k) = At(s, n - 1 - (j - k))
    BY <2>2, <1>0 DEF Run
  <2> QED
    BY <2>2, <2>3 DEF At
<1>3. len \in 0..i + 1
  BY DEF Run
<1> QED
  BY <1>0, <1>2, <1>3 DEF Pal

\* A palindrome that goes on at neither end is such a part.
LEMMA PalRun ==
  ASSUME NEW s \in Seq(Element), NEW L \in 1..Len(s), MostPal(s, L), NEW l \in 0..Len(s) - L, Pal(s, l, l + L)
  PROVE  \E h \in 0..Len(s) * Len(s) - 1 : SamePlace(s, h, L)
<1>0. PICK n, i, j, h : n = Len(s) /\ i = l + L - 1 /\ j = n - 1 - l /\ h = i * n + j
  OBVIOUS
<1>1. n \in Nat /\ L \in 1..n /\ l \in 0..n - L /\ i \in 0..n - 1 /\ j \in 0..n - 1 /\ n > 0 /\ l \in Nat
  BY <1>0, Numbers
<1>2. h \in 0..n * n - 1 /\ h \div n = i /\ h % n = j
  BY <1>0, <1>1, Places
<1>3. n - 1 - j = l /\ n - 1 - j + L - 1 = i /\ L \in 0..i + 1 /\ L <= j + 1
  BY <1>0, <1>1
<1>4. ASSUME NEW k \in 0..L - 1 PROVE At(s, i - k) = At(s, n - 1 - (j - k))
  <2>1. i - k + 1 \in l + 1..l + L /\ l + 1 + (l + L) - (i - k + 1) = n - 1 - (j - k) + 1
    BY <1>0, <1>1
  <2> QED
    BY <2>1 DEF Pal, At
<1>5. ASSUME L # i + 1, L # j + 1, At(s, i - L) = At(s, n - 1 - (j - L)) PROVE FALSE
  <2>1. PICK p, q : p = l - 1 /\ q = l + L + 1
    OBVIOUS
  <2>2. /\ p \in Nat /\ q \in 0..n /\ p \in 0..q /\ q - p = L + 2 /\ ~ (q - p <= L)
        /\ p + 1 = l /\ i - L + 1 = l /\ n - 1 - (j - L) + 1 = q /\ q = l + L + 1
    BY <2>1, <1>0, <1>1, <1>5
  <2>3. s[l] = s[q]
    BY <2>2, <1>5 DEF At
  <2>4. ASSUME NEW e \in p + 1..q PROVE s[e] = s[p + 1 + q - e]
    <3>1. CASE e = l
      <4>1. p + 1 + q - e = q
        BY <3>1, <2>2, <1>1
      <4> QED
        BY <4>1, <3>1, <2>3
    <3>2. CASE e = q
      <4>1. p + 1 + q - e = l
        BY <3>2, <2>2, <1>1
      <4> QED
        BY <4>1, <3>2, <2>3
    <3>3. CASE e # l /\ e # q
      <4>1. e \in l + 1..l + L /\ p + 1 + q - e = l + 1 + (l + L) - e
        BY <3>3, <2>1, <2>2, <1>1
      <4> QED
        BY <4>1 DEF Pal
    <3> QED
      BY <3>1, <3>2, <3>3
  <2>5. Pal(s, p, q)
    BY <2>4 DEF Pal
  <2> QED
    BY <2>2, <2>5, <1>0 DEF MostPal
<1>6. Run(s, i, j, L)
  BY <1>0, <1>3, <1>4, <1>5 DEF Run
<1> QED
  BY <1>0, <1>2, <1>3, <1>6 DEF SamePlace

\* A turn keeps to the states and goes on.
LEMMA TurnPal ==
  ASSUME NEW s \in Seq(Element), NEW w \in StatesPal(s)
  PROVE  /\ StepPal(Len(s), Common(s), w) \in StatesPal(s)
         /\ IF w.k < Len(s) * Len(s) THEN StepPal(Len(s), Common(s), w).k = w.k + 1
            ELSE StepPal(Len(s), Common(s), w) = w
<1>0. PICK n, N, c, k, max, start, u :
        /\ n = Len(s) /\ N = n * n /\ c = Common(s) /\ k = w.k /\ max = w.max /\ start = w.start
        /\ u = StepPal(n, c, w)
  OBVIOUS
<1>1. /\ n \in Nat /\ N \in Nat /\ k \in 0..N /\ max \in 0..n /\ start \in 0..n - 1
      /\ w = [k |-> k, max |-> max, start |-> start]
      /\ max <= start + 1 /\ Pal(s, start - max + 1, start + 1)
      /\ \A h \in 0..k - 1 : \A len : SamePlace(s, h, len) => len <= max
  <2>1. n \in Nat /\ N \in Nat
    <3>1. n \in Nat
      BY <1>0, Numbers
    <3> QED
      BY <3>1, <1>0
  <2> QED
    BY <2>1, <1>0 DEF StatesPal
<1>2. CASE k < N
  <2>1. PICK i, j, len : i = k \div n /\ j = k % n /\ len = c[i][j]
    OBVIOUS
  <2>2. i \in 0..n - 1 /\ j \in 0..n - 1 /\ k + 1 \in 0..N /\ n > 0
    <3>1. n > 0 /\ k + 1 \in 0..N
      BY <1>1, <1>2
    <3>2. k \in 0..n * n - 1
      BY <1>0, <1>1, <1>2
    <3> QED
      BY <3>1, <3>2, <2>1, <1>1, Places
  <2>3. Run(s, i, j, len)
    BY <2>1, <2>2, <1>0, CommonIs
  <2>4. \A h \in 0..(k + 1) - 1 : h = k \/ h \in 0..k - 1
    BY <1>1
  <2>5. \A x : SamePlace(s, k, x) => x = len /\ n - 1 - j + len - 1 = i
    <3> SUFFICES ASSUME NEW x, SamePlace(s, k, x) PROVE x = len /\ n - 1 - j + len - 1 = i
      OBVIOUS
    <3>1. Run(s, i, j, x) /\ n - 1 - j + x - 1 = i
      BY <2>1, <1>0 DEF SamePlace
    <3>2. i \in Nat /\ j \in Nat
      BY <2>2
    <3>3. x = len
      BY <3>1, <3>2, <2>3, RunOnce
    <3> QED
      BY <3>1, <3>3
  <2>6. CASE len > max /\ n - 1 - j + len - 1 = i
    <3>1. u = [k |-> k + 1, max |-> len, start |-> i]
      BY <2>1, <2>6, <1>0, <1>1, <1>2 DEF StepPal
    <3>2. u.k = k + 1 /\ u.max = len /\ u.start = i
      BY <3>1
    <3>3. len \in 0..i + 1 /\ Pal(s, i - len + 1, i + 1)
      BY <2>2, <2>3, <2>6, <1>0, <1>1, SamePal
    <3>4. len \in 0..n /\ len <= i + 1
      BY <3>3, <2>2, <1>1
    <3>5. ASSUME NEW h \in 0..(k + 1) - 1, NEW x, SamePlace(s, h, x) PROVE x <= len
      <4>1. CASE h = k
        BY <4>1, <3>4, <3>5, <2>5
      <4>2. CASE h \in 0..k - 1
        <5>1. x <= max
          BY <4>2, <3>5, <1>1
        <5>2. x \in 0..(h \div Len(s)) + 1
          BY <3>5 DEF SamePlace, Run
        <5>3. x \in Int
          BY <5>2
        <5> QED
          BY <5>1, <5>3, <3>4, <2>6, <1>1
      <4> QED
        BY <4>1, <4>2, <2>4
    <3>6. u \in [k : 0..N, max : 0..n, start : 0..n - 1]
      BY <3>1, <3>4, <2>2
    <3>7. u \in StatesPal(s)
      BY <3>2, <3>3, <3>4, <3>5, <3>6, <1>0 DEF StatesPal
    <3> QED
      BY <3>2, <3>7, <1>0, <1>2
  <2>7. CASE ~ (len > max /\ n - 1 - j + len - 1 = i)
    <3>1. u = [k |-> k + 1, max |-> max, start |-> start]
      BY <2>1, <2>7, <1>0, <1>1, <1>2 DEF StepPal
    <3>2. u.k = k + 1 /\ u.max = max /\ u.start = start
      BY <3>1
    <3>3. len \in Int
      BY <2>2, <2>3 DEF Run
    <3>5. ASSUME NEW h \in 0..(k + 1) - 1, NEW x, SamePlace(s, h, x) PROVE x <= max
      <4>1. CASE h = k
        <5>1. x = len /\ ~ (len > max)
          BY <4>1, <3>5, <2>5, <2>7
        <5> QED
          BY <5>1, <3>3, <1>1
      <4>2. CASE h \in 0..k - 1
        BY <4>2, <3>5, <1>1
      <4> QED
        BY <4>1, <4>2, <2>4
    <3>6. u \in [k : 0..N, max : 0..n, start : 0..n - 1]
      BY <3>1, <2>2, <1>1
    <3>7. u \in StatesPal(s)
      BY <3>2, <3>5, <3>6, <1>0, <1>1, SMTT(30) DEF StatesPal
    <3> QED
      BY <3>2, <3>7, <1>0, <1>2
  <2> QED
    BY <2>6, <2>7
<1>3. CASE ~ (k < N)
  <2>1. u = w
    BY <1>0, <1>3 DEF StepPal
  <2> QED
    BY <2>1, <1>0, <1>3, Zenon
<1> QED
  BY <1>2, <1>3

\* longestPalindromeEx returns a longest palindrome.
LEMMA longestPalindromeExIs ==
  ASSUME NEW s \in Seq(Element), s # <<>>
  PROVE  LET x == longestPalindromeEx(s)
             palindromes == {y \in Parts(s) : isPalindrome(y)}
         IN x \in palindromes /\ Len(x) = Longest(palindromes)
<1>0. PICK n, N : n = Len(s) /\ N = n * n
  OBVIOUS
<1> DEFINE w0 == StartPal  g == LoopPal(s)  D == StatesPal(s)
           G == [w \in D |-> StepPal(Len(s), Common(s), w)]  M == [w \in D |-> N - w.k]
<1>1. N \in Nat /\ n \in Nat /\ n > 0
  <2>1. n \in Nat /\ n # 0
    BY <1>0, Numbers
  <2> QED
    BY <2>1, <1>0
<1>2. w0 \in D
  <2>1. /\ 0 \in 0..N /\ 0 \in 0..n /\ 0 \in 0..n - 1 /\ 0 <= 0 + 1
        /\ (\A h \in 0..0 - 1 : FALSE) /\ \A k \in (0 - 0 + 1) + 1..0 + 1 : FALSE
    BY <1>1
  <2>2. Pal(s, 0 - 0 + 1, 0 + 1)
    BY <2>1 DEF Pal
  <2>3. w0.k = 0 /\ w0.max = 0 /\ w0.start = 0
    BY DEF StartPal
  <2>4. w0 \in [k : 0..N, max : 0..n, start : 0..n - 1]
    BY <2>1 DEF StartPal
  <2> HIDE DEF w0
  <2> QED
    BY <2>1, <2>2, <2>3, <2>4, <1>0 DEF StatesPal
<1>3. \A v \in D : v.k \in 0..N
  BY <1>0 DEF StatesPal
<1>4. \A v \in D : /\ StepPal(Len(s), Common(s), v) \in D
                   /\ IF v.k < N THEN StepPal(Len(s), Common(s), v).k = v.k + 1
                      ELSE StepPal(Len(s), Common(s), v) = v
  BY <1>0, TurnPal
<1>5. G \in [D -> D] /\ M \in [D -> Nat] /\ M[w0] <= N /\ \A v \in D : G[v] = v \/ M[G[v]] < M[v]
  <2> HIDE DEF D
  <2>1. w0.k = 0
    BY DEF StartPal
  <2>2. M[w0] <= N
    <3> HIDE DEF w0
    <3> QED
      BY <1>1, <1>2, <2>1
  <2>3. \A v \in D : N - v.k \in Nat
    BY <1>1, <1>3
  <2>4. G \in [D -> D] /\ M \in [D -> Nat]
    BY <1>4, <2>3
  <2>5. ASSUME NEW v \in D PROVE G[v] = v \/ M[G[v]] < M[v]
    <3>1. PICK u : u = StepPal(Len(s), Common(s), v)
      OBVIOUS
    <3>2. u \in D /\ (u.k = v.k + 1 \/ u = v) /\ G[v] = u
      BY <3>1, <1>4
    <3>3. v.k \in Int /\ N \in Int
      BY <1>1, <1>3
    <3> QED
      BY <3>2, <3>3
  <2> QED
    BY <2>2, <2>4, <2>5
<1>p. PICK f : EndsAs(N, D, G, w0, f)
  <2> HIDE DEF D, G, M, w0
  <2> QED
    BY <1>1, <1>2, <1>5, LoopRule
<1>6. /\ f \in [0..N -> D] /\ f[0] = w0 /\ \A d \in 1..N : f[d] = G[f[d - 1]]
      /\ f[N] \in D /\ G[f[N]] = f[N]
      /\ \A z : Follows(N, D, G, z) /\ z[0] = w0 => z[N] = f[N]
  BY <1>p DEF EndsAs
<1>7. g[N] = f[N]
  <2>1. f = [d \in 0..N |-> IF d = 0 THEN w0 ELSE StepPal(Len(s), Common(s), f[d - 1])]
    <3>1. \A d \in 1..N : d - 1 \in 0..N
      BY <1>1
    <3>2. \A d \in 1..N : f[d] = StepPal(Len(s), Common(s), f[d - 1])
      BY <1>6, <3>1
    <3> HIDE DEF D
    <3> QED
      BY <1>6, <3>2, <1>1
  <2>2. g = [d \in 0..N |-> IF d = 0 THEN w0 ELSE StepPal(Len(s), Common(s), g[d - 1])]
    BY <2>1, <1>0 DEF LoopPal
  <2>3. g[0] = w0 /\ \A d \in 1..N : g[d] = StepPal(Len(s), Common(s), g[d - 1])
    BY <2>2, <1>1
  <2>4. Follows(N, D, G, g)
    BY <2>3 DEF Follows
  <2> HIDE DEF D, G, g
  <2> QED
    BY <1>6, <2>3, <2>4
<1>8. PICK v : v = f[N]
  OBVIOUS
<1>9. v \in D /\ StepPal(Len(s), Common(s), v) = v
  BY <1>6, <1>8
<1>10. v.k = N
  <2>1. v.k \in 0..N
    BY <1>3, <1>9
  <2>2. ~ (v.k = v.k + 1)
    BY <2>1
  <2> HIDE DEF D
  <2> QED
    BY <2>1, <2>2, <1>1, <1>4, <1>9
<1>11. longestPalindromeEx(s) = SubSeq(s, v.start - v.max + 2, v.start + 1)
  <2>1. PICK z : z = g[Len(s) * Len(s)]
    BY SMTT(30)
  <2>2. longestPalindromeEx(s) = SubSeq(s, z.start - z.max + 2, z.start + 1)
    BY <2>1, Zenon DEF longestPalindromeEx, While, StepPal, StartPal, LoopPal, Common
  <2> HIDE DEF g
  <2> QED
    BY <2>1, <2>2, <1>0, <1>7, <1>8
<1> HIDE DEF g, G, M, w0
<1>12. PICK max, r, l : max = v.max /\ r = v.start + 1 /\ l = r - max
  OBVIOUS
<1>13. /\ max \in 0..n /\ r \in 1..n /\ l \in 0..n - max /\ l + max = r /\ Pal(s, l, l + max)
       /\ \A h \in 0..N - 1 : \A len : SamePlace(s, h, len) => len <= max
  <2>1. /\ max \in 0..n /\ v.start \in 0..n - 1 /\ max <= v.start + 1
        /\ Pal(s, v.start - max + 1, v.start + 1)
        /\ \A h \in 0..N - 1 : \A len : SamePlace(s, h, len) => len <= max
    BY <1>0, <1>9, <1>10, <1>12 DEF StatesPal
  <2>2. v.start - max + 1 = l /\ r \in 1..n /\ l \in 0..n - max /\ l + max = r
    <3>1. PICK e : e = v.start
      OBVIOUS
    <3>2. e \in Int /\ max \in Int /\ n \in Int /\ 0 <= e /\ e <= n - 1 /\ 0 <= max /\ max <= n /\ max <= e + 1
      BY <3>1, <2>1, <1>1
    <3>3. e - max + 1 = l /\ r \in 1..n /\ l \in 0..n - max /\ l + max = r
      BY <3>1, <3>2, <1>12, SMTT(40)
    <3> QED
      BY <3>1, <3>3
  <2> QED
    BY <2>1, <2>2, <1>12
<1>14. PICK L \in 0..n : MostPal(s, L)
  BY <1>0, SomePal
<1>15. max <= L
  <2>1. r \in 0..n /\ l \in 0..r /\ r - l = max
    BY <1>1, <1>13
  <2> QED
    BY <2>1, <1>0, <1>13, <1>14 DEF MostPal
<1>16. L <= max
  <2>1. CASE L = 0
    BY <2>1, <1>13
  <2>2. CASE L \in 1..n
    <3>1. PICK p \in 0..n - L : Pal(s, p, p + L)
      BY <1>0, <1>14 DEF MostPal
    <3>2. PICK h \in 0..N - 1 : SamePlace(s, h, L)
      BY <3>1, <2>2, <1>0, <1>14, PalRun
    <3> QED
      BY <3>2, <1>13
  <2> QED
    BY <2>1, <2>2, <1>1
<1>17. L = max
  BY <1>13, <1>15, <1>16
<1>18. v.start - v.max + 2 = l + 1
  <2>1. v.start \in Int /\ v.max \in Int
    BY <1>0, <1>9 DEF StatesPal
  <2> QED
    BY <2>1, <1>12, SMTT(30)
<1> QED
  BY <1>0, <1>11, <1>12, <1>13, <1>14, <1>17, <1>18, LongestPal

-----------------------------------------------------------------------------
(* longestPalindromeEx2.                                                   *)

\* s with its marks; the radius of a centre; and where it grows to from r.
Marked(s, i) ==
  IF i >= 2 * Len(s) + 2 THEN -3 ELSE IF i = 0 THEN -2 ELSE IF i % 2 = 1 THEN -1 ELSE At(s, i \div 2 - 1)
Match(s, i, k) == Marked(s, i + k) = Marked(s, i - k)
Rad(s, i, r) == r \in 1..i /\ i + r <= 2 * Len(s) + 2 /\ ~ Match(s, i, r) /\ \A k \in 0..r - 1 : Match(s, i, k)
Grown(s, i, r) ==
  CHOOSE q \in r..i + 1 : /\ Marked(s, i + q) # Marked(s, i - q)
                          /\ \A k \in r..q - 1 : Marked(s, i + k) = Marked(s, i - k)

\* The marks are at the odd places and outside, the elements at the even ones.
LEMMA MarksAre ==
  ASSUME Element \cap {-2, -3} = {}, NEW s \in Seq(Element)
  PROVE  /\ \A i \in Nat : /\ i >= 2 * Len(s) + 2 <=> Marked(s, i) = -3
                           /\ i = 0 <=> Marked(s, i) = -2
         /\ \A m \in 0..Len(s) : Marked(s, 2 * m + 1) = -1
         /\ \A m \in 1..Len(s) : Marked(s, 2 * m) = s[m]
<1>0. PICK n : n = Len(s)
  OBVIOUS
<1>1. n \in Nat /\ \A k \in 1..n : s[k] \in Element /\ s[k] # -2 /\ s[k] # -3
  BY <1>0, Numbers
<1>2. ASSUME NEW m \in 0..n PROVE Marked(s, 2 * m + 1) = -1
  <2>1. ~ (2 * m + 1 >= 2 * n + 2) /\ 2 * m + 1 # 0 /\ (2 * m + 1) % 2 = 1
    BY <1>1
  <2> QED
    BY <2>1, <1>0 DEF Marked
<1>3. ASSUME NEW m \in 1..n PROVE Marked(s, 2 * m) = s[m]
  <2>1. ~ (2 * m >= 2 * n + 2) /\ 2 * m # 0 /\ (2 * m) % 2 # 1 /\ (2 * m) \div 2 - 1 + 1 = m
    BY <1>1
  <2> QED
    BY <2>1, <1>0 DEF Marked, At
<1>4. ASSUME NEW i \in Nat PROVE (i >= 2 * n + 2 <=> Marked(s, i) = -3) /\ (i = 0 <=> Marked(s, i) = -2)
  <2>1. CASE i >= 2 * n + 2
    <3>1. i # 0
      BY <2>1, <1>1
    <3> QED
      BY <3>1, <2>1, <1>0 DEF Marked
  <2>2. CASE i = 0
    <3>1. ~ (i >= 2 * n + 2)
      BY <2>2, <1>1
    <3> QED
      BY <3>1, <2>2, <1>0 DEF Marked
  <2>3. CASE i % 2 = 1 /\ ~ (i >= 2 * n + 2)
    <3>1. i # 0
      BY <2>3
    <3> QED
      BY <3>1, <2>3, <1>0 DEF Marked
  <2>4. CASE i % 2 # 1 /\ ~ (i >= 2 * n + 2) /\ i # 0
    <3>1. PICK m : m = i \div 2
      OBVIOUS
    <3>2. m \in 1..n /\ i = 2 * m
      BY <3>1, <2>4, <1>1
    <3> QED
      BY <3>2, <2>4, <1>1, <1>3
  <2> QED
    BY <2>1, <2>2, <2>3, <2>4
<1> QED
  BY <1>0, <1>2, <1>3, <1>4

\* A radius ends before the marks at both ends.
LEMMA RadIn ==
  ASSUME Element \cap {-2, -3} = {}, NEW s \in Seq(Element), NEW i \in 1..2 * Len(s) + 1, NEW r \in Nat,
         r > 0, ~ Match(s, i, r), \A k \in 0..r - 1 : Match(s, i, k)
  PROVE  Rad(s, i, r)
<1>0. PICK n, z : n = Len(s) /\ z = 2 * n + 2
  OBVIOUS
<1>1. n \in Nat /\ z \in Nat /\ i \in 1..z - 1
  BY <1>0, Numbers
<1>2. \A k \in Nat : (k >= z <=> Marked(s, k) = -3) /\ (k = 0 <=> Marked(s, k) = -2)
  BY <1>0, MarksAre
<1>3. r <= i
  <2> SUFFICES ASSUME ~ (r <= i) PROVE FALSE
    OBVIOUS
  <2>1. i \in 0..r - 1 /\ i - i = 0 /\ i + i \in Nat /\ i + i # 0 /\ 0 \in Nat
    BY <1>1
  <2>2. Marked(s, i + i) = Marked(s, 0)
    BY <2>1 DEF Match
  <2> QED
    BY <2>1, <2>2, <1>2
<1>4. i + r <= z
  <2> SUFFICES ASSUME ~ (i + r <= z) PROVE FALSE
    OBVIOUS
  <2>1. PICK k : k = z - i
    OBVIOUS
  <2>2. k \in 0..r - 1 /\ i + k = z /\ i - k \in Nat /\ ~ (i - k >= z)
    BY <2>1, <1>1, <1>3
  <2>3. Marked(s, z) = Marked(s, i - k)
    BY <2>2 DEF Match
  <2>4. z >= z
    BY <1>1
  <2> QED
    BY <2>2, <2>3, <2>4, <1>1, <1>2
<1> QED
  BY <1>0, <1>1, <1>3, <1>4 DEF Rad

\* From any start that matches, the centre grows to its radius.
LEMMA GrownIs ==
  ASSUME Element \cap {-2, -3} = {}, NEW s \in Seq(Element), NEW i \in 1..2 * Len(s) + 1, NEW r \in 1..i,
         \A k \in 0..r - 1 : Match(s, i, k)
  PROVE  Rad(s, i, Grown(s, i, r))
<1>0. PICK n : n = Len(s)
  OBVIOUS
<1>1. n \in Nat /\ i \in Nat /\ r \in Nat
  BY <1>0, Numbers
<1>2. PICK W : W = {q \in r..i : ~ Match(s, i, q)}
  OBVIOUS
<1>3. i \in W
  <2>1. i - i = 0 /\ i + i \in Nat /\ i + i # 0 /\ 0 \in Nat /\ i \in r..i
    BY <1>1
  <2>2. Marked(s, i + i) # Marked(s, 0)
    BY <2>1, MarksAre
  <2> QED
    BY <2>1, <2>2, <1>2 DEF Match
<1>4. PICK q \in W : \A k \in W : q <= k
  <2>1. W \subseteq 0..i
    BY <1>1, <1>2
  <2> QED
    BY <2>1, <1>1, <1>3, LeastNumber
<1>5. q \in r..i /\ ~ Match(s, i, q) /\ q \in Nat
  BY <1>1, <1>2
<1>6. \A k \in r..q - 1 : Match(s, i, k)
  <2>1. \A k \in r..q - 1 : k \in r..i /\ ~ (q <= k)
    BY <1>1, <1>5
  <2> QED
    BY <2>1, <1>2, <1>4
<1>7. PICK g : g = Grown(s, i, r)
  OBVIOUS
<1>8. g \in r..i + 1 /\ ~ Match(s, i, g) /\ \A k \in r..g - 1 : Match(s, i, k)
  <2>1. q \in r..i + 1
    BY <1>1, <1>5
  <2>2. \E x \in r..i + 1 : ~ Match(s, i, x) /\ \A k \in r..x - 1 : Match(s, i, k)
    BY <2>1, <1>5, <1>6
  <2>3. g = CHOOSE x \in r..i + 1 : ~ Match(s, i, x) /\ \A k \in r..x - 1 : Match(s, i, k)
    BY <1>7 DEF Grown, Match
  <2> QED
    BY <2>2, <2>3
<1>9. g \in Nat /\ g > 0 /\ \A k \in 0..g - 1 : k \in 0..r - 1 \/ k \in r..g - 1
  BY <1>1, <1>8
<1>10. \A k \in 0..g - 1 : Match(s, i, k)
  BY <1>8, <1>9
<1> QED
  BY <1>7, <1>8, <1>9, <1>10, RadIn

\* What is right of a centre mirrors what is left of it.
LEMMA MirrorIs ==
  ASSUME NEW s, NEW id \in Nat, NEW p \in Nat, Rad(s, id, p), NEW i \in id + 1..id + p - 1,
         NEW q \in Nat, Rad(s, 2 * id - i, q), NEW k \in 0..q - 1, k < id + p - i
  PROVE  Match(s, i, k)
<1>1. PICK m, d, e : m = 2 * id - i /\ d = i + k - id /\ e = i - id - k
  OBVIOUS
<1>2. /\ i \in Nat /\ k \in Nat /\ d \in 0..p - 1 /\ id + d = i + k /\ id - d = m - k
      /\ id - e = m + k /\ id + e = i - k /\ e \in Int /\ (e >= 0 => e \in 0..p - 1)
      /\ (e < 0 => -e \in 0..p - 1) /\ id + (-e) = id - e /\ id - (-e) = id + e
  BY <1>1
<1>3. Marked(s, i + k) = Marked(s, m - k)
  <2>1. Match(s, id, d)
    BY <1>2 DEF Rad
  <2> QED
    BY <2>1, <1>2 DEF Match
<1>4. Marked(s, m + k) = Marked(s, m - k)
  BY <1>1 DEF Rad, Match
<1>5. Marked(s, m + k) = Marked(s, i - k)
  <2>1. CASE e >= 0
    <3>1. Match(s, id, e)
      BY <2>1, <1>2 DEF Rad
    <3> QED
      BY <3>1, <1>2 DEF Match
  <2>2. CASE e < 0
    <3>1. Match(s, id, -e)
      BY <2>2, <1>2 DEF Rad
    <3> QED
      BY <3>1, <1>2 DEF Match
  <2> QED
    BY <2>1, <2>2, <1>2
<1> QED
  BY <1>3, <1>4, <1>5 DEF Match

\* A radius gives a palindrome, one shorter than it.
LEMMA RadPal ==
  ASSUME Element \cap {-2, -3} = {}, NEW s \in Seq(Element), NEW c \in 1..2 * Len(s) + 1, NEW r, Rad(s, c, r)
  PROVE  LET l == (c - r) \div 2
         IN l \in Nat /\ l + r - 1 \in l..Len(s) /\ Pal(s, l, l + r - 1)
<1>0. PICK n, l, h : n = Len(s) /\ h = c - r /\ l = h \div 2
  OBVIOUS
<1>1. n \in Nat /\ r \in 1..c /\ c + r <= 2 * n + 2 /\ h \in Nat /\ c \in Nat /\ r \in Nat /\ l \in Nat
  <2>1. n \in Nat /\ r \in 1..c /\ c + r <= 2 * n + 2 /\ c \in Nat
    BY <1>0, Numbers DEF Rad
  <2>2. h \in Nat /\ r \in Nat
    BY <2>1, <1>0
  <2> QED
    BY <2>1, <2>2, <1>0
<1>2. h = 2 * l
  <2> SUFFICES ASSUME h # 2 * l PROVE FALSE
    OBVIOUS
  <2>1. h = 2 * l + 1
    BY <1>0, <1>1
  <2>2. PICK m : m = l + r
    OBVIOUS
  <2>3. c + r = 2 * m + 1 /\ c - r = 2 * l + 1 /\ m \in 0..n /\ l \in 0..n
    BY <2>1, <2>2, <1>0, <1>1
  <2>4. Marked(s, 2 * m + 1) = -1 /\ Marked(s, 2 * l + 1) = -1
    BY <2>3, <1>0, MarksAre
  <2>5. Match(s, c, r)
    BY <2>3, <2>4 DEF Match
  <2> QED
    BY <2>5 DEF Rad
<1>3. c = 2 * l + r /\ l + r - 1 \in l..n
  BY <1>0, <1>1, <1>2
<1>4. ASSUME NEW e \in l + 1..l + r - 1 PROVE s[e] = s[l + 1 + (l + r - 1) - e]
  <2>1. PICK k, f : k = 2 * e - c /\ f = l + 1 + (l + r - 1) - e
    OBVIOUS
  <2>2. /\ e \in 1..n /\ f \in 1..n /\ 2 * e = c + k /\ 2 * f = c - k /\ k \in Int
        /\ (k >= 0 => k \in 0..r - 1) /\ (k < 0 => -k \in 0..r - 1) /\ c + (-k) = c - k /\ c - (-k) = c + k
    BY <2>1, <1>1, <1>3
  <2>3. Marked(s, 2 * e) = s[e] /\ Marked(s, 2 * f) = s[f]
    BY <2>2, <1>0, MarksAre
  <2>4. Marked(s, c + k) = Marked(s, c - k)
    <3>1. CASE k >= 0
      <4>1. Match(s, c, k)
        BY <3>1, <2>2 DEF Rad
      <4> QED
        BY <4>1 DEF Match
    <3>2. CASE k < 0
      <4>1. Match(s, c, -k)
        BY <3>2, <2>2 DEF Rad
      <4> QED
        BY <4>1, <2>2 DEF Match
    <3> QED
      BY <3>1, <3>2, <2>2
  <2> QED
    BY <2>1, <2>2, <2>3, <2>4
<1> QED
  BY <1>0, <1>1, <1>3, <1>4 DEF Pal

\* A palindrome has a centre with a radius that is one more at least.
LEMMA PalRad ==
  ASSUME Element \cap {-2, -3} = {}, NEW s \in Seq(Element), NEW r \in 0..Len(s), NEW l \in 0..r, Pal(s, l, r),
         NEW q, Rad(s, l + r + 1, q)
  PROVE  r - l < q
<1>0. PICK n, c : n = Len(s) /\ c = l + r + 1
  OBVIOUS
<1>1. n \in Nat /\ l \in Nat /\ r \in Nat /\ c \in Nat /\ l <= r /\ r <= n
  BY <1>0, Numbers
<1>2. ASSUME NEW k \in 0..r - l PROVE Match(s, c, k)
  <2>1. CASE (c + k) % 2 = 1
    <3>1. PICK e, f : e = (c + k) \div 2 /\ f = e - k
      OBVIOUS
    <3>2. c + k = 2 * e + 1 /\ c - k = 2 * f + 1 /\ e \in 0..n /\ f \in 0..n
      <4>1. c + k = 2 * e + 1
        BY <3>1, <2>1, <1>1
      <4>2. e \in Int /\ c - k = 2 * f + 1
        BY <4>1, <3>1, <1>1
      <4> QED
        BY <4>1, <4>2, <3>1, <1>0, <1>1
    <3>3. Marked(s, 2 * e + 1) = -1 /\ Marked(s, 2 * f + 1) = -1
      BY <3>2, <1>0, MarksAre
    <3> QED
      BY <3>2, <3>3 DEF Match
  <2>2. CASE (c + k) % 2 # 1
    <3>1. PICK e, f : e = (c + k) \div 2 /\ f = e - k
      OBVIOUS
    <3>2. c + k = 2 * e /\ c - k = 2 * f /\ e \in l + 1..r /\ f \in 1..n /\ e \in 1..n /\ f = l + 1 + r - e
      <4>1. c + k = 2 * e
        BY <3>1, <2>2, <1>1
      <4>2. e \in Int /\ c - k = 2 * f
        BY <4>1, <3>1, <1>1
      <4> QED
        BY <4>1, <4>2, <3>1, <1>0, <1>1
    <3>3. Marked(s, 2 * e) = s[e] /\ Marked(s, 2 * f) = s[f]
      BY <3>2, <1>0, MarksAre
    <3>4. s[e] = s[f]
      BY <3>2 DEF Pal
    <3> QED
      BY <3>2, <3>3, <3>4 DEF Match
  <2> QED
    BY <2>1, <2>2
<1>3. q \in Nat /\ ~ Match(s, c, q)
  BY <1>0, <1>1 DEF Rad
<1>4. ~ (q \in 0..r - l)
  BY <1>2, <1>3
<1> QED
  BY <1>1, <1>3, <1>4

\* One turn of the loop, all turns, and the states: the radii of the centres before i.
StepMan(s, w) ==
  IF w.i < 2 * Len(s) + 2
  THEN LET r == Grown(s, w.i, Mirrored(w)) IN
       [i |-> w.i + 1, p |-> [w.p EXCEPT ![w.i] = r],
        mx |-> IF w.mx < w.i + r THEN w.i + r ELSE w.mx,
        id |-> IF w.mx < w.i + r THEN w.i ELSE w.id,
        len |-> IF w.len < r THEN r ELSE w.len,
        center |-> IF w.len < r THEN w.i ELSE w.center]
  ELSE w
StartMan(s) ==
  [i |-> 1, p |-> [i \in 0..2 * Len(s) + 2 |-> 0], mx |-> 0, id |-> 0, len |-> 0, center |-> 0]
LoopMan(s) ==
  CHOOSE f : f = [k \in 0..2 * Len(s) + 2 |-> IF k = 0 THEN StartMan(s) ELSE StepMan(s, f[k - 1])]
Radii(s, i, p, mx, id, len, center) ==
  /\ \A k \in 1..i - 1 : Rad(s, k, p[k]) /\ p[k] <= len
  /\ mx = 0 \/ (id \in 1..i - 1 /\ mx = id + p[id])
  /\ IF i = 1 THEN len = 0 ELSE center \in 1..i - 1 /\ len = p[center]
StatesMan(s) ==
  {w \in [i : 1..2 * Len(s) + 2, p : [0..2 * Len(s) + 2 -> Int], mx : Int, id : Int, len : Int, center : Int] :
     Radii(s, w.i, w.p, w.mx, w.id, w.len, w.center)}

\* The radius of the mirrored centre is one to start from.
LEMMA MirroredIs ==
  ASSUME NEW s \in Seq(Element), NEW w \in StatesMan(s), w.i < 2 * Len(s) + 2
  PROVE  Mirrored(w) \in 1..w.i /\ \A k \in 0..Mirrored(w) - 1 : Match(s, w.i, k)
<1>0. PICK n, i, p, mx, id, r : n = Len(s) /\ i = w.i /\ p = w.p /\ mx = w.mx /\ id = w.id /\ r = Mirrored(w)
  OBVIOUS
<1>1. /\ n \in Nat /\ i \in Nat /\ i > 0 /\ i < 2 * n + 2 /\ mx \in Int /\ (\A k \in 1..i - 1 : Rad(s, k, p[k]))
      /\ (mx = 0 \/ (id \in 1..i - 1 /\ mx = id + p[id]))
  <2>1. i \in 1..2 * n + 2 /\ mx \in Int
    BY <1>0 DEF StatesMan
  <2>2. Radii(s, i, p, mx, id, w.len, w.center)
    BY <1>0 DEF StatesMan
  <2> QED
    BY <2>1, <2>2, <1>0, Numbers DEF Radii
<1>2. CASE mx > i
  <2>1. PICK m, q, P : m = 2 * id - i /\ q = p[m] /\ P = p[id]
    OBVIOUS
  <2>2. id \in 1..i - 1 /\ mx = id + P /\ Rad(s, id, P) /\ P \in Nat /\ P <= id /\ id \in Nat
    <3>1. id \in 1..i - 1 /\ mx = id + P
      BY <2>1, <1>1, <1>2
    <3>2. Rad(s, id, P) /\ id \in Nat
      BY <3>1, <2>1, <1>1
    <3>3. P \in 1..id
      BY <3>2 DEF Rad
    <3> QED
      BY <3>1, <3>2, <3>3
  <2>3. m \in 1..i - 1 /\ i \in id + 1..id + P - 1 /\ m <= i
    BY <2>1, <2>2, <1>1, <1>2
  <2>4. Rad(s, m, q) /\ q \in 1..m /\ q \in Nat
    <3>1. Rad(s, m, q)
      BY <2>1, <2>3, <1>1
    <3>2. q \in 1..m
      BY <3>1 DEF Rad
    <3> QED
      BY <3>1, <3>2, <2>3
  <2>5. r = Min({q, mx - i})
    BY <2>1, <1>0, <1>2 DEF Mirrored
  <2>6. r = (IF q <= mx - i THEN q ELSE mx - i)
    <3>1. q \in Int /\ mx - i \in Int
      BY <2>4, <1>1
    <3> QED
      BY <3>1, <2>5, MinOfTwo
  <2>7. r \in 1..i /\ r <= q /\ r <= mx - i
    BY <2>3, <2>4, <2>6, <1>1, <1>2
  <2>8. ASSUME NEW k \in 0..r - 1 PROVE Match(s, i, k)
    <3>1. k \in 0..q - 1 /\ k < id + P - i
      BY <2>2, <2>4, <2>7, <1>1
    <3> QED
      BY <3>1, <2>1, <2>2, <2>3, <2>4, MirrorIs
  <2> QED
    BY <2>7, <2>8, <1>0
<1>3. CASE ~ (mx > i)
  <2>1. r = 1
    BY <1>0, <1>3 DEF Mirrored
  <2>2. 1 \in 1..i /\ (\A k \in 0..1 - 1 : k = 0) /\ i + 0 = i /\ i - 0 = i
    BY <1>1
  <2>3. Match(s, i, 0)
    BY <2>2 DEF Match
  <2> QED
    BY <2>1, <2>2, <2>3, <1>0
<1> QED
  BY <1>2, <1>3

\* A turn keeps to the states and goes on.
LEMMA TurnMan ==
  ASSUME Element \cap {-2, -3} = {}, NEW s \in Seq(Element), NEW w \in StatesMan(s)
  PROVE  /\ StepMan(s, w) \in StatesMan(s)
         /\ IF w.i < 2 * Len(s) + 2 THEN StepMan(s, w).i = w.i + 1 ELSE StepMan(s, w) = w
<1>0. PICK n, i, p, mx, id, len, center, u :
        /\ n = 2 * Len(s) + 2 /\ i = w.i /\ p = w.p /\ mx = w.mx /\ id = w.id /\ len = w.len
        /\ center = w.center /\ u = StepMan(s, w)
  OBVIOUS
<1>1. /\ n \in Nat /\ i \in 1..n /\ i \in Nat /\ p \in [0..n -> Int] /\ mx \in Int /\ id \in Int /\ len \in Int
      /\ center \in Int /\ Radii(s, i, p, mx, id, len, center)
  <2>1. Len(s) \in Nat
    BY Numbers
  <2>2. /\ i \in 1..n /\ p \in [0..n -> Int] /\ mx \in Int /\ id \in Int /\ len \in Int
        /\ center \in Int /\ Radii(s, i, p, mx, id, len, center)
    BY <1>0 DEF StatesMan
  <2> QED
    BY <2>1, <2>2, <1>0
<1>2. CASE i < n
  <2>1. PICK r, q, y, z, x, e :
          /\ r = Grown(s, i, Mirrored(w)) /\ q = [p EXCEPT ![i] = r]
          /\ y = (IF mx < i + r THEN i + r ELSE mx) /\ z = (IF mx < i + r THEN i ELSE id)
          /\ x = (IF len < r THEN r ELSE len) /\ e = (IF len < r THEN i ELSE center)
    OBVIOUS
  <2>2. u = [i |-> i + 1, p |-> q, mx |-> y, id |-> z, len |-> x, center |-> e]
    BY <2>1, <1>0, <1>2 DEF StepMan
  <2>3. Rad(s, i, r) /\ r \in 1..i /\ r \in Nat
    <3>1. Mirrored(w) \in 1..i /\ \A k \in 0..Mirrored(w) - 1 : Match(s, i, k)
      BY <1>0, <1>2, MirroredIs
    <3>2. i \in 1..2 * Len(s) + 1
      <4>1. Len(s) \in Nat
        BY Numbers
      <4> QED
        BY <4>1, <1>0, <1>1, <1>2
    <3>3. Rad(s, i, r)
      BY <3>1, <3>2, <2>1, GrownIs
    <3>4. r \in 1..i
      BY <3>3 DEF Rad
    <3> QED
      BY <3>3, <3>4
  <2>4. q \in [0..n -> Int] /\ q[i] = r /\ \A k \in 1..i - 1 : q[k] = p[k]
    <3>1. i \in 0..n /\ r \in Int /\ 1..i - 1 \subseteq 0..n /\ \A k \in 1..i - 1 : k # i
      BY <2>3, <1>1
    <3> QED
      BY <3>1, <2>1, <1>1
  <2>5. (i + 1) - 1 = i /\ i \in 1..i /\ (\A k \in 1..i : k = i \/ k \in 1..i - 1) /\ 1..i - 1 \subseteq 1..i
    BY <1>1
  <2>6. /\ \A k \in 1..i - 1 : Rad(s, k, p[k]) /\ p[k] <= len
        /\ mx = 0 \/ (id \in 1..i - 1 /\ mx = id + p[id])
        /\ IF i = 1 THEN len = 0 ELSE center \in 1..i - 1 /\ len = p[center]
    BY <1>1 DEF Radii
  <2>7. r <= x /\ len <= x /\ x \in Int
    BY <2>1, <2>3, <1>1, SMTT(30)
  <2>8. ASSUME NEW k \in 1..i PROVE Rad(s, k, q[k]) /\ q[k] <= x
    <3>1. CASE k = i
      BY <3>1, <2>3, <2>4, <2>7
    <3>2. CASE k \in 1..i - 1
      <4>1. q[k] = p[k] /\ p[k] <= len /\ Rad(s, k, p[k])
        BY <3>2, <2>4, <2>6
      <4>2. p[k] \in 1..k
        BY <4>1 DEF Rad
      <4>3. p[k] <= x
        BY <4>1, <4>2, <2>7, <1>1
      <4> QED
        BY <4>1, <4>3
    <3> QED
      BY <3>1, <3>2, <2>5
  <2>9. y = 0 \/ (z \in 1..i /\ y = z + q[z])
    BY <2>1, <2>4, <2>5, <2>6
  <2>10. e \in 1..i /\ x = q[e]
    <3>1. CASE len < r
      BY <3>1, <2>1, <2>4, <2>5
    <3>2. CASE ~ (len < r)
      <4>1. i # 1
        BY <3>2, <2>3, <2>6, <1>1
      <4> QED
        BY <4>1, <3>2, <2>1, <2>4, <2>5, <2>6
    <3> QED
      BY <3>1, <3>2
  <2>11. Radii(s, i + 1, q, y, z, x, e)
    <3>1. i + 1 # 1
      BY <1>1
    <3> QED
      BY <3>1, <2>5, <2>8, <2>9, <2>10 DEF Radii
  <2>12. u \in [i : 1..n, p : [0..n -> Int], mx : Int, id : Int, len : Int, center : Int]
    <3>1. i + 1 \in 1..n /\ y \in Int /\ z \in Int /\ e \in Int
      BY <2>1, <2>3, <1>1, <1>2
    <3> QED
      BY <3>1, <2>2, <2>4, <2>7
  <2>13. u.i = i + 1 /\ u.p = q /\ u.mx = y /\ u.id = z /\ u.len = x /\ u.center = e
    BY <2>2
  <2>14. u \in StatesMan(s)
    BY <2>11, <2>12, <2>13, <1>0, SMTT(30) DEF StatesMan
  <2> QED
    BY <2>13, <2>14, <1>0, <1>2
<1>3. CASE ~ (i < n)
  <2>1. u = w
    BY <1>0, <1>3 DEF StepMan
  <2> QED
    BY <2>1, <1>0, <1>3
<1> QED
  BY <1>2, <1>3

\* Manacher's algorithm returns a longest palindrome.
LEMMA longestPalindromeEx2Is ==
  ASSUME Element \cap {-2, -3} = {}, NEW s \in Seq(Element), s # <<>>
  PROVE  LET x == longestPalindromeEx2(s)
             palindromes == {y \in Parts(s) : isPalindrome(y)}
         IN x \in palindromes /\ Len(x) = Longest(palindromes)
<1>0. PICK n, N : n = Len(s) /\ N = 2 * n + 2
  OBVIOUS
<1> DEFINE w0 == StartMan(s)  g == LoopMan(s)  D == StatesMan(s)
           G == [w \in D |-> StepMan(s, w)]  M == [w \in D |-> N - w.i]
<1>1. N \in Nat /\ n \in Nat /\ N > 1
  BY <1>0, Numbers
<1>2. w0 \in D
  <2>1. PICK z : z = [i \in 0..N |-> 0]
    OBVIOUS
  <2>2. 1 \in 1..N /\ z \in [0..N -> Int] /\ \A k \in 1..1 - 1 : FALSE
    BY <2>1, <1>1
  <2>3. Radii(s, 1, z, 0, 0, 0, 0)
    BY <2>2 DEF Radii
  <2>4. w0 = [i |-> 1, p |-> z, mx |-> 0, id |-> 0, len |-> 0, center |-> 0]
    BY <2>1, <1>0 DEF StartMan
  <2>5. w0.i = 1 /\ w0.p = z /\ w0.mx = 0 /\ w0.id = 0 /\ w0.len = 0 /\ w0.center = 0
    BY <2>4
  <2>6. w0 \in [i : 1..N, p : [0..N -> Int], mx : Int, id : Int, len : Int, center : Int]
    BY <2>2, <2>4
  <2> HIDE DEF w0
  <2> QED
    BY <2>3, <2>5, <2>6, <1>0 DEF StatesMan
<1>3. \A v \in D : v.i \in 1..N
  BY <1>0 DEF StatesMan
<1>4. \A v \in D : /\ StepMan(s, v) \in D
                   /\ IF v.i < N THEN StepMan(s, v).i = v.i + 1 ELSE StepMan(s, v) = v
  BY <1>0, TurnMan
<1>5. G \in [D -> D] /\ M \in [D -> Nat] /\ M[w0] <= N /\ \A v \in D : G[v] = v \/ M[G[v]] < M[v]
  <2> HIDE DEF D
  <2>1. w0.i = 1
    BY DEF StartMan
  <2>2. M[w0] <= N
    <3> HIDE DEF w0
    <3> QED
      BY <1>1, <1>2, <2>1
  <2>3. \A v \in D : N - v.i \in Nat
    BY <1>1, <1>3
  <2>4. G \in [D -> D] /\ M \in [D -> Nat]
    BY <1>4, <2>3
  <2>5. ASSUME NEW v \in D PROVE G[v] = v \/ M[G[v]] < M[v]
    <3>1. StepMan(s, v) \in D /\ (StepMan(s, v).i = v.i + 1 \/ StepMan(s, v) = v)
      BY <1>4
    <3>2. v.i \in Int /\ N \in Int
      BY <1>1, <1>3
    <3> QED
      BY <3>1, <3>2
  <2> QED
    BY <2>2, <2>4, <2>5
<1>p. PICK f : EndsAs(N, D, G, w0, f)
  <2> HIDE DEF D, G, M, w0
  <2> QED
    BY <1>1, <1>2, <1>5, LoopRule
<1>6. /\ f \in [0..N -> D] /\ f[0] = w0 /\ \A d \in 1..N : f[d] = G[f[d - 1]]
      /\ f[N] \in D /\ G[f[N]] = f[N]
      /\ \A z : Follows(N, D, G, z) /\ z[0] = w0 => z[N] = f[N]
  BY <1>p DEF EndsAs
<1>7. g[N] = f[N]
  <2>1. f = [d \in 0..N |-> IF d = 0 THEN w0 ELSE StepMan(s, f[d - 1])]
    <3>1. \A d \in 1..N : d - 1 \in 0..N
      BY <1>1
    <3>2. \A d \in 1..N : f[d] = StepMan(s, f[d - 1])
      BY <1>6, <3>1
    <3> HIDE DEF D
    <3> QED
      BY <1>6, <3>2, <1>1
  <2>2. g = [d \in 0..N |-> IF d = 0 THEN w0 ELSE StepMan(s, g[d - 1])]
    BY <2>1, <1>0 DEF LoopMan
  <2>3. g[0] = w0 /\ \A d \in 1..N : g[d] = StepMan(s, g[d - 1])
    BY <2>2, <1>1
  <2>4. Follows(N, D, G, g)
    BY <2>3 DEF Follows
  <2> HIDE DEF D, G, g
  <2> QED
    BY <1>6, <2>3, <2>4
<1>8. PICK v : v = f[N]
  OBVIOUS
<1>9. v \in D /\ StepMan(s, v) = v
  BY <1>6, <1>8
<1>10. v.i = N
  <2>1. v.i \in 1..N
    BY <1>3, <1>9
  <2>2. ~ (v.i = v.i + 1)
    BY <2>1
  <2> HIDE DEF D
  <2> QED
    BY <2>1, <2>2, <1>1, <1>4, <1>9
<1>11. longestPalindromeEx2(s)
         = SubSeq(s, (v.center - v.len) \div 2 + 1, (v.center - v.len) \div 2 + v.len - 1)
  <2>1. PICK z : z = g[2 * Len(s) + 2]
    BY SMTT(30)
  <2>2. longestPalindromeEx2(s)
          = SubSeq(s, (z.center - z.len) \div 2 + 1, (z.center - z.len) \div 2 + z.len - 1)
    BY <2>1, Zenon DEF longestPalindromeEx2, While, StepMan, StartMan, LoopMan, Grown, Marked
  <2> HIDE DEF g
  <2> QED
    BY <2>1, <2>2, <1>0, <1>7, <1>8
<1> HIDE DEF g, G, M, w0
<1>12. PICK c, r, p, l : c = v.center /\ r = v.len /\ p = v.p /\ l = (c - r) \div 2
  OBVIOUS
<1>13. c \in 1..N - 1 /\ r = p[c] /\ \A k \in 1..N - 1 : Rad(s, k, p[k]) /\ p[k] <= r
  <2>1. Radii(s, N, p, v.mx, v.id, r, c) /\ N # 1
    BY <1>1, <1>9, <1>10, <1>12 DEF StatesMan
  <2> QED
    BY <2>1 DEF Radii
<1>14. PICK L : L = r - 1
  OBVIOUS
<1>15. c \in 1..2 * n + 1 /\ Rad(s, c, r) /\ N - 1 = 2 * n + 1
  <2>1. N - 1 = 2 * n + 1
    BY <1>0, <1>1
  <2> QED
    BY <2>1, <1>13
<1>16. l \in Nat /\ l + r - 1 \in l..n /\ Pal(s, l, l + r - 1)
  BY <1>0, <1>12, <1>15, RadPal
<1>17. r \in Nat /\ L \in 0..n /\ l \in 0..n - L /\ l + L = l + r - 1
  <2>1. r \in 1..c
    BY <1>15 DEF Rad
  <2>2. r \in Nat
    BY <2>1, <1>15
  <2> QED
    BY <2>1, <2>2, <1>1, <1>14, <1>16
<1>18. ASSUME NEW y \in 0..n, NEW x \in 0..y, Pal(s, x, y) PROVE y - x <= L
  <2>1. PICK k : k = x + y + 1
    OBVIOUS
  <2>2. k \in 1..N - 1 /\ y - x \in Int
    BY <2>1, <1>0, <1>1
  <2>3. Rad(s, k, p[k]) /\ p[k] <= r
    BY <2>2, <1>13
  <2>4. y - x < p[k] /\ p[k] \in 1..k
    <3>1. y - x < p[k]
      BY <2>1, <2>3, <1>0, <1>18, PalRad
    <3>2. p[k] \in 1..k
      BY <2>3 DEF Rad
    <3> QED
      BY <3>1, <3>2
  <2> QED
    BY <2>2, <2>3, <2>4, <1>14, <1>17
<1>19. MostPal(s, L)
  <2>1. \E x \in 0..n - L : Pal(s, x, x + L)
    BY <1>16, <1>17
  <2> QED
    BY <2>1, <1>0, <1>18 DEF MostPal
<1>20. longestPalindromeEx2(s) = SubSeq(s, l + 1, l + L)
  BY <1>11, <1>12, <1>17
<1>21. Pal(s, l, l + L)
  BY <1>16, <1>17
<1> QED
  BY <1>0, <1>17, <1>19, <1>20, <1>21, LongestPal

-----------------------------------------------------------------------------
(* test76.                                                                 *)

\* Fewer places have fewer hits.
LEMMA HitsIn ==
  ASSUME NEW s, NEW I, NEW J, I \subseteq J, IsFiniteSet(J), NEW X
  PROVE  Hits(s, I, X) <= Hits(s, J, X) /\ Hits(s, I, X) \in Nat /\ Hits(s, J, X) \in Nat
<1>1. PICK H, K : H = {j \in I : s[j] \in X} /\ K = {j \in J : s[j] \in X}
  OBVIOUS
<1>2. H \subseteq K /\ K \subseteq J
  BY <1>1
<1>3. IsFiniteSet(K)
  BY <1>2, FS_Subset
<1>4. IsFiniteSet(H) /\ Cardinality(H) <= Cardinality(K)
  BY <1>2, <1>3, FS_Subset
<1>5. Cardinality(H) \in Nat /\ Cardinality(K) \in Nat
  BY <1>3, <1>4, FS_CardinalityType
<1>6. Hits(s, I, X) = Cardinality(H) /\ Hits(s, J, X) = Cardinality(K)
  BY <1>1 DEF Hits
<1> QED
  BY <1>4, <1>5, <1>6

\* Hits of no places, and of some.
LEMMA HitsNone ==
  ASSUME NEW s, NEW U, IsFiniteSet(U), NEW X
  PROVE  Hits(s, U, X) = 0 <=> \A k \in U : s[k] \notin X
<1>1. PICK H : H = {j \in U : s[j] \in X}
  OBVIOUS
<1>2. H \subseteq U
  BY <1>1
<1>3. IsFiniteSet(H)
  BY <1>2, FS_Subset
<1>4. Cardinality(H) = 0 <=> H = {}
  BY <1>3, FS_EmptySet
<1>5. H = {} <=> \A k \in U : s[k] \notin X
  BY <1>1
<1>6. Hits(s, U, X) = Cardinality(H)
  BY <1>1 DEF Hits
<1> QED
  BY <1>4, <1>5, <1>6

\* A window at both ends.
LEMMA HitsEnds ==
  ASSUME NEW s, NEW l \in Nat, NEW r \in Nat, NEW X
  PROVE  /\ l <= r => Hits(s, l + 1..r + 1, X) = Hits(s, l + 1..r, X) + Hit(s, r + 1, X)
         /\ l < r => Hits(s, l + 1..r, X) = Hits(s, (l + 1) + 1..r, X) + Hit(s, l + 1, X)
         /\ Hits(s, l + 1..r, X) \in Nat
<1>1. IsFiniteSet(l + 1..r) /\ IsFiniteSet((l + 1) + 1..r)
  BY FS_Interval
<1>2. ASSUME l <= r PROVE Hits(s, l + 1..r + 1, X) = Hits(s, l + 1..r, X) + Hit(s, r + 1, X)
  <2>1. r + 1 \notin l + 1..r /\ (l + 1..r) \cup {r + 1} = l + 1..r + 1
    BY <1>2
  <2>2. Hits(s, (l + 1..r) \cup {r + 1}, X) = Hits(s, l + 1..r, X) + Hit(s, r + 1, X)
    BY <2>1, <1>1, HitsMore
  <2> QED
    BY <2>1, <2>2
<1>3. ASSUME l < r PROVE Hits(s, l + 1..r, X) = Hits(s, (l + 1) + 1..r, X) + Hit(s, l + 1, X)
  <2>1. l + 1 \notin (l + 1) + 1..r /\ ((l + 1) + 1..r) \cup {l + 1} = l + 1..r
    BY <1>3
  <2>2. Hits(s, ((l + 1) + 1..r) \cup {l + 1}, X) = Hits(s, (l + 1) + 1..r, X) + Hit(s, l + 1, X)
    BY <2>1, <1>1, HitsMore
  <2> QED
    BY <2>1, <2>2
<1>4. Hits(s, l + 1..r, X) \in Nat
  BY <1>1, HitsType
<1> QED
  BY <1>2, <1>3, <1>4

\* Count is about all places; in a part of s, about the places of s it comes from.
LEMMA CountIs ==
  ASSUME NEW s \in Seq(Element), NEW l \in 0..Len(s), NEW r \in l..Len(s), NEW x
  PROVE  /\ Count(SubSeq(s, l + 1, r), x) = Hits(s, l + 1..r, {x})
         /\ Count(s, x) = Hits(s, 1..Len(s), {x})
<1>0. PICK n, y, m, X : n = Len(s) /\ y = SubSeq(s, l + 1, r) /\ m = r - l /\ X = {x}
  OBVIOUS
<1>1. n \in Nat /\ l \in Nat /\ r \in Nat /\ m \in Nat /\ l + m = r /\ DOMAIN s = 1..n
  BY <1>0, Numbers
<1>2. y \in Seq(Element) /\ Len(y) = m /\ \A k \in 1..m : y[k] = s[l + k]
  BY <1>0, PartIs
<1>3. DOMAIN y = 1..m
  BY <1>2
<1>4. Count(y, x) = Hits(y, 1..m, X) /\ Count(s, x) = Hits(s, 1..n, X)
  <2>1. {k \in DOMAIN y : y[k] = x} = {k \in 1..m : y[k] \in X}
    BY <1>0, <1>3
  <2>2. {k \in DOMAIN s : s[k] = x} = {k \in 1..n : s[k] \in X}
    BY <1>0, <1>1
  <2> QED
    BY <2>1, <2>2 DEF Count, Hits
<1>5. PICK W : W = {d \in 0..m : Hits(y, 1..d, X) # Hits(s, l + 1..l + d, X)}
  OBVIOUS
<1>6. CASE W # {}
  <2>1. PICK d \in W : \A k \in W : d <= k
    <3>1. W \subseteq 0..m
      BY <1>5
    <3> QED
      BY <3>1, <1>1, <1>6, LeastNumber
  <2>2. d \in 0..m /\ Hits(y, 1..d, X) # Hits(s, l + 1..l + d, X)
    BY <1>5
  <2>3. CASE d = 0
    <3>1. 1..0 = {} /\ l + 1..l + 0 = {}
      BY <1>1
    <3>2. Hits(y, {}, X) = 0 /\ Hits(s, {}, X) = 0
      BY HitsNone, FS_EmptySet
    <3> QED
      BY <3>1, <3>2, <2>2, <2>3
  <2>4. CASE d # 0
    <3>1. PICK e : e = d - 1
      OBVIOUS
    <3>2. /\ e \in 0..m /\ e \in Nat /\ ~ (d <= e) /\ e + 1 = d /\ l + e \in Nat /\ l <= l + e
          /\ l + e + 1 = l + d /\ d \in 1..m
      BY <3>1, <2>2, <2>4, <1>1
    <3>3. Hits(y, 1..e, X) = Hits(s, l + 1..l + e, X)
      BY <3>2, <2>1, <1>5
    <3>4. Hits(y, 1..d, X) = Hits(y, 1..e, X) + Hit(y, d, X)
      <4>1. d \notin 1..e /\ (1..e) \cup {d} = 1..d
        BY <3>2
      <4>2. IsFiniteSet(1..e)
        BY <3>2, FS_Interval
      <4>3. Hits(y, (1..e) \cup {d}, X) = Hits(y, 1..e, X) + Hit(y, d, X)
        BY <4>1, <4>2, HitsMore
      <4> QED
        BY <4>1, <4>3
    <3>5. Hits(s, l + 1..l + d, X) = Hits(s, l + 1..l + e, X) + Hit(s, l + d, X)
      <4>1. Hits(s, l + 1..(l + e) + 1, X) = Hits(s, l + 1..l + e, X) + Hit(s, (l + e) + 1, X)
        BY <3>2, <1>1, HitsEnds
      <4> QED
        BY <4>1, <3>2
    <3>6. Hit(y, d, X) = Hit(s, l + d, X)
      BY <3>2, <1>2 DEF Hit
    <3> QED
      BY <3>3, <3>4, <3>5, <3>6, <2>2
  <2> QED
    BY <2>3, <2>4
<1>7. CASE W = {}
  <2>1. m \in 0..m
    BY <1>1
  <2>2. Hits(y, 1..m, X) = Hits(s, l + 1..l + m, X)
    BY <2>1, <1>5, <1>7
  <2> QED
    BY <2>2, <1>0, <1>1, <1>4
<1> QED
  BY <1>6, <1>7

\* The characters of t; whether a window of s has them all; how many of each are still
\* needed; and the places U of t that the window has none for.
Flag(t) == {t[k] : k \in DOMAIN t}
Cover(s, t, l, r) == \A x \in Element : Hits(t, 1..Len(t), {x}) <= Hits(s, l + 1..r, {x})
NeedIs(s, t, l, r, need) ==
  /\ need \in [Element -> Int]
  /\ \A x \in Flag(t) : need[x] = Hits(t, 1..Len(t), {x}) - Hits(s, l + 1..r, {x})
Gap(t, U, need, cnt) ==
  /\ U \subseteq 1..Len(t) /\ Cardinality(U) = Len(t) - cnt
  /\ \A x \in Flag(t) : Hits(t, U, {x}) = IF need[x] > 0 THEN need[x] ELSE 0

\* A window inside another that does not cover t does not.
LEMMA CoverIn ==
  ASSUME NEW s, NEW t, NEW l \in Nat, NEW r \in Nat, NEW i \in l..r, Cover(s, t, i, r), Len(t) \in Nat
  PROVE  Cover(s, t, l, r)
<1>1. i + 1..r \subseteq l + 1..r /\ IsFiniteSet(l + 1..r) /\ IsFiniteSet(1..Len(t))
  <2>1. i + 1..r \subseteq l + 1..r /\ l + 1 \in Int /\ r \in Int /\ 1 \in Int /\ Len(t) \in Int
    OBVIOUS
  <2>2. IsFiniteSet(l + 1..r)
    BY <2>1, FS_Interval
  <2>3. IsFiniteSet(1..Len(t))
    BY <2>1, FS_Interval
  <2> QED
    BY <2>1, <2>2, <2>3
<1>2. ASSUME NEW x \in Element PROVE Hits(t, 1..Len(t), {x}) <= Hits(s, l + 1..r, {x})
  <2>1. Hits(s, i + 1..r, {x}) <= Hits(s, l + 1..r, {x}) /\ Hits(s, i + 1..r, {x}) \in Nat /\ Hits(s, l + 1..r, {x}) \in Nat
    BY <1>1, HitsIn
  <2>2. Hits(t, 1..Len(t), {x}) <= Hits(s, i + 1..r, {x})
    BY DEF Cover
  <2>3. Hits(t, 1..Len(t), {x}) \in Nat
    BY <1>1, HitsType
  <2> QED
    BY <2>1, <2>2, <2>3
<1> QED
  BY <1>2 DEF Cover

\* A window covers t if there is no gap.
LEMMA CoverIs ==
  ASSUME NEW s, NEW t \in Seq(Element), NEW l \in Nat, NEW r \in Nat, NEW need, NEW cnt \in Int, NEW U,
         NeedIs(s, t, l, r, need), Gap(t, U, need, cnt)
  PROVE  /\ cnt = Len(t) <=> Cover(s, t, l, r)
         /\ cnt = Len(t) => \A x \in Flag(t) : need[x] <= 0
<1>0. PICK m : m = Len(t)
  OBVIOUS
<1>1. m \in Nat /\ DOMAIN t = 1..m /\ IsFiniteSet(1..m) /\ Flag(t) \subseteq Element
  <2>1. m \in Nat /\ DOMAIN t = 1..m /\ \A k \in 1..m : t[k] \in Element
    BY <1>0, Numbers
  <2>2. Flag(t) \subseteq Element
    BY <2>1 DEF Flag
  <2> QED
    BY <2>1, <2>2, FS_Interval
<1>2. /\ need \in [Element -> Int] /\ \A x \in Flag(t) : need[x] = Hits(t, 1..m, {x}) - Hits(s, l + 1..r, {x})
      /\ U \subseteq 1..m /\ Cardinality(U) = m - cnt
      /\ \A x \in Flag(t) : Hits(t, U, {x}) = IF need[x] > 0 THEN need[x] ELSE 0
  BY <1>0 DEF NeedIs, Gap
<1>3. IsFiniteSet(U) /\ (Cardinality(U) = 0 <=> U = {})
  <2>1. IsFiniteSet(U)
    BY <1>1, <1>2, FS_Subset
  <2> QED
    BY <2>1, FS_EmptySet
<1>4. cnt = m <=> U = {}
  <2>1. cnt = m <=> m - cnt = 0
    BY <1>1
  <2> QED
    BY <2>1, <1>2, <1>3
<1>5. \A x : Hits(t, 1..m, {x}) \in Nat /\ Hits(s, l + 1..r, {x}) \in Nat
  BY <1>1, HitsType, HitsEnds
<1>6. U = {} <=> \A x \in Flag(t) : need[x] <= 0
  <2>1. ASSUME U = {}, NEW x \in Flag(t) PROVE need[x] <= 0
    <3>1. Hits(t, U, {x}) = 0
      BY <2>1, <1>3, HitsNone
    <3>2. need[x] \in Int
      BY <1>1, <1>2
    <3> QED
      BY <3>1, <3>2, <1>2
  <2>2. ASSUME \A x \in Flag(t) : need[x] <= 0, NEW k \in U PROVE FALSE
    <3>1. PICK x : x = t[k]
      OBVIOUS
    <3>2. x \in Flag(t)
      BY <3>1, <1>1, <1>2 DEF Flag
    <3>3. need[x] \in Int /\ need[x] <= 0
      BY <3>2, <2>2, <1>1, <1>2
    <3>4. Hits(t, U, {x}) = 0
      BY <3>2, <3>3, <1>2, SMTT(30)
    <3> QED
      BY <3>1, <3>4, <1>3, HitsNone
  <2> QED
    BY <2>1, <2>2
<1>7. (\A x \in Flag(t) : need[x] <= 0) <=> Cover(s, t, l, r)
  <2>1. ASSUME NEW x \in Element, x \notin Flag(t) PROVE Hits(t, 1..m, {x}) <= Hits(s, l + 1..r, {x})
    <3>1. \A k \in 1..m : t[k] \notin {x}
      BY <2>1, <1>1 DEF Flag
    <3>2. Hits(t, 1..m, {x}) = 0
      BY <3>1, <1>1, HitsNone
    <3>3. PICK h : h = Hits(s, l + 1..r, {x})
      OBVIOUS
    <3>4. h \in Nat
      BY <3>3, <1>5
    <3>5. 0 <= h
      BY <3>4
    <3> QED
      BY <3>2, <3>3, <3>5
  <2>2. ASSUME NEW x \in Flag(t) PROVE need[x] <= 0 <=> Hits(t, 1..m, {x}) <= Hits(s, l + 1..r, {x})
    <3>1. PICK h, g : h = Hits(s, l + 1..r, {x}) /\ g = Hits(t, 1..m, {x})
      OBVIOUS
    <3>2. h \in Nat /\ g \in Nat /\ need[x] = g - h
      BY <3>1, <2>2, <1>2, <1>5
    <3>3. need[x] <= 0 <=> g <= h
      BY <3>2
    <3> QED
      BY <3>1, <3>3
  <2> QED
    BY <2>1, <2>2, <1>0, <1>1 DEF Cover
<1> QED
  BY <1>0, <1>4, <1>6, <1>7

\* The characters of t are characters.
LEMMA FlagIn ==
  ASSUME NEW t \in Seq(Element)
  PROVE  Len(t) \in Nat /\ IsFiniteSet(1..Len(t)) /\ Flag(t) = {t[k] : k \in 1..Len(t)} /\ Flag(t) \subseteq Element
<1>1. Len(t) \in Nat /\ DOMAIN t = 1..Len(t) /\ \A k \in 1..Len(t) : t[k] \in Element
  BY Numbers
<1>2. IsFiniteSet(1..Len(t))
  BY <1>1, FS_Interval
<1>3. Flag(t) = {t[k] : k \in 1..Len(t)}
  BY <1>1 DEF Flag
<1> QED
  BY <1>1, <1>2, <1>3

\* A character that the window takes fills a gap, if one of it is there.
LEMMA GapTake ==
  ASSUME NEW t \in Seq(Element), NEW x \in Flag(t), NEW need \in [Element -> Int], NEW cnt \in Int,
         NEW U, Gap(t, U, need, cnt), NEW need1, need1 = [need EXCEPT ![x] = need[x] - 1],
         NEW cnt1, cnt1 = IF need[x] - 1 >= 0 THEN cnt + 1 ELSE cnt
  PROVE  \E V : Gap(t, V, need1, cnt1)
<1>0. PICK m, h : m = Len(t) /\ h = need[x]
  OBVIOUS
<1>1. m \in Nat /\ IsFiniteSet(1..m) /\ Flag(t) \subseteq Element /\ x \in Element /\ h \in Int
  BY <1>0, FlagIn
<1>2. /\ U \subseteq 1..m /\ Cardinality(U) = m - cnt
      /\ \A y \in Flag(t) : Hits(t, U, {y}) = IF need[y] > 0 THEN need[y] ELSE 0
  BY <1>0 DEF Gap
<1>3. IsFiniteSet(U)
  BY <1>1, <1>2, FS_Subset
<1>4. need1[x] = h - 1 /\ \A y \in Flag(t) : y # x => need1[y] = need[y]
  BY <1>0, <1>1
<1>5. CASE h >= 1
  <2>1. PICK k \in U : t[k] = x
    <3>1. Hits(t, U, {x}) # 0
      <4>1. Hits(t, U, {x}) = h /\ h # 0
        BY <1>0, <1>1, <1>2, <1>5
      <4> QED
        BY <4>1
    <3> QED
      BY <3>1, <1>3, HitsNone
  <2>2. PICK V : V = U \ {k}
    OBVIOUS
  <2>3. k \notin V /\ V \cup {k} = U /\ V \subseteq U
    BY <2>2
  <2>4. IsFiniteSet(V)
    BY <2>3, <1>3, FS_Subset
  <2>5. Cardinality(U) = Cardinality(V) + 1 /\ Cardinality(V) \in Nat
    BY <2>3, <2>4, FS_AddElement, FS_CardinalityType
  <2>6. cnt1 = cnt + 1 /\ Cardinality(V) = m - cnt1
    <3>1. cnt1 = cnt + 1
      BY <1>0, <1>1, <1>5
    <3> QED
      BY <3>1, <2>5, <1>1, <1>2
  <2>7. ASSUME NEW y \in Flag(t) PROVE Hits(t, V, {y}) = IF need1[y] > 0 THEN need1[y] ELSE 0
    <3>1. PICK p, q : p = Hits(t, U, {y}) /\ q = Hits(t, V, {y})
      OBVIOUS
    <3>2. p = q + Hit(t, k, {y}) /\ q \in Nat /\ p \in Nat
      <4>1. Hits(t, V \cup {k}, {y}) = Hits(t, V, {y}) + Hit(t, k, {y})
        BY <2>3, <2>4, HitsMore
      <4>2. Hits(t, V, {y}) \in Nat /\ Hits(t, U, {y}) \in Nat
        BY <2>4, <1>3, HitsType
      <4> QED
        BY <4>1, <4>2, <3>1, <2>3
    <3>3. CASE y = x
      <4>1. Hit(t, k, {y}) = 1
        BY <3>3, <2>1 DEF Hit
      <4>2. p = h
        BY <3>1, <3>3, <1>0, <1>1, <1>2, <1>5, SMTT(30)
      <4>3. q = h - 1
        BY <4>1, <4>2, <3>2, <1>1
      <4> QED
        BY <4>3, <3>1, <3>3, <1>1, <1>4, <1>5
    <3>4. CASE y # x
      <4>1. Hit(t, k, {y}) = 0
        BY <3>4, <2>1 DEF Hit
      <4>2. q = p
        BY <4>1, <3>2
      <4> QED
        BY <4>2, <3>1, <3>4, <1>2, <1>4
    <3> QED
      BY <3>3, <3>4
  <2>8. V \subseteq 1..m
    BY <2>3, <1>2
  <2> QED
    BY <2>6, <2>7, <2>8, <1>0 DEF Gap
<1>6. CASE ~ (h >= 1)
  <2>1. cnt1 = cnt
    BY <1>0, <1>1, <1>6
  <2>2. ASSUME NEW y \in Flag(t) PROVE Hits(t, U, {y}) = IF need1[y] > 0 THEN need1[y] ELSE 0
    <3>1. CASE y = x
      <4>1. Hits(t, U, {y}) = 0
        BY <3>1, <1>0, <1>1, <1>2, <1>6
      <4>2. need1[y] = h - 1 /\ ~ (h - 1 > 0)
        BY <3>1, <1>1, <1>4, <1>6
      <4> QED
        BY <4>1, <4>2
    <3>2. CASE y # x
      BY <3>2, <1>2, <1>4
    <3> QED
      BY <3>1, <3>2
  <2> QED
    BY <2>1, <2>2, <1>0, <1>2 DEF Gap
<1> QED
  BY <1>5, <1>6

\* A character that a window without a gap drops leaves at most one.
LEMMA GapDrop ==
  ASSUME NEW t \in Seq(Element), NEW x \in Flag(t), NEW need \in [Element -> Int],
         \A y \in Flag(t) : need[y] <= 0, NEW need1, need1 = [need EXCEPT ![x] = need[x] + 1],
         NEW cnt1, cnt1 = IF need[x] + 1 > 0 THEN Len(t) - 1 ELSE Len(t)
  PROVE  \E V : Gap(t, V, need1, cnt1)
<1>0. PICK m, h : m = Len(t) /\ h = need[x]
  OBVIOUS
<1>1. /\ m \in Nat /\ Flag(t) = {t[k] : k \in 1..m} /\ Flag(t) \subseteq Element /\ x \in Element
      /\ h \in Int /\ h <= 0 /\ \A y \in Flag(t) : need[y] \in Int /\ ~ (need[y] > 0)
  <2>1. m \in Nat /\ Flag(t) = {t[k] : k \in 1..m} /\ Flag(t) \subseteq Element
    BY <1>0, FlagIn
  <2> QED
    BY <2>1, <1>0
<1>2. need1[x] = h + 1 /\ \A y \in Flag(t) : y # x => need1[y] = need[y]
  BY <1>0, <1>1
<1>3. IsFiniteSet({}) /\ Cardinality({}) = 0 /\ \A X : Hits(t, {}, X) = 0
  <2>1. IsFiniteSet({}) /\ Cardinality({}) = 0
    BY FS_EmptySet
  <2> QED
    BY <2>1, HitsNone
<1>4. CASE h = 0
  <2>1. PICK k \in 1..m : t[k] = x
    BY <1>1
  <2>2. IsFiniteSet({k}) /\ Cardinality({k}) = 1
    BY FS_Singleton
  <2>3. cnt1 = m - 1 /\ 1 = m - cnt1
    BY <1>0, <1>1, <1>4
  <2>4. ASSUME NEW y \in Flag(t) PROVE Hits(t, {k}, {y}) = IF need1[y] > 0 THEN need1[y] ELSE 0
    <3>1. Hits(t, {k}, {y}) = Hit(t, k, {y})
      <4>1. Hits(t, {} \cup {k}, {y}) = Hits(t, {}, {y}) + Hit(t, k, {y})
        BY <1>3, HitsMore
      <4>2. {} \cup {k} = {k}
        OBVIOUS
      <4>3. Hits(t, {k}, {y}) = 0 + Hit(t, k, {y})
        BY <4>1, <4>2, <1>3
      <4>4. Hit(t, k, {y}) \in Int
        BY DEF Hit
      <4> QED
        BY <4>3, <4>4
    <3>2. CASE y = x
      <4>1. Hit(t, k, {y}) = 1
        BY <3>2, <2>1 DEF Hit
      <4> QED
        BY <4>1, <3>1, <3>2, <1>2, <1>4
    <3>3. CASE y # x
      <4>1. Hit(t, k, {y}) = 0
        BY <3>3, <2>1 DEF Hit
      <4> QED
        BY <4>1, <3>1, <3>3, <1>1, <1>2
    <3> QED
      BY <3>2, <3>3
  <2>5. {k} \subseteq 1..m
    OBVIOUS
  <2> QED
    BY <2>2, <2>3, <2>4, <2>5, <1>0 DEF Gap
<1>5. CASE h # 0
  <2>1. cnt1 = m /\ ~ (h + 1 > 0) /\ 0 = m - cnt1
    BY <1>0, <1>1, <1>5
  <2>2. ASSUME NEW y \in Flag(t) PROVE Hits(t, {}, {y}) = IF need1[y] > 0 THEN need1[y] ELSE 0
    <3>1. ~ (need1[y] > 0)
      BY <2>1, <1>1, <1>2
    <3> QED
      BY <3>1, <1>3
  <2> QED
    BY <2>1, <2>2, <1>0, <1>3 DEF Gap
<1> QED
  BY <1>4, <1>5

\* What is needed after the window takes a character at its end, and
LEMMA NeedTake ==
  ASSUME NEW s, NEW t \in Seq(Element), NEW l \in Nat, NEW r \in Nat, l <= r, NEW need,
         NeedIs(s, t, l, r, need), NEW x, x = s[r + 1]
  PROVE  /\ x \in Flag(t) => NeedIs(s, t, l, r + 1, [need EXCEPT ![x] = need[x] - 1])
         /\ x \notin Flag(t) => NeedIs(s, t, l, r + 1, need)
<1>1. Flag(t) \subseteq Element /\ IsFiniteSet(1..Len(t))
  BY FlagIn
<1>2. need \in [Element -> Int] /\ \A y \in Flag(t) : need[y] = Hits(t, 1..Len(t), {y}) - Hits(s, l + 1..r, {y})
  BY DEF NeedIs
<1>3. ASSUME NEW y \in Flag(t)
      PROVE  Hits(t, 1..Len(t), {y}) - Hits(s, l + 1..r + 1, {y}) = IF y = x THEN need[y] - 1 ELSE need[y]
  <2>1. PICK p, q, u : p = Hits(t, 1..Len(t), {y}) /\ q = Hits(s, l + 1..r, {y}) /\ u = Hits(s, l + 1..r + 1, {y})
    OBVIOUS
  <2>2. p \in Nat /\ q \in Nat /\ u = q + Hit(s, r + 1, {y})
    <3>1. p \in Nat
      BY <2>1, <1>1, HitsType
    <3>2. q \in Nat /\ u = q + Hit(s, r + 1, {y})
      BY <2>1, HitsEnds
    <3> QED
      BY <3>1, <3>2
  <2>3. Hit(s, r + 1, {y}) = IF y = x THEN 1 ELSE 0
    BY DEF Hit
  <2>4. need[y] = p - q
    BY <2>1, <1>2
  <2>5. p - u = IF y = x THEN need[y] - 1 ELSE need[y]
    BY <2>2, <2>3, <2>4
  <2> QED
    BY <2>1, <2>5
<1>4. ASSUME x \in Flag(t) PROVE NeedIs(s, t, l, r + 1, [need EXCEPT ![x] = need[x] - 1])
  <2>1. PICK v : v = [need EXCEPT ![x] = need[x] - 1]
    OBVIOUS
  <2>2. v \in [Element -> Int] /\ v[x] = need[x] - 1 /\ \A y \in Flag(t) : y # x => v[y] = need[y]
    BY <2>1, <1>1, <1>2, <1>4
  <2>3. \A y \in Flag(t) : v[y] = Hits(t, 1..Len(t), {y}) - Hits(s, l + 1..r + 1, {y})
    BY <2>2, <1>3
  <2> QED
    BY <2>1, <2>2, <2>3 DEF NeedIs
<1>5. ASSUME x \notin Flag(t) PROVE NeedIs(s, t, l, r + 1, need)
  BY <1>2, <1>3, <1>5 DEF NeedIs
<1> QED
  BY <1>4, <1>5

\* drops one at its start.
LEMMA NeedDrop ==
  ASSUME NEW s, NEW t \in Seq(Element), NEW l \in Nat, NEW r \in Nat, l < r, NEW need,
         NeedIs(s, t, l, r, need), NEW x, x = s[l + 1]
  PROVE  /\ x \in Flag(t) => NeedIs(s, t, l + 1, r, [need EXCEPT ![x] = need[x] + 1])
         /\ x \notin Flag(t) => NeedIs(s, t, l + 1, r, need)
<1>1. Flag(t) \subseteq Element /\ IsFiniteSet(1..Len(t))
  BY FlagIn
<1>2. need \in [Element -> Int] /\ \A y \in Flag(t) : need[y] = Hits(t, 1..Len(t), {y}) - Hits(s, l + 1..r, {y})
  BY DEF NeedIs
<1>3. ASSUME NEW y \in Flag(t)
      PROVE  Hits(t, 1..Len(t), {y}) - Hits(s, (l + 1) + 1..r, {y}) = IF y = x THEN need[y] + 1 ELSE need[y]
  <2>1. PICK p, q, u : /\ p = Hits(t, 1..Len(t), {y}) /\ q = Hits(s, l + 1..r, {y})
                       /\ u = Hits(s, (l + 1) + 1..r, {y})
    OBVIOUS
  <2>2. p \in Nat /\ u \in Nat /\ q = u + Hit(s, l + 1, {y})
    <3>1. p \in Nat
      BY <2>1, <1>1, HitsType
    <3>2. q = u + Hit(s, l + 1, {y})
      BY <2>1, HitsEnds
    <3>3. u \in Nat
      <4>1. IsFiniteSet((l + 1) + 1..r)
        BY FS_Interval
      <4> QED
        BY <4>1, <2>1, HitsType
    <3> QED
      BY <3>1, <3>2, <3>3
  <2>3. Hit(s, l + 1, {y}) = IF y = x THEN 1 ELSE 0
    BY DEF Hit
  <2>4. need[y] = p - q
    BY <2>1, <1>2
  <2>5. p - u = IF y = x THEN need[y] + 1 ELSE need[y]
    BY <2>2, <2>3, <2>4
  <2> QED
    BY <2>1, <2>5
<1>4. ASSUME x \in Flag(t) PROVE NeedIs(s, t, l + 1, r, [need EXCEPT ![x] = need[x] + 1])
  <2>1. PICK v : v = [need EXCEPT ![x] = need[x] + 1]
    OBVIOUS
  <2>2. v \in [Element -> Int] /\ v[x] = need[x] + 1 /\ \A y \in Flag(t) : y # x => v[y] = need[y]
    BY <2>1, <1>1, <1>2, <1>4
  <2>3. \A y \in Flag(t) : v[y] = Hits(t, 1..Len(t), {y}) - Hits(s, (l + 1) + 1..r, {y})
    BY <2>2, <1>3
  <2> QED
    BY <2>1, <2>2, <2>3 DEF NeedIs
<1>5. ASSUME x \notin Flag(t) PROVE NeedIs(s, t, l + 1, r, need)
  BY <1>2, <1>3, <1>5 DEF NeedIs
<1> QED
  BY <1>4, <1>5

\* A window that covers t is not empty, and ends with a character of t if no shorter one does.
LEMMA CoverEnds ==
  ASSUME NEW s, NEW t \in Seq(Element), t # <<>>, NEW l \in Nat, NEW r \in Nat, Cover(s, t, l, r)
  PROVE  l < r /\ \A k \in Nat : r = k + 1 /\ s[r] \notin Flag(t) => Cover(s, t, l, k)
<1>0. PICK m : m = Len(t)
  OBVIOUS
<1>1. m \in Nat /\ m # 0 /\ IsFiniteSet(1..m) /\ Flag(t) = {t[k] : k \in 1..m} /\ Flag(t) \subseteq Element
  BY <1>0, FlagIn
<1>2. \A x \in Element : Hits(t, 1..m, {x}) <= Hits(s, l + 1..r, {x})
  BY <1>0 DEF Cover
<1>3. l < r
  <2>1. SUFFICES ASSUME ~ (l < r) PROVE FALSE
    OBVIOUS
  <2>2. PICK x : x = t[1]
    OBVIOUS
  <2>3. x \in Element /\ 1 \in 1..m
    BY <2>2, <1>1
  <2>4. l + 1..r = {}
    BY <2>1
  <2>5. Hits(s, {}, {x}) = 0
    BY HitsNone, FS_EmptySet
  <2>6. Hits(t, 1..m, {x}) \in Nat /\ Hits(t, 1..m, {x}) # 0
    <3>1. Hits(t, 1..m, {x}) \in Nat
      BY <1>1, HitsType
    <3>2. t[1] \in {x}
      BY <2>2
    <3> QED
      BY <3>1, <3>2, <2>3, <1>1, HitsNone
  <2>7. Hits(t, 1..m, {x}) <= 0
    BY <2>3, <2>4, <2>5, <1>2
  <2> QED
    BY <2>6, <2>7
<1>4. ASSUME NEW k \in Nat, r = k + 1, s[r] \notin Flag(t) PROVE Cover(s, t, l, k)
  <2>1. l <= k
    BY <1>3, <1>4
  <2>2. ASSUME NEW x \in Element PROVE Hits(t, 1..m, {x}) <= Hits(s, l + 1..k, {x})
    <3>1. PICK p, q : p = Hits(t, 1..m, {x}) /\ q = Hits(s, l + 1..k, {x})
      OBVIOUS
    <3>2. p \in Nat /\ q \in Nat
      <4>1. p \in Nat
        BY <3>1, <1>1, HitsType
      <4> QED
        BY <4>1, <3>1, HitsEnds
    <3>3. CASE x \in Flag(t)
      <4>1. Hit(s, k + 1, {x}) = 0
        BY <3>3, <1>4 DEF Hit
      <4>2. Hits(s, l + 1..k + 1, {x}) = q + Hit(s, k + 1, {x})
        BY <3>1, <2>1, HitsEnds
      <4>3. Hits(s, l + 1..r, {x}) = q
        BY <4>1, <4>2, <3>2, <1>4
      <4> QED
        BY <4>3, <3>1, <1>2
    <3>4. CASE x \notin Flag(t)
      <4>1. \A i \in 1..m : t[i] \notin {x}
        BY <3>4, <1>1
      <4>2. p = 0
        BY <4>1, <3>1, <1>1, HitsNone
      <4> QED
        BY <4>2, <3>1, <3>2
    <3> QED
      BY <3>3, <3>4
  <2> QED
    BY <2>2, <1>0 DEF Cover
<1> QED
  BY <1>3, <1>4

\* One turn of the inner loop of test76, the loop, and what it ends with.
StepShrink(t, s, w) ==
  IF w.cnt = Len(t)
  THEN LET x == At(s, w.l)  better == w.r - w.l + 1 < w.minsize IN
       [w EXCEPT !.minl = IF better THEN w.l ELSE w.minl,
                 !.minsize = IF better THEN w.r - w.l + 1 ELSE w.minsize,
                 !.need = IF x \in Flag(t) THEN [w.need EXCEPT ![x] = w.need[x] + 1] ELSE w.need,
                 !.cnt = IF x \in Flag(t) /\ w.need[x] + 1 > 0 THEN w.cnt - 1 ELSE w.cnt,
                 !.l = w.l + 1]
  ELSE w
LoopShrink(t, s, v) ==
  CHOOSE f : f = [k \in 0..Len(s) |-> IF k = 0 THEN v ELSE StepShrink(t, s, f[k - 1])]
Shrunk(t, s, v) == LoopShrink(t, s, v)[Len(s)]

\* The window of size m at a, of the ones that end at r or before, is the least that covers
\* t; there is none if m is more than s has.
Best(s, t, m, a0, r) ==
  /\ m = Len(s) + 1 \/ (a0 + m <= Len(s) /\ Cover(s, t, a0, a0 + m))
  /\ \A q \in 0..r : \A p \in 0..q : Cover(s, t, p, q) => m <= q - p
Types76(s) ==
  [l : 0..Len(s), r : 0..Len(s), cnt : Int, minsize : 1..Len(s) + 1, minl : 0..Len(s), need : [Element -> Int]]

\* The states of the inner loop: r is taken, and the starts before l are done with.
StatesShrink(t, s, r) ==
  {w \in Types76(s) :
     /\ w.r = r /\ w.l <= r + 1 /\ NeedIs(s, t, w.l, r + 1, w.need) /\ (\E U : Gap(t, U, w.need, w.cnt))
     /\ Best(s, t, w.minsize, w.minl, r)
     /\ \A p \in 0..w.l - 1 : w.minsize <= r + 1 - p}

\* A turn of the inner loop.
LEMMA TurnShrink ==
  ASSUME NEW s \in Seq(Element), NEW t \in Seq(Element), t # <<>>, NEW r \in 0..Len(s) - 1,
         NEW w \in StatesShrink(t, s, r)
  PROVE  /\ StepShrink(t, s, w) \in StatesShrink(t, s, r)
         /\ w.cnt = Len(t) <=> Cover(s, t, w.l, r + 1)
         /\ IF w.cnt = Len(t) THEN StepShrink(t, s, w).l = w.l + 1 ELSE StepShrink(t, s, w) = w
<1>0. PICK n, m, l, c, z, a0, need, u : /\ n = Len(s) /\ m = Len(t) /\ l = w.l /\ c = w.cnt /\ z = w.minsize
                                        /\ a0 = w.minl /\ need = w.need /\ u = StepShrink(t, s, w)
  OBVIOUS
<1>1. /\ n \in Nat /\ m \in Nat /\ r \in Nat /\ r < n /\ l \in 0..n /\ l <= r + 1 /\ l \in Nat /\ c \in Int
      /\ z \in 1..n + 1 /\ a0 \in 0..n /\ need \in [Element -> Int] /\ r + 1 \in Nat /\ r \in 0..n
      /\ w = [l |-> l, r |-> r, cnt |-> c, minsize |-> z, minl |-> a0, need |-> need]
      /\ NeedIs(s, t, l, r + 1, need) /\ Best(s, t, z, a0, r)
      /\ \A p \in 0..l - 1 : z <= r + 1 - p
  <2>1. n \in Nat /\ m \in Nat
    BY <1>0, Numbers
  <2>2. /\ w \in Types76(s) /\ w.r = r /\ w.l <= r + 1 /\ NeedIs(s, t, w.l, r + 1, w.need)
        /\ Best(s, t, w.minsize, w.minl, r)
        /\ \A p \in 0..w.l - 1 : w.minsize <= r + 1 - p
    BY DEF StatesShrink
  <2>3. /\ l \in 0..n /\ c \in Int /\ z \in 1..n + 1 /\ a0 \in 0..n /\ need \in [Element -> Int]
        /\ w = [l |-> l, r |-> r, cnt |-> c, minsize |-> z, minl |-> a0, need |-> need]
    BY <2>2, <1>0 DEF Types76
  <2>4. r \in Nat /\ r < n /\ r + 1 \in Nat /\ r \in 0..n
    BY <2>1, <1>0
  <2>5. l \in Nat
    BY <2>1, <2>3
  <2> QED
    BY <2>1, <2>2, <2>3, <2>4, <2>5, <1>0
<1>2. PICK U : Gap(t, U, need, c)
  BY <1>0 DEF StatesShrink
<1>3. (c = m <=> Cover(s, t, l, r + 1)) /\ (c = m => \A x \in Flag(t) : need[x] <= 0)
  BY <1>0, <1>1, <1>2, CoverIs
<1>4. CASE c = m
  <2>1. l < r + 1 /\ Cover(s, t, l, r + 1)
    BY <1>1, <1>3, <1>4, CoverEnds
  <2>2. PICK x, d : x = At(s, l) /\ d = r - l + 1
    OBVIOUS
  <2>3. /\ d \in 1..n + 1 /\ l + d = r + 1 /\ r + 1 - l = d /\ l + 1 \in 0..n /\ l + 1 <= r + 1 /\ x = s[l + 1]
        /\ r + 1 <= n
    <3>1. d \in 1..n + 1 /\ l + d = r + 1 /\ r + 1 - l = d /\ l + 1 \in 0..n /\ l + 1 <= r + 1 /\ r + 1 <= n
      BY <2>1, <2>2, <1>1
    <3>2. x = s[l + 1]
      BY <2>2 DEF At
    <3> QED
      BY <3>1, <3>2
  <2>4. PICK z1, a1, need1, c1 : /\ z1 = (IF d < z THEN d ELSE z) /\ a1 = (IF d < z THEN l ELSE a0)
                                 /\ need1 = (IF x \in Flag(t) THEN [need EXCEPT ![x] = need[x] + 1] ELSE need)
                                 /\ c1 = (IF x \in Flag(t) /\ need[x] + 1 > 0 THEN m - 1 ELSE m)
    OBVIOUS
  <2>5. u = [l |-> l + 1, r |-> r, cnt |-> c1, minsize |-> z1, minl |-> a1, need |-> need1]
    <3>1. w.cnt = Len(t) /\ u = StepShrink(t, s, w)
      BY <1>0, <1>4
    <3>2. u = [w EXCEPT !.minl = a1, !.minsize = z1, !.need = need1, !.cnt = c1, !.l = l + 1]
      <4>1. w.r - w.l + 1 = d /\ w.minsize = z /\ w.minl = a0 /\ w.need = need /\ w.l = l /\ w.cnt = m
        BY <2>2, <1>0, <1>1, <1>4
      <4> QED
        BY <3>1, <4>1, <2>2, <2>4 DEF StepShrink
    <3> QED
      BY <3>2, <1>1
  <2>6. NeedIs(s, t, l + 1, r + 1, need1)
    BY <2>1, <2>3, <2>4, <1>1, NeedDrop
  <2>7. \E V : Gap(t, V, need1, c1)
    <3>1. CASE x \in Flag(t)
      <4>1. need1 = [need EXCEPT ![x] = need[x] + 1] /\ c1 = IF need[x] + 1 > 0 THEN Len(t) - 1 ELSE Len(t)
        BY <3>1, <2>4, <1>0
      <4>2. need \in [Element -> Int] /\ \A y \in Flag(t) : need[y] <= 0
        BY <1>1, <1>3, <1>4
      <4> QED
        BY <3>1, <4>1, <4>2, GapDrop
    <3>2. CASE x \notin Flag(t)
      BY <3>2, <2>4, <1>2, <1>4
    <3> QED
      BY <3>1, <3>2
  <2>8. z1 <= z /\ z1 <= d /\ z1 \in 1..n + 1 /\ a1 \in 0..n
    BY <2>3, <2>4, <1>1, SMTT(30)
  <2>9. Best(s, t, z1, a1, r)
    <3>1. z1 = n + 1 \/ (a1 + z1 <= n /\ Cover(s, t, a1, a1 + z1))
      <4>1. z = n + 1 \/ (a0 + z <= n /\ Cover(s, t, a0, a0 + z))
        BY <1>0, <1>1 DEF Best
      <4>2. CASE d < z
        BY <4>2, <2>1, <2>3, <2>4
      <4>3. CASE ~ (d < z)
        BY <4>1, <4>3, <2>4
      <4> QED
        BY <4>2, <4>3
    <3>2. ASSUME NEW q \in 0..r, NEW p \in 0..q, Cover(s, t, p, q) PROVE z1 <= q - p
      <4>1. z <= q - p
        BY <3>2, <1>1 DEF Best
      <4> QED
        BY <4>1, <2>8, <1>1
    <3> QED
      BY <3>1, <3>2, <1>0 DEF Best
  <2>10. ASSUME NEW p \in 0..(l + 1) - 1 PROVE z1 <= r + 1 - p
    <3>1. CASE p = l
      BY <3>1, <2>3, <2>8
    <3>2. CASE p # l
      <4>1. p \in 0..l - 1 /\ p \in Int
        BY <3>2, <1>1
      <4>2. z <= r + 1 - p
        BY <4>1, <1>1
      <4> QED
        BY <4>1, <4>2, <2>8, <1>1
    <3> QED
      BY <3>1, <3>2
  <2>11. u \in Types76(s)
    <3>1. need1 \in [Element -> Int] /\ c1 \in Int
      <4>1. need1 \in [Element -> Int]
        BY <2>6 DEF NeedIs
      <4>2. c1 \in Int
        BY <2>4, <1>1
      <4> QED
        BY <4>1, <4>2
    <3> QED
      BY <3>1, <2>3, <2>5, <2>8, <1>0, <1>1 DEF Types76
  <2>12. u.l = l + 1 /\ u.r = r /\ u.cnt = c1 /\ u.minsize = z1 /\ u.minl = a1 /\ u.need = need1
    BY <2>5
  <2>13. u \in StatesShrink(t, s, r)
    BY <2>3, <2>6, <2>7, <2>9, <2>10, <2>11, <2>12, SMTT(30) DEF StatesShrink
  <2> QED
    BY <2>12, <2>13, <1>0, <1>3, <1>4
<1>5. CASE c # m
  <2>1. u = w
    BY <1>0, <1>5 DEF StepShrink
  <2> QED
    BY <2>1, <1>0, <1>3, <1>5, Zenon
<1> QED
  BY <1>4, <1>5

\* The inner loop ends when the window does not cover t.
LEMMA ShrunkIs ==
  ASSUME NEW s \in Seq(Element), NEW t \in Seq(Element), t # <<>>, NEW r \in 0..Len(s) - 1,
         NEW v0 \in StatesShrink(t, s, r)
  PROVE  Shrunk(t, s, v0) \in StatesShrink(t, s, r) /\ Shrunk(t, s, v0).cnt # Len(t)
<1>0. PICK n : n = Len(s)
  OBVIOUS
<1> DEFINE w0 == v0  g == LoopShrink(t, s, v0)  D == StatesShrink(t, s, r)
           G == [w \in D |-> StepShrink(t, s, w)]  M == [w \in D |-> r + 1 - w.l]
<1>1. n \in Nat /\ r \in Nat /\ r + 1 <= n
  <2>1. n \in Nat
    BY <1>0, Numbers
  <2> QED
    BY <2>1, <1>0
<1>2. w0 \in D
  OBVIOUS
<1>3. \A v \in D : v.l \in 0..n /\ v.l <= r + 1 /\ v.l \in Nat
  <2>1. \A v \in D : v \in Types76(s) /\ v.l <= r + 1
    BY DEF StatesShrink
  <2>2. \A v \in Types76(s) : v.l \in 0..n
    BY <1>0 DEF Types76
  <2> HIDE DEF D
  <2>3. \A v \in D : v.l \in 0..n /\ v.l <= r + 1
    BY <2>1, <2>2
  <2>4. 0..n \subseteq Nat
    BY <1>1
  <2> QED
    BY <2>3, <2>4
<1>4. \A v \in D : /\ StepShrink(t, s, v) \in D
                   /\ IF v.cnt = Len(t) THEN StepShrink(t, s, v).l = v.l + 1 ELSE StepShrink(t, s, v) = v
  BY TurnShrink
<1>5. G \in [D -> D] /\ M \in [D -> Nat] /\ M[w0] <= n /\ \A v \in D : G[v] = v \/ M[G[v]] < M[v]
  <2> HIDE DEF D
  <2>1. w0.l \in Nat
    BY <1>2, <1>3
  <2>2. M[w0] <= n
    <3> HIDE DEF w0
    <3> QED
      BY <1>1, <1>2, <2>1
  <2>3. \A v \in D : r + 1 - v.l \in Nat
    BY <1>1, <1>3
  <2>4. G \in [D -> D] /\ M \in [D -> Nat]
    BY <1>4, <2>3
  <2>5. ASSUME NEW v \in D PROVE G[v] = v \/ M[G[v]] < M[v]
    <3>1. StepShrink(t, s, v) \in D /\ (StepShrink(t, s, v).l = v.l + 1 \/ StepShrink(t, s, v) = v)
      BY <1>4
    <3>2. v.l \in Int /\ r \in Int
      BY <1>1, <1>3
    <3> QED
      BY <3>1, <3>2
  <2> QED
    BY <2>2, <2>4, <2>5
<1>p. PICK f : EndsAs(n, D, G, w0, f)
  <2> HIDE DEF D, G, M, w0
  <2> QED
    BY <1>1, <1>2, <1>5, LoopRule
<1>6. /\ f \in [0..n -> D] /\ f[0] = w0 /\ \A d \in 1..n : f[d] = G[f[d - 1]]
      /\ f[n] \in D /\ G[f[n]] = f[n]
      /\ \A z : Follows(n, D, G, z) /\ z[0] = w0 => z[n] = f[n]
  BY <1>p DEF EndsAs
<1>7. g[n] = f[n]
  <2>1. f = [d \in 0..n |-> IF d = 0 THEN w0 ELSE StepShrink(t, s, f[d - 1])]
    <3>1. \A d \in 1..n : d - 1 \in 0..n
      BY <1>1
    <3>2. \A d \in 1..n : f[d] = StepShrink(t, s, f[d - 1])
      BY <1>6, <3>1
    <3> HIDE DEF D
    <3> QED
      BY <1>6, <3>2, <1>1
  <2>2. g = [d \in 0..n |-> IF d = 0 THEN w0 ELSE StepShrink(t, s, g[d - 1])]
    BY <2>1, <1>0 DEF LoopShrink
  <2>3. g[0] = w0 /\ \A d \in 1..n : g[d] = StepShrink(t, s, g[d - 1])
    BY <2>2, <1>1
  <2>4. Follows(n, D, G, g)
    BY <2>3 DEF Follows
  <2> HIDE DEF D, G, g
  <2> QED
    BY <1>6, <2>3, <2>4
<1>8. PICK v : v = f[n]
  OBVIOUS
<1>9. v \in D /\ StepShrink(t, s, v) = v
  BY <1>6, <1>8
<1>10. v.cnt # Len(t)
  <2>1. ~ (v.l = v.l + 1)
    <3>1. v.l \in Nat
      BY <1>3, <1>9
    <3> QED
      BY <3>1
  <2> HIDE DEF D
  <2> QED
    BY <2>1, <1>4, <1>9
<1> HIDE DEF g, G, M, w0
<1>11. Shrunk(t, s, v0) = v
  BY <1>0, <1>7, <1>8 DEF Shrunk, g
<1> QED
  BY <1>9, <1>10, <1>11

\* One turn of test76, the loop, and what it starts with.
Step76(t, s, w) ==
  IF w.r < Len(s)
  THEN LET x == At(s, w.r)
           v == [w EXCEPT !.need = [w.need EXCEPT ![x] = w.need[x] - 1],
                          !.cnt = IF w.need[x] - 1 >= 0 THEN w.cnt + 1 ELSE w.cnt]
           u == IF x \in Flag(t) THEN Shrunk(t, s, v) ELSE w
       IN [u EXCEPT !.r = u.r + 1]
  ELSE w
Start76(t, s) ==
  [l |-> 0, r |-> 0, cnt |-> 0, minsize |-> Len(s) + 1, minl |-> 0, need |-> [x \in Element |-> Count(t, x)]]
Loop76(t, s) ==
  CHOOSE f : f = [k \in 0..Len(s) |-> IF k = 0 THEN Start76(t, s) ELSE Step76(t, s, f[k - 1])]
States76(t, s) ==
  {w \in Types76(s) :
     /\ w.l <= w.r /\ NeedIs(s, t, w.l, w.r, w.need) /\ (\E U : Gap(t, U, w.need, w.cnt)) /\ w.cnt # Len(t)
     /\ Best(s, t, w.minsize, w.minl, w.r)
     /\ \A p \in 0..w.l - 1 : w.minsize <= w.r - p}

\* A turn keeps to the states and goes on.
LEMMA Turn76 ==
  ASSUME NEW s \in Seq(Element), NEW t \in Seq(Element), t # <<>>, NEW w \in States76(t, s)
  PROVE  /\ Step76(t, s, w) \in States76(t, s)
         /\ IF w.r < Len(s) THEN Step76(t, s, w).r = w.r + 1 ELSE Step76(t, s, w) = w
<1>0. PICK n, m, l, r, c, z, a0, need, u :
        /\ n = Len(s) /\ m = Len(t) /\ l = w.l /\ r = w.r /\ c = w.cnt /\ z = w.minsize
        /\ a0 = w.minl /\ need = w.need /\ u = Step76(t, s, w)
  OBVIOUS
<1>1. /\ n \in Nat /\ m \in Nat /\ r \in 0..n /\ r \in Nat /\ l \in 0..n /\ l \in Nat /\ l <= r /\ c \in Int /\ c # m
      /\ z \in 1..n + 1 /\ a0 \in 0..n /\ need \in [Element -> Int]
      /\ w = [l |-> l, r |-> r, cnt |-> c, minsize |-> z, minl |-> a0, need |-> need]
      /\ NeedIs(s, t, l, r, need) /\ Best(s, t, z, a0, r) /\ \A p \in 0..l - 1 : z <= r - p
  <2>1. n \in Nat /\ m \in Nat
    BY <1>0, Numbers
  <2>2. /\ w \in Types76(s) /\ l <= r /\ NeedIs(s, t, l, r, need) /\ c # m
        /\ Best(s, t, z, a0, r) /\ \A p \in 0..l - 1 : z <= r - p
    BY <1>0 DEF States76
  <2>3. /\ l \in 0..n /\ r \in 0..n /\ c \in Int /\ z \in 1..n + 1 /\ a0 \in 0..n /\ need \in [Element -> Int]
        /\ w = [l |-> l, r |-> r, cnt |-> c, minsize |-> z, minl |-> a0, need |-> need]
    BY <2>2, <1>0 DEF Types76
  <2>4. l \in Nat /\ r \in Nat
    BY <2>1, <2>3
  <2> QED
    BY <2>1, <2>2, <2>3, <2>4
<1>2. PICK U : Gap(t, U, need, c)
  BY <1>0 DEF States76
<1>3. CASE r < n
  <2>1. PICK x : x = At(s, r)
    OBVIOUS
  <2>2. x = s[r + 1] /\ r \in 0..n - 1 /\ r + 1 \in 0..n /\ r + 1 \in Nat
    <3>1. r \in 0..n - 1 /\ r + 1 \in 0..n /\ r + 1 \in Nat
      BY <1>1, <1>3
    <3> QED
      BY <3>1, <2>1 DEF At
  <2>3. CASE x \in Flag(t)
    <3>1. PICK need1, c1, v, y : /\ need1 = [need EXCEPT ![x] = need[x] - 1]
                                 /\ c1 = (IF need[x] - 1 >= 0 THEN c + 1 ELSE c)
                                 /\ v = [l |-> l, r |-> r, cnt |-> c1, minsize |-> z, minl |-> a0, need |-> need1]
                                 /\ y = Shrunk(t, s, v)
      OBVIOUS
    <3>2. u = [y EXCEPT !.r = y.r + 1]
      <4>1. [w EXCEPT !.need = [w.need EXCEPT ![x] = w.need[x] - 1], !.cnt = IF w.need[x] - 1 >= 0 THEN w.cnt + 1 ELSE w.cnt] = v
        <5>1. w.need = need /\ w.cnt = c
          BY <1>0
        <5>2. [w EXCEPT !.need = need1, !.cnt = c1] = v
          <6>1. w = [l |-> l, r |-> r, cnt |-> c, minsize |-> z, minl |-> a0, need |-> need]
            BY <1>1
          <6>2. v = [l |-> l, r |-> r, cnt |-> c1, minsize |-> z, minl |-> a0, need |-> need1]
            BY <3>1
          <6>3. PICK e : e = [w EXCEPT !.need = need1, !.cnt = c1]
            OBVIOUS
          <6>4. e = [l |-> l, r |-> r, cnt |-> c1, minsize |-> z, minl |-> a0, need |-> need1]
            BY <6>1, <6>3
          <6> QED
            BY <6>2, <6>3, <6>4
        <5> QED
          BY <5>1, <5>2, <3>1
      <4> QED
        BY <4>1, <3>1, <2>1, <2>3, <1>0, <1>3 DEF Step76
    <3>3. v.l = l /\ v.r = r /\ v.cnt = c1 /\ v.minsize = z /\ v.minl = a0 /\ v.need = need1
      BY <3>1
    <3>4. NeedIs(s, t, l, r + 1, need1)
      BY <3>1, <2>2, <2>3, <1>1, NeedTake
    <3>5. \E V : Gap(t, V, need1, c1)
      BY <3>1, <2>3, <1>1, <1>2, GapTake
    <3>6. v \in Types76(s)
      <4>1. need1 \in [Element -> Int] /\ c1 \in Int
        <5>1. need1 \in [Element -> Int]
          BY <3>4 DEF NeedIs
        <5>2. c1 \in Int
          BY <3>1, <1>1
        <5> QED
          BY <5>1, <5>2
      <4> QED
        BY <4>1, <3>1, <1>0, <1>1 DEF Types76
    <3>7. l <= r + 1 /\ \A p \in 0..l - 1 : z <= r + 1 - p
      <4>1. l <= r + 1
        BY <1>1
      <4>2. ASSUME NEW p \in 0..l - 1 PROVE z <= r + 1 - p
        <5>1. z <= r - p /\ p \in Int /\ z \in Int
          BY <1>1, SMTT(30)
        <5> QED
          BY <5>1, <1>1
      <4> QED
        BY <4>1, <4>2
    <3>8. v \in StatesShrink(t, s, r)
      BY <3>3, <3>4, <3>5, <3>6, <3>7, <1>1 DEF StatesShrink
    <3>9. y \in StatesShrink(t, s, r) /\ y.cnt # m
      BY <3>1, <3>8, <2>2, <1>0, ShrunkIs
    <3>10. /\ y \in Types76(s) /\ y.r = r /\ y.l <= r + 1 /\ NeedIs(s, t, y.l, r + 1, y.need)
           /\ (\E V : Gap(t, V, y.need, y.cnt)) /\ Best(s, t, y.minsize, y.minl, r)
           /\ \A p \in 0..y.l - 1 : y.minsize <= r + 1 - p
      BY <3>9 DEF StatesShrink
    <3>11. /\ u \in Types76(s) /\ u.r = r + 1 /\ u.l = y.l /\ u.cnt = y.cnt /\ u.minsize = y.minsize
           /\ u.minl = y.minl /\ u.need = y.need /\ y.l \in 0..n /\ y.minsize \in 1..n + 1
      BY <3>2, <3>10, <2>2, <1>0 DEF Types76
    <3>12. ~ Cover(s, t, y.l, r + 1)
      <4>1. StepShrink(t, s, y) \in StatesShrink(t, s, r) /\ (y.cnt = Len(t) <=> Cover(s, t, y.l, r + 1))
        BY <3>9, <2>2, <1>0, TurnShrink
      <4> QED
        BY <4>1, <3>9, <1>0
    <3>13. ASSUME NEW q \in 0..r + 1, NEW p \in 0..q, Cover(s, t, p, q) PROVE y.minsize <= q - p
      <4>1. CASE q = r + 1
        <5>1. p < y.l
          <6>1. SUFFICES ASSUME ~ (p < y.l) PROVE FALSE
            OBVIOUS
          <6>2. p \in Nat /\ y.l \in Nat /\ p \in y.l..r + 1
            BY <6>1, <4>1, <3>11, <1>1, SMTT(30)
          <6> QED
            BY <6>2, <4>1, <3>12, <3>13, <2>2, <1>0, <1>1, CoverIn
        <5>2. p \in 0..y.l - 1
          BY <5>1, <3>11, <1>1, SMTT(30)
        <5>3. y.minsize <= r + 1 - p
          BY <5>2, <3>10
        <5> QED
          BY <5>3, <4>1, <1>1
      <4>2. CASE q # r + 1
        <5>1. q \in 0..r
          BY <4>2, <1>1
        <5> QED
          BY <5>1, <3>10, <3>13 DEF Best
      <4> QED
        BY <4>1, <4>2
    <3>14. Best(s, t, y.minsize, y.minl, r + 1)
      BY <3>10, <3>13 DEF Best
    <3>15. u \in States76(t, s)
      <4>1. u.l <= u.r /\ NeedIs(s, t, u.l, u.r, u.need) /\ u.cnt # Len(t)
        BY <3>9, <3>10, <3>11, <1>0
      <4>2. \E V : Gap(t, V, u.need, u.cnt)
        BY <3>10, <3>11
      <4>3. Best(s, t, u.minsize, u.minl, u.r)
        BY <3>11, <3>14
      <4>4. \A p \in 0..u.l - 1 : u.minsize <= u.r - p
        <5>1. u.r = r + 1 /\ u.l = y.l /\ u.minsize = y.minsize
          BY <3>11, <1>1
        <5>2. ASSUME NEW p \in 0..u.l - 1 PROVE u.minsize <= u.r - p
          <6>1. p \in 0..y.l - 1
            BY <5>1
          <6>2. y.minsize <= r + 1 - p
            BY <6>1, <3>10
          <6>3. u.minsize <= (r + 1) - p
            BY <6>2, <5>1, <1>1
          <6> QED
            BY <6>3, <5>1
        <5> QED
          BY <5>2
      <4> QED
        BY <4>1, <4>2, <4>3, <4>4, <3>11 DEF States76
    <3> QED
      BY <3>11, <3>15, <1>0, <1>3
  <2>4. CASE x \notin Flag(t)
    <3>1. u = [l |-> l, r |-> r + 1, cnt |-> c, minsize |-> z, minl |-> a0, need |-> need]
      <4>1. u = [w EXCEPT !.r = w.r + 1]
        BY <2>1, <2>4, <1>0, <1>3 DEF Step76
      <4> QED
        BY <4>1, <1>0, <1>1
    <3>2. u.l = l /\ u.r = r + 1 /\ u.cnt = c /\ u.minsize = z /\ u.minl = a0 /\ u.need = need
      BY <3>1
    <3>3. NeedIs(s, t, l, r + 1, need)
      BY <2>2, <2>4, <1>1, NeedTake
    <3>4. u \in Types76(s)
      BY <3>1, <2>2, <1>0, <1>1 DEF Types76
    <3>5. l <= r + 1 /\ \A p \in 0..l - 1 : z <= r + 1 - p
      <4>1. l <= r + 1
        BY <1>1
      <4>2. ASSUME NEW p \in 0..l - 1 PROVE z <= r + 1 - p
        <5>1. z <= r - p /\ p \in Int /\ z \in Int
          BY <1>1
        <5> QED
          BY <5>1, <1>1
      <4> QED
        BY <4>1, <4>2
    <3>6. ASSUME NEW q \in 0..r + 1, NEW p \in 0..q, Cover(s, t, p, q) PROVE z <= q - p
      <4>1. CASE q = r + 1
        <5>1. p \in Nat /\ q \in Nat
          BY <1>1
        <5>2. p < q /\ Cover(s, t, p, r)
          <6>1. p < q /\ \A k \in Nat : q = k + 1 /\ s[q] \notin Flag(t) => Cover(s, t, p, k)
            BY <5>1, <3>6, CoverEnds
          <6> QED
            BY <6>1, <4>1, <2>2, <2>4, <1>1
        <5>3. r \in 0..r /\ p \in 0..r
          BY <5>1, <5>2, <4>1, <1>1
        <5>4. z <= r - p
          BY <5>2, <5>3, <1>1 DEF Best
        <5> QED
          BY <5>1, <5>4, <4>1, <1>1
      <4>2. CASE q # r + 1
        <5>1. q \in 0..r
          BY <4>2, <1>1
        <5> QED
          BY <5>1, <3>6, <1>1 DEF Best
      <4> QED
        BY <4>1, <4>2
    <3>7. Best(s, t, z, a0, r + 1)
      BY <3>6, <1>1 DEF Best
    <3>8. u \in States76(t, s)
      <4>1. u.l <= u.r /\ NeedIs(s, t, u.l, u.r, u.need) /\ u.cnt # Len(t)
        BY <3>2, <3>3, <3>5, <1>0, <1>1
      <4>2. \E V : Gap(t, V, u.need, u.cnt)
        BY <3>2, <1>2
      <4>3. Best(s, t, u.minsize, u.minl, u.r)
        BY <3>2, <3>7
      <4>4. \A p \in 0..u.l - 1 : u.minsize <= u.r - p
        <5>1. ASSUME NEW p \in 0..l - 1 PROVE z <= u.r - p
          <6>1. z <= (r + 1) - p
            BY <3>5, <1>1, SMTT(30)
          <6> QED
            BY <6>1, <3>2
        <5> QED
          BY <5>1, <3>2
      <4> QED
        BY <4>1, <4>2, <4>3, <4>4, <3>4 DEF States76
    <3> QED
      BY <3>2, <3>8, <1>0, <1>3
  <2> QED
    BY <2>3, <2>4
<1>4. CASE ~ (r < n)
  <2>1. u = w
    BY <1>0, <1>4 DEF Step76
  <2> QED
    BY <2>1, <1>0, <1>4
<1> QED
  BY <1>3, <1>4

\* The loop ends with the least window there is.
LEMMA Best76 ==
  ASSUME NEW s \in Seq(Element), NEW t \in Seq(Element), t # <<>>
  PROVE  \E v \in States76(t, s) : /\ v.r = Len(s)
                                   /\ test76(s, t) = IF v.minsize > Len(s) THEN <<>>
                                                     ELSE SubSeq(s, v.minl + 1, v.minl + v.minsize)
<1>0. PICK n : n = Len(s)
  OBVIOUS
<1> DEFINE w0 == Start76(t, s)  g == Loop76(t, s)  D == States76(t, s)
           G == [w \in D |-> Step76(t, s, w)]  M == [w \in D |-> n - w.r]
<1>1. n \in Nat
  BY <1>0, Numbers
<1>2. w0 \in D
  <2>1. PICK need, m : need = [x \in Element |-> Count(t, x)] /\ m = Len(t)
    OBVIOUS
  <2>2. m \in Nat /\ m # 0 /\ IsFiniteSet(1..m) /\ Flag(t) \subseteq Element /\ Flag(t) = {t[k] : k \in 1..m}
    <3>1. m \in Nat /\ IsFiniteSet(1..m) /\ Flag(t) \subseteq Element /\ Flag(t) = {t[k] : k \in 1..m}
      BY <2>1, FlagIn
    <3>2. m # 0
      BY <2>1
    <3> QED
      BY <3>1, <3>2
  <2>3. \A x : Count(t, x) = Hits(t, 1..m, {x}) /\ Hits(t, 1..m, {x}) \in Nat
    <3>1. DOMAIN t = 1..m
      BY <2>1, Numbers
    <3>2. ASSUME NEW x PROVE Count(t, x) = Hits(t, 1..m, {x})
      <4>1. {k \in DOMAIN t : t[k] = x} = {k \in 1..m : t[k] \in {x}}
        BY <3>1
      <4> QED
        BY <4>1 DEF Count, Hits
    <3> QED
      BY <3>2, <2>2, HitsType
  <2>4. need \in [Element -> Int] /\ \A x \in Element : need[x] = Hits(t, 1..m, {x}) /\ need[x] \in Nat
    <3>1. \A x \in Element : need[x] = Count(t, x)
      BY <2>1
    <3>2. \A x \in Element : need[x] = Hits(t, 1..m, {x}) /\ need[x] \in Nat
      BY <3>1, <2>3
    <3>3. ASSUME NEW x \in Element PROVE Count(t, x) \in Int
      <4>1. PICK h : h = Hits(t, 1..m, {x})
        OBVIOUS
      <4>2. h \in Nat /\ Count(t, x) = h
        BY <4>1, <2>3
      <4> QED
        BY <4>2
    <3>4. need \in [Element -> Int]
      BY <3>3, <2>1
    <3> QED
      BY <3>2, <3>4
  <2>5. 0 + 1..0 = {} /\ \A X : Hits(s, {}, X) = 0
    BY HitsNone, FS_EmptySet
  <2>6. NeedIs(s, t, 0, 0, need)
    <3>1. ASSUME NEW x \in Flag(t) PROVE need[x] = Hits(t, 1..m, {x}) - Hits(s, 0 + 1..0, {x})
      <4>1. need[x] = Hits(t, 1..m, {x}) /\ need[x] \in Nat
        BY <2>2, <2>4
      <4>2. Hits(s, 0 + 1..0, {x}) = 0
        BY <2>5
      <4>3. need[x] = need[x] - 0
        BY <4>1
      <4> QED
        BY <4>1, <4>2, <4>3
    <3> QED
      BY <3>1, <2>1, <2>4 DEF NeedIs
  <2>7. Gap(t, 1..m, need, 0)
    <3>1. Cardinality(1..m) = m - 0
      <4>1. Cardinality(1..m) = m
        BY <2>2, FS_Interval
      <4> QED
        BY <4>1, <2>2
    <3>2. ASSUME NEW x \in Flag(t) PROVE Hits(t, 1..m, {x}) = IF need[x] > 0 THEN need[x] ELSE 0
      <4>1. need[x] = Hits(t, 1..m, {x}) /\ need[x] \in Nat
        BY <2>2, <2>4
      <4> QED
        BY <4>1
    <3> QED
      BY <3>1, <3>2, <2>1 DEF Gap
  <2>8. Best(s, t, n + 1, 0, 0)
    <3>1. ASSUME NEW q \in 0..0, NEW p \in 0..q, Cover(s, t, p, q) PROVE n + 1 <= q - p
      <4>1. p \in Nat /\ q \in Nat /\ ~ (p < q)
        OBVIOUS
      <4> QED
        BY <4>1, <3>1, CoverEnds
    <3> QED
      BY <3>1, <1>0 DEF Best
  <2>9. w0 = [l |-> 0, r |-> 0, cnt |-> 0, minsize |-> n + 1, minl |-> 0, need |-> need]
    BY <2>1, <1>0 DEF Start76
  <2> HIDE DEF w0
  <2>10. w0.l = 0 /\ w0.r = 0 /\ w0.cnt = 0 /\ w0.minsize = n + 1 /\ w0.minl = 0 /\ w0.need = need
    BY <2>9
  <2>11. w0 \in Types76(s)
    <3>1. 0 \in 0..n /\ n + 1 \in 1..n + 1 /\ 0 \in Int
      BY <1>1
    <3> QED
      BY <3>1, <2>4, <2>9, <1>0 DEF Types76
  <2>12. 0 <= 0 /\ \A p \in 0..0 - 1 : n + 1 <= 0 - p
    OBVIOUS
  <2>13. \E U : Gap(t, U, w0.need, w0.cnt)
    BY <2>7, <2>10
  <2> QED
    BY <2>1, <2>2, <2>6, <2>8, <2>10, <2>11, <2>12, <2>13 DEF States76
<1>3. \A v \in D : v.r \in 0..n
  <2>1. \A v \in D : v \in Types76(s)
    BY DEF States76
  <2>2. \A v \in Types76(s) : v.r \in 0..n
    BY <1>0 DEF Types76
  <2> HIDE DEF D
  <2> QED
    BY <2>1, <2>2
<1>4. \A v \in D : /\ Step76(t, s, v) \in D
                   /\ IF v.r < n THEN Step76(t, s, v).r = v.r + 1 ELSE Step76(t, s, v) = v
  BY <1>0, Turn76
<1>5. G \in [D -> D] /\ M \in [D -> Nat] /\ M[w0] <= n /\ \A v \in D : G[v] = v \/ M[G[v]] < M[v]
  <2> HIDE DEF D
  <2>1. w0.r = 0
    BY DEF Start76
  <2>2. M[w0] <= n
    <3> HIDE DEF w0
    <3> QED
      BY <1>1, <1>2, <2>1
  <2>3. \A v \in D : n - v.r \in Nat
    BY <1>1, <1>3
  <2>4. G \in [D -> D] /\ M \in [D -> Nat]
    BY <1>4, <2>3
  <2>5. ASSUME NEW v \in D PROVE G[v] = v \/ M[G[v]] < M[v]
    <3>1. Step76(t, s, v) \in D /\ (Step76(t, s, v).r = v.r + 1 \/ Step76(t, s, v) = v)
      BY <1>4
    <3>2. v.r \in Int /\ n \in Int
      BY <1>1, <1>3
    <3> QED
      BY <3>1, <3>2
  <2> QED
    BY <2>2, <2>4, <2>5
<1>p. PICK f : EndsAs(n, D, G, w0, f)
  <2> HIDE DEF D, G, M, w0
  <2> QED
    BY <1>1, <1>2, <1>5, LoopRule
<1>6. /\ f \in [0..n -> D] /\ f[0] = w0 /\ \A d \in 1..n : f[d] = G[f[d - 1]]
      /\ f[n] \in D /\ G[f[n]] = f[n]
      /\ \A z : Follows(n, D, G, z) /\ z[0] = w0 => z[n] = f[n]
  BY <1>p DEF EndsAs
<1>7. g[n] = f[n]
  <2>1. f = [d \in 0..n |-> IF d = 0 THEN w0 ELSE Step76(t, s, f[d - 1])]
    <3>1. \A d \in 1..n : d - 1 \in 0..n
      BY <1>1
    <3>2. \A d \in 1..n : f[d] = Step76(t, s, f[d - 1])
      BY <1>6, <3>1
    <3> HIDE DEF D
    <3> QED
      BY <1>6, <3>2, <1>1
  <2>2. g = [d \in 0..n |-> IF d = 0 THEN w0 ELSE Step76(t, s, g[d - 1])]
    BY <2>1, <1>0 DEF Loop76
  <2>3. g[0] = w0 /\ \A d \in 1..n : g[d] = Step76(t, s, g[d - 1])
    BY <2>2, <1>1
  <2>4. Follows(n, D, G, g)
    BY <2>3 DEF Follows
  <2> HIDE DEF D, G, g
  <2> QED
    BY <1>6, <2>3, <2>4
<1>8. PICK v : v = f[n]
  OBVIOUS
<1>9. v \in D /\ Step76(t, s, v) = v
  BY <1>6, <1>8
<1>10. v.r = n
  <2>1. v.r \in 0..n
    BY <1>3, <1>9
  <2>2. ~ (v.r = v.r + 1)
    BY <2>1
  <2> HIDE DEF D
  <2> QED
    BY <2>1, <2>2, <1>1, <1>4, <1>9
<1>11. test76(s, t) = IF v.minsize > n THEN <<>> ELSE SubSeq(s, v.minl + 1, v.minl + v.minsize)
  <2>1. test76(s, t) = IF g[Len(s)].minsize > Len(s) THEN <<>>
                       ELSE SubSeq(s, g[Len(s)].minl + 1, g[Len(s)].minl + g[Len(s)].minsize)
    BY DEF test76, While, Step76, Start76, Loop76, Shrunk, LoopShrink, StepShrink, Flag
  <2> HIDE DEF g
  <2> QED
    BY <2>1, <1>0, <1>7, <1>8
<1> HIDE DEF g, G, M, w0
<1> QED
  BY <1>0, <1>9, <1>10, <1>11

\* A window of s that is a part of s, as places.
LEMMA WindowIs ==
  ASSUME NEW s \in Seq(Element), NEW t \in Seq(Element), NEW l \in 0..Len(s), NEW r \in l..Len(s)
  PROVE  (\A x \in Element : Count(SubSeq(s, l + 1, r), x) >= Count(t, x)) <=> Cover(s, t, l, r)
<1>1. ASSUME NEW x \in Element
      PROVE  Count(SubSeq(s, l + 1, r), x) >= Count(t, x) <=> Hits(t, 1..Len(t), {x}) <= Hits(s, l + 1..r, {x})
  <2>1. PICK p, q : p = Hits(t, 1..Len(t), {x}) /\ q = Hits(s, l + 1..r, {x})
    OBVIOUS
  <2>2. Count(SubSeq(s, l + 1, r), x) = q
    BY <2>1, CountIs
  <2>3. Count(t, x) = p
    <3>1. 0 \in 0..Len(t) /\ 0 \in 0..Len(t)
      BY Numbers
    <3> QED
      BY <3>1, <2>1, CountIs
  <2>4. p \in Nat /\ q \in Nat
    <3>1. IsFiniteSet(1..Len(t))
      BY FlagIn
    <3>2. IsFiniteSet(l + 1..r)
      <4>1. l + 1 \in Int /\ r \in Int
        BY Numbers
      <4> QED
        BY <4>1, FS_Interval
    <3> QED
      BY <3>1, <3>2, <2>1, HitsType
  <2> QED
    BY <2>1, <2>2, <2>3, <2>4
<1> QED
  BY <1>1 DEF Cover

\* test76 returns a least window with all characters of t, or nothing if there is none.
LEMMA test76Is ==
  ASSUME NEW s \in Seq(Element), NEW t \in Seq(Element), t # <<>>,
         NEW W, W = {y \in Parts(s) : \A x \in Element : Count(y, x) >= Count(t, x)}
  PROVE  IF W = {} THEN test76(s, t) = <<>>
         ELSE test76(s, t) \in W /\ Len(test76(s, t)) = Min({Len(y) : y \in W})
<1>0. PICK n : n = Len(s)
  OBVIOUS
<1>1. n \in Nat
  BY <1>0, Numbers
<1>2. PICK v \in States76(t, s) : /\ v.r = Len(s)
                                  /\ test76(s, t) = IF v.minsize > Len(s) THEN <<>>
                                                    ELSE SubSeq(s, v.minl + 1, v.minl + v.minsize)
  BY Best76
<1>3. PICK z, a0, y : z = v.minsize /\ a0 = v.minl /\ y = test76(s, t)
  OBVIOUS
<1>4. /\ z \in 1..n + 1 /\ a0 \in 0..n /\ y = IF z > n THEN <<>> ELSE SubSeq(s, a0 + 1, a0 + z)
      /\ z = n + 1 \/ (a0 + z <= n /\ Cover(s, t, a0, a0 + z))
      /\ \A q \in 0..n : \A p \in 0..q : Cover(s, t, p, q) => z <= q - p
  <2>1. v \in Types76(s) /\ Best(s, t, z, a0, n)
    BY <1>0, <1>2, <1>3 DEF States76
  <2>2. z \in 1..n + 1 /\ a0 \in 0..n
    BY <2>1, <1>0, <1>3 DEF Types76
  <2> QED
    BY <2>1, <2>2, <1>0, <1>2, <1>3 DEF Best
<1>5. ASSUME NEW x \in W PROVE Len(x) \in 0..n /\ z <= Len(x)
  <2>1. x \in Parts(s) /\ \A e \in Element : Count(x, e) >= Count(t, e)
    OBVIOUS
  <2>2. PICK l \in 0..Len(s) : \E r \in l..Len(s) : x = SubSeq(s, l + 1, r)
    BY <2>1, PartsAre
  <2>3. PICK r \in l..Len(s) : x = SubSeq(s, l + 1, r)
    BY <2>2
  <2>4. Cover(s, t, l, r)
    BY <2>1, <2>3, WindowIs
  <2>5. Len(x) = r - l
    BY <2>3, PartIs
  <2>6. l \in Int /\ r \in Int /\ r \in 0..n /\ l \in 0..r /\ r - l \in 0..n
    BY <1>0, <1>1
  <2>7. z <= r - l
    BY <2>4, <2>6, <1>4
  <2> QED
    BY <2>5, <2>6, <2>7
<1>6. CASE z > n
  <2>1. W = {}
    <3>1. SUFFICES ASSUME NEW x \in W PROVE FALSE
      OBVIOUS
    <3>2. Len(x) \in 0..n /\ z <= Len(x)
      BY <1>5
    <3> QED
      BY <3>2, <1>1, <1>4, <1>6
  <2> QED
    BY <2>1, <1>3, <1>4, <1>6
<1>7. CASE ~ (z > n)
  <2>1. PICK r : r = a0 + z
    OBVIOUS
  <2>2. a0 \in 0..n /\ r \in a0..n /\ a0 < r /\ r - a0 = z /\ Cover(s, t, a0, r) /\ y = SubSeq(s, a0 + 1, r)
    BY <2>1, <1>1, <1>4, <1>7
  <2>3. Len(y) = z /\ y \in Parts(s)
    BY <2>2, <1>0, PartIs
  <2>4. \A x \in Element : Count(y, x) >= Count(t, x)
    BY <2>2, <1>0, WindowIs
  <2>5. y \in W
    BY <2>3, <2>4
  <2>6. PICK L : L = {Len(x) : x \in W}
    OBVIOUS
  <2>7. L \subseteq 0..n /\ z \in L /\ \A k \in L : z <= k
    BY <2>3, <2>5, <2>6, <1>5
  <2>8. Min(L) = z
    <3>1. Min(L) \in L /\ \A k \in L : Min(L) <= k
      BY <2>7, <1>1, MinIs
    <3>2. PICK k : k = Min(L)
      OBVIOUS
    <3>3. k \in L /\ k \in 0..n /\ z \in 0..n
      BY <3>1, <3>2, <2>7
    <3>4. k <= z /\ z <= k
      BY <3>1, <3>2, <3>3, <2>7
    <3>5. k = z
      BY <3>3, <3>4, <1>1
    <3> QED
      BY <3>2, <3>5
  <2> QED
    BY <2>3, <2>5, <2>6, <2>8, <1>3
<1> QED
  BY <1>6, <1>7

-----------------------------------------------------------------------------
(* ScansAgree.                                                             *)

\* ScansAgree for two sequences of characters, if no character is one of the marks
\* that longestPalindromeEx2 puts between them.
LEMMA ScansAre ==
  ASSUME Element \cap {-2, -3} = {}, a \in Seq(Element), b \in Seq(Element)
  PROVE  ScansAgree
<1> DEFINE noRepetition == {x \in Parts(a) : \A i, j \in DOMAIN x : x[i] = x[j] => i = j}
           palindromes == {x \in Parts(a) : isPalindrome(x)}
           windows == {x \in Parts(a) : \A y \in Element : Count(x, y) >= Count(b, y)}
<1>1. lengthOfLongestSubstring(a) = Longest(noRepetition) /\ lengthOfLongestSubstringEx(a) = Longest(noRepetition)
  <2>1. MostDistinct(a, Len(a), lengthOfLongestSubstring(a))
    BY LongestReIs
  <2>2. MostDistinct(a, Len(a), lengthOfLongestSubstringEx(a))
    BY LongestExIs
  <2>3. lengthOfLongestSubstring(a) = Longest(noRepetition)
    BY <2>1, LongestDistinct
  <2>4. lengthOfLongestSubstringEx(a) = Longest(noRepetition)
    BY <2>2, LongestDistinct
  <2> QED
    BY <2>3, <2>4
<1>2. ASSUME a # <<>>, NEW x \in {longestPalindromeEx(a), longestPalindromeEx2(a)}
      PROVE  x \in palindromes /\ Len(x) = Longest(palindromes)
  <2>1. CASE x = longestPalindromeEx(a)
    BY <2>1, <1>2, longestPalindromeExIs
  <2>2. CASE x = longestPalindromeEx2(a)
    BY <2>2, <1>2, longestPalindromeEx2Is
  <2> QED
    BY <2>1, <2>2
<1>3. test680(a) <=> isPalindrome(a) \/ \E i \in DOMAIN a : isPalindrome(SubSeq(a, 1, i - 1) \o SubSeq(a, i + 1, Len(a)))
  BY test680Is DEF Without
<1>4. b # <<>> => IF windows = {} THEN test76(a, b) = <<>>
                  ELSE test76(a, b) \in windows /\ Len(test76(a, b)) = Min({Len(x) : x \in windows})
  BY test76Is
<1>5. checkSubString(a, b) <=>
        \E f \in [DOMAIN b -> DOMAIN a] : \A i, j \in DOMAIN b : b[i] = a[f[i]] /\ (i < j => f[i] < f[j])
  BY checkSubStringIs
<1> QED
  BY <1>1, <1>2, <1>3, <1>4, <1>5 DEF ScansAgree

\* ScansAgree: if no character is one of the marks of longestPalindromeEx2, the scans
\* of test680, checkSubString, the two of lengthOfLongestSubstring, the two of
\* longestPalindrome and test76 find what trying all parts finds.
THEOREM ScansHold == ASSUME Element \cap {-2, -3} = {} PROVE TextSpec => []ScansAgree
<1>1. a \in Seq(Element) /\ b \in Seq(Element) => ScansAgree
  BY ScansAre
<1> QED
  BY <1>1, InputsAre, PTL

=============================================================================
