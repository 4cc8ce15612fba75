----------------------------- MODULE TextSafety -----------------------------
(***************************************************************************)
(* What the textbook functions compute, said without their loops.          *)
(***************************************************************************)
EXTENDS Textbook

Sorted(s) == \A i, j \in DOMAIN s : i < j => s[i] <= s[j]
Permuted(s, t) == Len(s) = Len(t) /\ \A x \in Element : Count(s, x) = Count(t, x)
Rotated(s) == \E k \in 0..Len(s) : Sorted(SubSeq(s, k + 1, Len(s)) \o SubSeq(s, 1, k))
Parts(s) == {SubSeq(s, i, j) : i \in 1..Len(s), j \in 0..Len(s)}
Longest(parts) == Max({0} \cup {Len(s) : s \in parts})

\* The index returned is that of the place before the pivot's, whatever the comment
\* at sort.c:21 says; at the pivot's place, at, and not at index, s is divided.
Partitioned(s, w) ==
  LET at == w.index + 1 IN
  /\ Permuted(w.s, s) /\ At(w.s, at) = s[Len(s)]
  /\ \A k \in 0..Len(s) - 1 : (At(w.s, k) < s[Len(s)]) <=> k < at

\* Every place that the pivots of a selection among n elements can be taken from.
Pivots(n) == {rand \in [1..n - 1 -> 0..n - 2] : \A m \in 1..n - 1 : rand[m] < m}

\* The sorts and merges return the same elements in order, and a partition step
\* puts the pivot where it belongs, for equal elements and empty arrays as well.
SortsSort ==
  /\ Sorted(MPSort(a)) /\ Permuted(MPSort(a), a)
  /\ (\A k \in DOMAIN a : a[k] \in 0..2) => test75(a) = MPSort(a)
  /\ a # <<>> => Partitioned(a, FindIndex(a, 0, Len(a) - 1))
  /\ \A rand \in Pivots(Len(a)), k \in 1..Len(a) :
       test215(a, k, rand) = At(MPSort(a), Len(a) - k)
  /\ Sorted(a) /\ Sorted(b) => test88(a, b) = MPSort(a \o b)

\* The searches that halve an array find what is there and nothing else, with
\* repetitions, at both ends, and in an array that has been rotated; three ways to
\* the median of two sorted arrays, one of which may be empty, agree.
SearchesFind ==
  /\ test69(Len(a) * Len(b)) = Max({r \in 0..Len(a) * Len(b) : r * r <= Len(a) * Len(b)})
  /\ Sorted(a) => \A x \in Element :
       LET at == {k \in 0..Len(a) - 1 : At(a, k) = x}
       IN test34(a, x) = IF at = {} THEN <<-1, -1>> ELSE <<Min(at), Max(at)>>
  /\ a # <<>> /\ Rotated(a) =>
       /\ \A x \in Element : test81(a, x) <=> \E k \in DOMAIN a : a[k] = x
       /\ test154(a) = Min({a[k] : k \in DOMAIN a})
  /\ Sorted(a) => \A i, j \in DOMAIN a : i < j =>
       LET found == test167(a, a[i] + a[j])
       IN found[1] < found[2] /\ a[found[1]] + a[found[2]] = a[i] + a[j]
  /\ Sorted(a) /\ Sorted(b) /\ a \o b # <<>> =>
       {findMedianSortedArrays(a, b), findMedianSortedArraysEx2(a, b), test4(a, b)}
         = {calcMedian(MPSort(a \o b))}

\* The scans with two pointers, or with what earlier steps have found out, return
\* what trying all parts returns.
ScansAgree ==
  LET noRepetition == {s \in Parts(a) : \A i, j \in DOMAIN s : s[i] = s[j] => i = j}
      palindromes == {s \in Parts(a) : isPalindrome(s)}
      windows == {s \in Parts(a) : \A x \in Element : Count(s, x) >= Count(b, x)}
      without(i) == SubSeq(a, 1, i - 1) \o SubSeq(a, i + 1, Len(a))
  IN
  /\ lengthOfLongestSubstring(a) = Longest(noRepetition)
  /\ lengthOfLongestSubstringEx(a) = Longest(noRepetition)
  /\ \A s \in {longestPalindromeEx(a), longestPalindromeEx2(a)} :
       a # <<>> => s \in palindromes /\ Len(s) = Longest(palindromes)
  /\ test680(a) <=> isPalindrome(a) \/ \E i \in DOMAIN a : isPalindrome(without(i))
  /\ b # <<>> => IF windows = {} THEN test76(a, b) = <<>>
                 ELSE /\ test76(a, b) \in windows
                      /\ Len(test76(a, b)) = Min({Len(s) : s \in windows})
  /\ checkSubString(a, b) <=>
       \E f \in [DOMAIN b -> DOMAIN a] : \A i, j \in DOMAIN b :
         b[i] = a[f[i]] /\ (i < j => f[i] < f[j])

Beds(s) ==
  {p \in SUBSET {k \in DOMAIN s : s[k] = 0} :
     \A k \in p : k + 1 \notin p /\ \A n \in {k - 1, k + 1} \cap DOMAIN s : s[n] = 0}

\* The greedy choices are as good as the best ones.
GreedyIsBest ==
  /\ (\A k \in DOMAIN a : a[k] \in {0, 1} /\ (k > 1 => a[k] + a[k - 1] < 2)) =>
       test605(a) = Max({Cardinality(p) : p \in Beds(a)})
  /\ LET cuts == {k \in DOMAIN a : \A i \in 1..k, j \in k + 1..Len(a) : a[i] # a[j]}
         res == test763(a)
         sum[k \in 0..Len(res)] == IF k = 0 THEN 0 ELSE sum[k - 1] + res[k]
     IN {sum[k] : k \in DOMAIN res} = cuts
  /\ test665(a) <=> \/ Len(a) < 2
                    \/ \E i \in DOMAIN a, x \in Element : Sorted([a EXCEPT ![i] = x])
=============================================================================
