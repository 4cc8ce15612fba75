------------------------------ MODULE Textbook ------------------------------
(***************************************************************************)
(* The functions of src/sort and src/leetcode that have a loop worth       *)
(* checking, as operators on sequences whose first element has index 0.    *)
(* The state is their input: two sequences that grow.                      *)
(***************************************************************************)
EXTENDS Integers, Sequences, FiniteSetsExt

CONSTANTS
  Element,   \* the numbers, or the characters, in the sequences
  MaxSize    \* bound: the elements of both sequences together

ASSUME ElementAssumption == Element \subseteq Int

VARIABLES a, b

At(s, i) == s[i + 1]
Put(s, i, v) == [s EXCEPT ![i + 1] = v]
Swap(s, i, j) == Put(Put(s, i, At(s, j)), j, At(s, i))
Middle(w) == w.l + (w.r - w.l) \div 2

\* while (test) body, from w, which takes at most n turns.
While(test(_), body(_), w, n) ==
  LET next(v) == IF test(v) THEN body(v) ELSE v
      turn[k \in 0..n] == IF k = 0 THEN w ELSE next(turn[k - 1])
  IN turn[n]

Open(w) == w.l < w.r
Apart(w) == Open(w) /\ ~ w.found

-----------------------------------------------------------------------------
(* sort.c, sort.cpp, double_pointer.cpp: sorting and merging.              *)

MPSort(s) ==
  LET pass(w) == While(LAMBDA v : v.j < Len(s) - v.i - 1,
                       LAMBDA v : [v EXCEPT !.j = @ + 1,
                                     !.s = IF At(@, v.j) > At(@, v.j + 1)
                                           THEN Swap(@, v.j, v.j + 1) ELSE @], w, Len(s))
  IN While(LAMBDA w : w.i < Len(s) - 1,
           LAMBDA w : [pass([w EXCEPT !.j = 0]) EXCEPT !.i = w.i + 1],
           [s |-> s, i |-> 0, j |-> 0], Len(s)).s

\* What FindIndex leaves in the array, and the index it returns, which is the one
\* before the place of the pivot: start, where the pivot went to start + 1.
FindIndex(s, begin, end) ==
  LET w == While(LAMBDA v : v.i < end,
                 LAMBDA v : IF At(v.s, v.i) < At(s, end)
                            THEN [s |-> Swap(v.s, v.start + 1, v.i), i |-> v.i + 1,
                                  start |-> v.start + 1]
                            ELSE [v EXCEPT !.i = @ + 1],
                 [s |-> s, i |-> begin, start |-> begin - 1], Len(s))
  IN [s |-> Swap(w.s, w.start + 1, end), index |-> w.start]

\* rand[n] is what rand() returns to the call on n + 1 elements.
qSortFunc(s0, left, right, rand) ==
  LET random == (rand[right - left] % (right - left)) + left
      pivot == At(s0, random)
      last(s, l, r) == Max({k \in l..r : k = l \/ At(s, k) < pivot})
      first(s, l, r) == Min({k \in l..r : k = r \/ At(s, k) >= pivot})
      turn(w) == LET r == last(w.s, w.l, w.r)
                     s == Put(w.s, w.l, At(w.s, r))
                     l == first(s, w.l, r)
                 IN [s |-> Put(s, r, At(s, l)), l |-> l, r |-> r]
      w == While(Open, turn, [s |-> Swap(s0, random, left),
                              l |-> left, r |-> right], Len(s0))
  IN [s |-> Put(w.s, w.l, pivot), mid |-> w.l]

\* The k-th largest. No two calls of qSortFunc are on equally many elements.
test215(s0, k, rand) ==
  LET turn(w) == LET q == qSortFunc(w.s, w.l, w.r, rand) IN
        IF q.mid = Len(s0) - k THEN [s |-> q.s, l |-> q.mid, r |-> q.mid]
        ELSE IF q.mid < Len(s0) - k THEN [w EXCEPT !.s = q.s, !.l = q.mid + 1]
        ELSE [w EXCEPT !.s = q.s, !.r = q.mid - 1]
      w == While(Open, turn, [s |-> s0, l |-> 0, r |-> Len(s0) - 1], Len(s0))
  IN At(w.s, w.l)

\* Zeros, ones and twos in one pass.
test75(s) ==
  LET put(on, t, i, v) == IF on THEN Put(t, i, v) ELSE t
      turn(w) == LET x == At(w.s, w.k) IN
        [s |-> put(x < 1, put(x < 2, Put(w.s, w.k, 2), w.i1, 1), w.i0, 0), k |-> w.k + 1,
         i1 |-> w.i1 + (IF x < 2 THEN 1 ELSE 0), i0 |-> w.i0 + (IF x < 1 THEN 1 ELSE 0)]
  IN While(LAMBDA w : w.k < Len(s), turn, [s |-> s, k |-> 0, i1 |-> 0, i0 |-> 0], Len(s)).s

\* Merge num2 into num1, which has room for it, from the back.
TakesLeast(x, y) == x < y

TakesFirst(x, y) == x > y

test88(num1, num2) ==
  LET turn(w) ==
        LET first == w.m >= 0 /\ TakesFirst(At(w.s, w.m), At(num2, w.n))
        IN [s |-> Put(w.s, w.pos, IF first THEN At(w.s, w.m) ELSE At(num2, w.n)),
            pos |-> w.pos - 1, m |-> w.m - (IF first THEN 1 ELSE 0),
            n |-> w.n - (IF first THEN 0 ELSE 1)]
      size == Len(num1) + Len(num2)
  IN While(LAMBDA w : w.n >= 0, turn,
           [s |-> num1 \o num2, pos |-> size - 1, m |-> Len(num1) - 1, n |-> Len(num2) - 1], size).s

-----------------------------------------------------------------------------
(* dichotomy.cpp, double_pointer.cpp: searching.                           *)

test69(x) ==
  LET turn(w) == LET mid == Middle(w)  sqrt == x \div mid IN
        IF sqrt = mid THEN [l |-> mid + 1, r |-> mid]
        ELSE IF sqrt < mid THEN [w EXCEPT !.r = mid - 1] ELSE [w EXCEPT !.l = mid + 1]
  IN IF x = 0 THEN 0 ELSE While(LAMBDA w : w.l <= w.r, turn, [l |-> 1, r |-> x], x).r

Bound(s, goesLeft(_)) ==
  While(Open, LAMBDA w : IF goesLeft(At(s, Middle(w))) THEN [w EXCEPT !.r = Middle(w)]
                         ELSE [w EXCEPT !.l = Middle(w) + 1],
        [l |-> 0, r |-> Len(s)], Len(s)).l

LowerBound(s, target) == Bound(s, LAMBDA v : v >= target)
UpperBound(s, target) == Bound(s, LAMBDA v : v > target)

test34(s, target) ==
  LET low == LowerBound(s, target)
  IN IF low = Len(s) \/ At(s, low) # target THEN <<-1, -1>>
     ELSE <<low, UpperBound(s, target) - 1>>

\* In a sorted array that has been rotated, with repetitions, which hide on which
\* side of mid the array is sorted.
NeverHidden(s, w, mid) == FALSE

Hidden(s, w, mid) == At(s, mid) = At(s, w.r)

test81(s, target) ==
  LET turn(w) == LET mid == w.l + (w.r - w.l + 1) \div 2  x == At(s, mid) IN
        IF Hidden(s, w, mid) THEN [w EXCEPT !.found = x = target, !.r = @ - 1]
        ELSE IF x < At(s, w.r)
             THEN IF x <= target /\ target <= At(s, w.r) THEN [w EXCEPT !.l = mid]
                  ELSE [w EXCEPT !.r = mid - 1]
        ELSE IF At(s, w.l) <= target /\ target < x THEN [w EXCEPT !.r = mid - 1]
             ELSE [w EXCEPT !.l = mid]
      w == While(Apart, turn, [l |-> 0, r |-> Len(s) - 1, found |-> FALSE], 2 * Len(s))
  IN w.found \/ At(s, w.r) = target

\* The least element of such an array.
test154(s) ==
  LET turn(w) == LET mid == w.l + (w.r - w.l + 1) \div 2  x == At(s, mid) IN
        IF x < At(s, w.r) THEN [w EXCEPT !.r = mid - 1, !.res = IF x > @ THEN @ ELSE x]
        ELSE IF x > At(s, w.r)
             THEN IF x >= w.res /\ w.res < At(s, w.r) THEN [w EXCEPT !.found = TRUE, !.res = At(s, w.l)]
                  ELSE [w EXCEPT !.l = mid, !.res = x]
        ELSE [w EXCEPT !.r = @ - 1, !.res = IF At(s, w.r) <= @ THEN At(s, w.r) ELSE @]
  IN While(Apart, turn, [l |-> 0, r |-> Len(s) - 1, found |-> FALSE, res |-> At(s, 0)],
           2 * Len(s)).res

\* Two elements of a sorted array with that sum, as positions from 1 on.
test167(s, target) ==
  LET sum(w) == At(s, w.l) + At(s, w.r)
      w == While(LAMBDA v : v.l # v.r /\ sum(v) # target,
                 LAMBDA v : IF sum(v) > target THEN [v EXCEPT !.r = @ - 1]
                            ELSE [v EXCEPT !.l = @ + 1],
                 [l |-> 0, r |-> Len(s) - 1], Len(s))
  IN <<w.l + 1, w.r + 1>>

-----------------------------------------------------------------------------
(* SumGetIndex.h, dichotomy.cpp: twice the median of two sorted arrays.    *)

calcMedian(s) ==
  LET index == Len(s) \div 2
  IN IF Len(s) % 2 # 0 THEN 2 * At(s, index) ELSE At(s, index) + At(s, index - 1)

findMedianSortedArrays(p, q) ==
  LET turn(w) == IF w.j = Len(q) \/ (w.i < Len(p) /\ At(p, w.i) <= At(q, w.j))
                 THEN [w EXCEPT !.s = Append(@, At(p, w.i)), !.i = @ + 1]
                 ELSE [w EXCEPT !.s = Append(@, At(q, w.j)), !.j = @ + 1]
  IN calcMedian(While(LAMBDA w : w.i < Len(p) \/ w.j < Len(q), turn,
                      [s |-> <<>>, i |-> 0, j |-> 0], Len(p) + Len(q)).s)

\* The k-th least of p[start1..end1] and q[start2..end2].
getKth(p0, q0, k0) ==
  LET len1(w) == w.end1 - w.start1 + 1
      len2(w) == w.end2 - w.start2 + 1
      half(w, len) == (IF len < w.k \div 2 THEN len ELSE w.k \div 2) - 1
      swapped(w) == [p |-> w.q, start1 |-> w.start2, end1 |-> w.end2,
                     q |-> w.p, start2 |-> w.start1, end2 |-> w.end1, k |-> w.k]
      call(w) ==
        LET i == w.start1 + half(w, len1(w))  j == w.start2 + half(w, len2(w)) IN
        IF len1(w) > len2(w) THEN swapped(w)
        ELSE IF At(w.p, i) > At(w.q, j)
             THEN [w EXCEPT !.start2 = j + 1, !.k = @ - (j - w.start2 + 1)]
             ELSE [w EXCEPT !.start1 = i + 1, !.k = @ - (i - w.start1 + 1)]
      w == While(LAMBDA v : len1(v) > len2(v) \/ (len1(v) # 0 /\ v.k # 1), call,
                 [p |-> p0, start1 |-> 0, end1 |-> Len(p0) - 1,
                  q |-> q0, start2 |-> 0, end2 |-> Len(q0) - 1, k |-> k0],
                 2 * (Len(p0) + Len(q0)))
  IN IF len1(w) = 0 THEN At(w.q, w.start2 + w.k - 1)
     ELSE Min({At(w.p, w.start1), At(w.q, w.start2)})

findMedianSortedArraysEx2(p, q) ==
  LET size == Len(p) + Len(q)
  IN getKth(p, q, (size + 1) \div 2) + getKth(p, q, (size + 2) \div 2)

\* The part of both arrays left of a cut, and the part right of it; test4 cuts
\* between elements, and moves the cut of the shorter array.
Halves(p, q, i, j) ==
  [left |-> {At(p, k) : k \in 0..i - 1} \cup {At(q, k) : k \in 0..j - 1},
   right |-> {At(p, k) : k \in i..Len(p) - 1} \cup {At(q, k) : k \in j..Len(q) - 1}]

test4(num1, num2) ==
  LET p == IF Len(num1) > Len(num2) THEN num2 ELSE num1
      q == IF Len(num1) > Len(num2) THEN num1 ELSE num2
      m == Len(p)  n == Len(q)
      j(w) == (m + n + 1) \div 2 - Middle(w)
      forward(w) == j(w) # 0 /\ Middle(w) # m /\ At(q, j(w) - 1) > At(p, Middle(w))
      backward(w) == Middle(w) # 0 /\ j(w) # n /\ At(p, Middle(w) - 1) > At(q, j(w))
      w == While(LAMBDA v : v.l <= v.r /\ (forward(v) \/ backward(v)),
                 LAMBDA v : IF forward(v) THEN [v EXCEPT !.l = Middle(v) + 1]
                            ELSE [v EXCEPT !.r = Middle(v) - 1],
                 [l |-> 0, r |-> m], m + 1)
      cut == Halves(p, q, Middle(w), j(w))
  IN IF w.l > w.r THEN 0
     ELSE IF (m + n) % 2 # 0 THEN 2 * Max(cut.left) ELSE Max(cut.left) + Min(cut.right)

-----------------------------------------------------------------------------
(* string_problem.h, double_pointer.cpp: strings.                          *)

\* The longest part without a repetition; index holds the place after the last
\* occurrence of a character.
lengthOfLongestSubstringEx(s) ==
  LET turn(w) == LET x == At(s, w.j)  i == Max({w.index[x], w.i})
                 IN [j |-> w.j + 1, i |-> i, ans |-> Max({w.ans, w.j - i + 1}),
                     index |-> [w.index EXCEPT ![x] = w.j + 1]]
  IN While(LAMBDA w : w.j < Len(s), turn,
           [j |-> 0, i |-> 0, ans |-> 0, index |-> [x \in Element |-> 0]], Len(s)).ans

\* The same with the part itself, re, in hand; tmpresult is its length.
lengthOfLongestSubstring(s) ==
  LET turn(w) ==
        LET x == At(s, w.i)
            index == Max({-1} \cup {k \in 0..Len(w.re) - 1 : At(w.re, k) = x})
        IN IF w.tmp # x /\ index = -1
           THEN [w EXCEPT !.i = @ + 1, !.re = Append(@, x), !.tmpresult = @ + 1]
           ELSE LET re == Append(SubSeq(w.re, index + 2, Len(w.re)), x)
                IN [i |-> w.i + 1, tmp |-> x, re |-> re, tmpresult |-> Len(re),
                    result |-> Max({w.result, w.tmpresult})]
      w == While(LAMBDA v : v.i < Len(s), turn,
                 [i |-> 1, tmp |-> At(s, 0), re |-> <<At(s, 0)>>, tmpresult |-> 1, result |-> 1],
                 Len(s))
  IN IF s = <<>> THEN 0 ELSE Max({w.result, w.tmpresult})

isPalindrome(s) == \A i \in 0..(Len(s) \div 2) - 1 : At(s, i) = At(s, Len(s) - 1 - i)

\* The common parts of s and s reversed, if they are at the same place of s.
longestPalindromeEx(s) ==
  LET size == Len(s)
      tmp(j) == At(s, size - 1 - j)
      common[i \in 0..size - 1] == [j \in 0..size - 1 |->
        IF tmp(j) # At(s, i) THEN 0 ELSE IF i = 0 \/ j = 0 THEN 1 ELSE common[i - 1][j - 1] + 1]
      turn(w) ==
        LET i == w.k \div size  j == w.k % size  len == common[i][j]
        IN IF len > w.max /\ size - 1 - j + len - 1 = i THEN [k |-> w.k + 1, max |-> len, start |-> i]
           ELSE [w EXCEPT !.k = @ + 1]
      w == While(LAMBDA v : v.k < size * size, turn, [k |-> 0, max |-> 0, start |-> 0], size * size)
  IN SubSeq(s, w.start - w.max + 2, w.start + 1)

\* Manacher: the radius p[i] of every centre i of t, which is s with marks between
\* its characters, starts from the one of the mirrored centre.
Mirrored(w) == IF w.mx > w.i THEN Min({w.p[2 * w.id - w.i], w.mx - w.i}) ELSE 1

longestPalindromeEx2(s) ==
  LET size == 2 * Len(s) + 2
      \* The end of t, the '$' before it, a '#', or a character of s.
      t(i) == IF i >= size THEN -3 ELSE IF i = 0 THEN -2 ELSE IF i % 2 = 1 THEN -1
              ELSE At(s, i \div 2 - 1)
      grown(i, r) == CHOOSE q \in r..i + 1 : /\ t(i + q) # t(i - q)
                                             /\ \A k \in r..q - 1 : t(i + k) = t(i - k)
      turn(w) == LET r == grown(w.i, Mirrored(w)) IN
        [i |-> w.i + 1, p |-> [w.p EXCEPT ![w.i] = r],
         mx |-> IF w.mx < w.i + r THEN w.i + r ELSE w.mx,
         id |-> IF w.mx < w.i + r THEN w.i ELSE w.id,
         len |-> IF w.len < r THEN r ELSE w.len,
         center |-> IF w.len < r THEN w.i ELSE w.center]
      w == While(LAMBDA v : v.i < size, turn,
                 [i |-> 1, p |-> [i \in 0..size |-> 0], mx |-> 0, id |-> 0, len |-> 0, center |-> 0],
                 size)
      from == (w.center - w.len) \div 2
  IN SubSeq(s, from + 1, from + w.len - 1)

checkEnds(s, left, right) == left < right => At(s, left) = At(s, right)

checkPalindrome(s, left, right) == \A k \in 0..right - left : At(s, left + k) = At(s, right - k)

\* A palindrome but for one character.
test680(s) ==
  LET w == While(LAMBDA v : Open(v) /\ At(s, v.l) = At(s, v.r),
                 LAMBDA v : [l |-> v.l + 1, r |-> v.r - 1], [l |-> 0, r |-> Len(s) - 1], Len(s))
  IN Open(w) => checkPalindrome(s, w.l + 1, w.r) \/ checkPalindrome(s, w.l, w.r - 1)

Count(s, x) == Cardinality({k \in DOMAIN s : s[k] = x})

\* The least window of s with all characters of t, as often as in t.
test76(s, t) ==
  LET flag == {t[k] : k \in DOMAIN t}
      shrink(w) ==
        LET x == At(s, w.l)  better == w.r - w.l + 1 < w.minsize IN
        [w EXCEPT !.minl = IF better THEN w.l ELSE @,
                  !.minsize = IF better THEN w.r - w.l + 1 ELSE @,
                  !.need = IF x \in flag THEN [@ EXCEPT ![x] = w.need[x] + 1] ELSE @,
                  !.cnt = IF x \in flag /\ w.need[x] + 1 > 0 THEN @ - 1 ELSE @,
                  !.l = @ + 1]
      turn(w) ==
        LET x == At(s, w.r)
            v == [w EXCEPT !.need = [@ EXCEPT ![x] = w.need[x] - 1],
                           !.cnt = IF w.need[x] - 1 >= 0 THEN @ + 1 ELSE @]
            u == IF x \in flag THEN While(LAMBDA y : y.cnt = Len(t), shrink, v, Len(s)) ELSE w
        IN [u EXCEPT !.r = @ + 1]
      w == While(LAMBDA v : v.r < Len(s), turn,
                 [l |-> 0, r |-> 0, cnt |-> 0, minsize |-> Len(s) + 1, minl |-> 0,
                  need |-> [x \in Element |-> Count(t, x)]], Len(s))
  IN IF w.minsize > Len(s) THEN <<>> ELSE SubSeq(s, w.minl + 1, w.minl + w.minsize)

\* t is s without some of its characters.  The end of t is a character of its own.
checkSubString(s, t) ==
  LET w == While(LAMBDA v : v.ls < Len(s) /\ v.lt < Len(s),
                 LAMBDA v : [ls |-> v.ls + 1,
                             lt |-> IF v.lt < Len(t) /\ At(s, v.ls) = At(t, v.lt)
                                    THEN v.lt + 1 ELSE v.lt],
                 [ls |-> 0, lt |-> 0], Len(s))
  IN w.lt = Len(t)

-----------------------------------------------------------------------------
(* greedy_algorithm.cpp.                                                   *)

\* How many flowers fit in between.
test605(data) ==
  LET turn(w) == IF At(data, w.i) = 1 THEN [w EXCEPT !.i = @ + 2]
                 ELSE IF w.i = Len(data) - 1 \/ At(data, w.i + 1) = 0
                 THEN [i |-> w.i + 2, res |-> w.res + 1]
                 ELSE [w EXCEPT !.i = @ + 3]
  IN While(LAMBDA w : w.i < Len(data), turn, [i |-> 0, res |-> 0], Len(data)).res

\* The sizes of the most parts that share no character.
test763(s) ==
  LET last(x) == Max({k \in 0..Len(s) - 1 : At(s, k) = x})
      turn(w) == LET max == Max({w.max, last(At(s, w.j))}) IN
        IF w.j = max THEN [j |-> w.j + 1, max |-> max, start |-> max + 1,
                           res |-> Append(w.res, max - w.start + 1)]
        ELSE [w EXCEPT !.j = @ + 1, !.max = max]
  IN While(LAMBDA w : w.j < Len(s), turn,
           [j |-> 0, max |-> 0, start |-> 0, res |-> <<>>], Len(s)).res

\* The array is sorted but for one element.  Where it falls, the element before
\* is lowered if the one before that allows it.
AlwaysLowers(s, i) == TRUE

Lowers(s, i) == i = 1 \/ At(s, i) >= At(s, i - 2)

test665(nums) ==
  LET turn(w) ==
        LET i == w.i  falls == At(w.s, i - 1) > At(w.s, i) IN
        [i |-> i + 1, num |-> w.num + (IF falls THEN 1 ELSE 0),
         s |-> IF ~ falls THEN w.s
               ELSE IF Lowers(w.s, i) THEN Put(w.s, i - 1, At(w.s, i))
               ELSE Put(w.s, i, At(w.s, i - 1))]
  IN While(LAMBDA w : w.i < Len(nums) /\ w.num <= 1, turn,
           [i |-> 1, num |-> 0, s |-> nums], Len(nums)).num < 2

-----------------------------------------------------------------------------
TextInit == a = <<>> /\ b = <<>>

Grow == /\ Len(a) + Len(b) < MaxSize
        /\ \E x \in Element : \/ a' = Append(a, x) /\ UNCHANGED b
                              \/ b' = Append(b, x) /\ UNCHANGED a

TextSpec == TextInit /\ [][Grow]_<<a, b>>
=============================================================================
