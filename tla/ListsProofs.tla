------------------------------ MODULE ListsProofs ------------------------------
(***************************************************************************)
(* What the proofs about the components need of natural numbers and lists. *)
(* Induction is on the smallest counterexample, and the step of a recursive *)
(* function is itself a function, so that no operator is a parameter.      *)
(***************************************************************************)
EXTENDS Lists, Integers, Functions, FiniteSetsExt, SequenceTheorems, WellFoundedInduction, TLAPS

\* A nonempty set of naturals has a smallest element.
LEMMA SmallestOfNats ==
  ASSUME NEW K \in SUBSET Nat, K # {}
  PROVE  \E k \in K : \A j \in K : k <= j
<1>1. PICK k \in K : \A j \in K : ~(<<j, k>> \in OpToRel(<, Nat))
  BY NatLessThanWellFounded, WFMin
<1>2. \A j \in K : ~(j < k)
  BY <1>1 DEF OpToRel
<1> QED BY <1>2

\* A nonempty set of integers with an upper bound has a greatest element.
LEMMA GreatestOfInts ==
  ASSUME NEW K \in SUBSET Int, K # {}, NEW bound \in Int, \A k \in K : k <= bound
  PROVE  \E k \in K : \A j \in K : j <= k
<1> DEFINE D == {d \in Nat : bound - d \in K}
<1>1. PICK k0 \in K : TRUE
  OBVIOUS
<1>2. bound - k0 \in D
  OBVIOUS
<1>3. PICK d \in D : \A e \in D : d <= e
  <2>1. D \in SUBSET Nat /\ D # {}
    BY <1>2
  <2> HIDE DEF D
  <2> QED BY <2>1, SmallestOfNats
<1>4. ASSUME NEW j \in K PROVE j <= bound - d
  <2>1. bound - j \in D
    OBVIOUS
  <2> QED BY <2>1, <1>3
<1> QED BY <1>3, <1>4

\* It is what Max returns.
LEMMA MaxIs ==
  ASSUME NEW K \in SUBSET Int, K # {}, NEW bound \in Int, \A k \in K : k <= bound
  PROVE  Max(K) \in K /\ \A j \in K : j <= Max(K)
<1>1. PICK k \in K : \A j \in K : j <= k
  BY GreatestOfInts
<1>2. k \in K /\ \A j \in K : k >= j
  BY <1>1
<1> QED BY <1>2 DEF Max

LEMMA MinIs ==
  ASSUME NEW K \in SUBSET Nat, K # {}
  PROVE  Min(K) \in K /\ \A j \in K : Min(K) <= j
BY SmallestOfNats DEF Min

LEMMA MinOfTwo ==
  ASSUME NEW a \in Int, NEW b \in Int
  PROVE  Min({a, b}) = IF a <= b THEN a ELSE b
<1> DEFINE c == IF a <= b THEN a ELSE b
<1>1. c \in {a, b} /\ \A y \in {a, b} : c <= y
  OBVIOUS
<1>2. \A x \in {a, b} : (\A y \in {a, b} : x <= y) => x = c
  OBVIOUS
<1> QED BY <1>1, <1>2 DEF Min

LEMMA MaxOfTwo ==
  ASSUME NEW a \in Int, NEW b \in Int
  PROVE  Max({a, b}) = IF a >= b THEN a ELSE b
<1> DEFINE c == IF a >= b THEN a ELSE b
<1>1. c \in {a, b} /\ \A y \in {a, b} : c >= y
  OBVIOUS
<1>2. \A x \in {a, b} : (\A y \in {a, b} : x >= y) => x = c
  OBVIOUS
<1> QED BY <1>1, <1>2 DEF Max

\* Induction up to n: a set that has 0, and k whenever it has k - 1, has 0..n.
LEMMA UpTo ==
  ASSUME NEW n \in Nat, NEW K, 0 \in K, \A k \in 1..n : k - 1 \in K => k \in K
  PROVE  0..n \subseteq K
<1> SUFFICES ASSUME 0..n \ K # {} PROVE FALSE
  OBVIOUS
<1>1. 0..n \ K \in SUBSET Nat
  OBVIOUS
<1>2. PICK k \in 0..n \ K : \A j \in 0..n \ K : k <= j
  BY <1>1, SmallestOfNats
<1>3. k \in 1..n /\ k - 1 \in 0..n
  BY <1>2
<1>4. k - 1 \in K
  BY <1>2, <1>3
<1> QED BY <1>2, <1>3, <1>4

\* f has the given first value and goes on by the given step, up to n.
IsRecursion(f, n, first, step) ==
  f = [k \in 0..n |-> IF k = 0 THEN first ELSE step[<<k, f[k - 1]>>]]

\* Such a function exists.
LEMMA RecursionExists ==
  ASSUME NEW n \in Nat, NEW S, NEW first \in S, NEW step \in [(1..n) \X S -> S]
  PROVE  \E f : IsRecursion(f, n, first, step)
<1> DEFINE Upto(f, m) == f[0] = first /\ \A k \in 1..m : f[k] = step[<<k, f[k - 1]>>]
           K == {m \in 0..n : \E f \in [0..n -> S] : Upto(f, m)}
<1>1. 0 \in K
  <2> DEFINE f == [k \in 0..n |-> first]
  <2>1. f \in [0..n -> S] /\ f[0] = first
    OBVIOUS
  <2>2. \A k \in 1..0 : f[k] = step[<<k, f[k - 1]>>]
    OBVIOUS
  <2> HIDE DEF f
  <2>3. Upto(f, 0)
    BY <2>1, <2>2
  <2> QED BY <2>1, <2>3
<1>2. ASSUME NEW m \in 1..n, m - 1 \in K PROVE m \in K
  <2>1. PICK f \in [0..n -> S] : Upto(f, m - 1)
    BY <1>2
  <2> DEFINE v == step[<<m, f[m - 1]>>]
             g == [f EXCEPT ![m] = v]
  <2>2. v \in S
    <3>1. m - 1 \in 0..n /\ f[m - 1] \in S
      OBVIOUS
    <3> QED BY <3>1
  <2>3. g \in [0..n -> S]
    BY <2>2
  <2>4. \A k \in 0..n : k # m => g[k] = f[k]
    OBVIOUS
  <2>5. g[m] = v
    OBVIOUS
  <2> HIDE DEF g
  <2>6. ASSUME NEW k \in 1..m PROVE g[k] = step[<<k, g[k - 1]>>]
    <3>1. g[k - 1] = f[k - 1]
      BY <2>4
    <3>2. CASE k = m
      BY <3>1, <3>2, <2>5
    <3>3. CASE k # m
      <4>1. k \in 1..m - 1 /\ g[k] = f[k]
        BY <3>3, <2>4
      <4> QED BY <4>1, <3>1, <2>1
    <3> QED BY <3>2, <3>3
  <2>7. g[0] = first
    BY <2>1, <2>4
  <2>8. Upto(g, m)
    BY <2>6, <2>7
  <2> HIDE DEF Upto
  <2> QED BY <2>3, <2>8
<1>3. n \in K
  <2> HIDE DEF K
  <2> QED BY <1>1, <1>2, UpTo
<1>4. PICK f \in [0..n -> S] : Upto(f, n)
  BY <1>3
<1>5. f = [k \in 0..n |-> f[k]]
  OBVIOUS
<1>6. ASSUME NEW k \in 0..n
      PROVE  f[k] = IF k = 0 THEN first ELSE step[<<k, f[k - 1]>>]
  BY <1>4
<1>7. f = [k \in 0..n |-> IF k = 0 THEN first ELSE step[<<k, f[k - 1]>>]]
  BY <1>5, <1>6, Zenon
<1> QED BY <1>7 DEF IsRecursion

-----------------------------------------------------------------------------
(* Cutting and joining *)

\* Cutting the last n entries off a list without duplicates gives two lists
\* without duplicates that share nothing and together name what the list named.
LEMMA CutInTwo ==
  ASSUME NEW S, NEW free \in Seq(S), IsInjective(free),
         NEW n \in Nat, n <= Len(free)
  PROVE  LET rest  == SubSeq(free, 1, Len(free) - n)
             taken == SubSeq(free, Len(free) - n + 1, Len(free))
         IN  /\ rest \in Seq(S) /\ taken \in Seq(S)
             /\ Len(taken) = n
             /\ \A k \in 1..n : taken[k] = free[Len(free) - n + k]
             /\ IsInjective(rest) /\ IsInjective(taken)
             /\ Range(rest) \cap Range(taken) = {}
             /\ Range(rest) \cup Range(taken) = Range(free)
<1> DEFINE m     == Len(free) - n
           rest  == SubSeq(free, 1, m)
           taken == SubSeq(free, m + 1, Len(free))
<1>1. m \in Nat /\ m <= Len(free) /\ Len(free) \in Nat
  OBVIOUS
<1>2. /\ rest \in Seq(S)
      /\ Len(rest) = m
      /\ \A k \in 1..m : rest[k] = free[k]
  BY <1>1
<1>3. /\ taken \in Seq(S)
      /\ Len(taken) = n
      /\ \A k \in 1..n : taken[k] = free[m + k]
  BY <1>1
<1>4. DOMAIN rest = 1..m /\ DOMAIN taken = 1..n /\ DOMAIN free = 1..Len(free)
  BY <1>2, <1>3
<1> HIDE DEF m, rest, taken
<1>5. IsInjective(rest)
  BY <1>1, <1>2, <1>4 DEF IsInjective
<1>6. IsInjective(taken)
  <2> SUFFICES ASSUME NEW j \in 1..n, NEW k \in 1..n, taken[j] = taken[k]
               PROVE  j = k
    BY <1>4 DEF IsInjective
  <2>1. free[m + j] = free[m + k]
    BY <1>3
  <2>2. m + j \in DOMAIN free /\ m + k \in DOMAIN free
    BY <1>1, <1>4 DEF m
  <2>3. m + j = m + k
    BY <2>1, <2>2 DEF IsInjective
  <2> QED BY <2>3, <1>1
<1>7. Range(rest) \cap Range(taken) = {}
  <2> SUFFICES ASSUME NEW j \in 1..m, NEW k \in 1..n, rest[j] = taken[k]
               PROVE  FALSE
    BY <1>4 DEF Range
  <2>1. free[j] = free[m + k] /\ j \in DOMAIN free /\ m + k \in DOMAIN free
    BY <1>1, <1>2, <1>3, <1>4 DEF m
  <2> QED BY <2>1, <1>1 DEF IsInjective
<1>8. Range(rest) \cup Range(taken) = Range(free)
  <2>1. Range(rest) \subseteq Range(free)
    BY <1>1, <1>2, <1>4 DEF Range
  <2>2. Range(taken) \subseteq Range(free)
    <3> SUFFICES ASSUME NEW k \in 1..n
                 PROVE  taken[k] \in Range(free)
      BY <1>4 DEF Range
    <3>1. m + k \in DOMAIN free
      BY <1>1, <1>4 DEF m
    <3> QED BY <3>1, <1>3 DEF Range
  <2>3. ASSUME NEW k \in 1..Len(free)
        PROVE  free[k] \in Range(rest) \cup Range(taken)
    <3>1. CASE k <= m
      BY <3>1, <1>1, <1>2, <1>4 DEF Range
    <3>2. CASE k > m
      <4>1. k - m \in 1..n /\ taken[k - m] = free[k]
        BY <3>2, <1>1, <1>3 DEF m
      <4> QED BY <4>1, <1>4 DEF Range
    <3> QED BY <3>1, <3>2, <1>1
  <2> QED BY <2>1, <2>2, <2>3, <1>4 DEF Range
<1> QED BY <1>2, <1>3, <1>5, <1>6, <1>7, <1>8 DEF m, rest, taken

\* Two lists without duplicates that share nothing, one after the other.
LEMMA JoinTwo ==
  ASSUME NEW S, NEW s \in Seq(S), NEW t \in Seq(S),
         IsInjective(s), IsInjective(t), Range(s) \cap Range(t) = {}
  PROVE  /\ s \o t \in Seq(S)
         /\ IsInjective(s \o t)
         /\ Range(s \o t) = Range(s) \cup Range(t)
<1>1. /\ s \o t \in Seq(S)
      /\ DOMAIN s = 1..Len(s) /\ DOMAIN t = 1..Len(t)
      /\ DOMAIN (s \o t) = 1..(Len(s) + Len(t))
      /\ Len(s) \in Nat /\ Len(t) \in Nat
      /\ \A k \in 1..Len(s) + Len(t) :
            (s \o t)[k] = IF k <= Len(s) THEN s[k] ELSE t[k - Len(s)]
  OBVIOUS
<1>2. IsInjective(s \o t)
  <2> SUFFICES ASSUME NEW j \in 1..Len(s) + Len(t), NEW k \in 1..Len(s) + Len(t),
                      (s \o t)[j] = (s \o t)[k]
               PROVE  j = k
    BY <1>1 DEF IsInjective
  <2>1. CASE j <= Len(s) /\ k <= Len(s)
    BY <2>1, <1>1 DEF IsInjective
  <2>2. CASE j > Len(s) /\ k > Len(s)
    BY <2>2, <1>1 DEF IsInjective
  <2>3. CASE j <= Len(s) /\ k > Len(s)
    <3>1. s[j] \in Range(s) /\ t[k - Len(s)] \in Range(t)
      BY <2>3, <1>1 DEF Range
    <3> QED BY <3>1, <2>3, <1>1
  <2>4. CASE j > Len(s) /\ k <= Len(s)
    <3>1. s[k] \in Range(s) /\ t[j - Len(s)] \in Range(t)
      BY <2>4, <1>1 DEF Range
    <3> QED BY <3>1, <2>4, <1>1
  <2> QED BY <2>1, <2>2, <2>3, <2>4, <1>1
<1>3. Range(s \o t) = Range(s) \cup Range(t)
  BY RangeConcatenation, <1>1
<1> QED BY <1>1, <1>2, <1>3

-----------------------------------------------------------------------------
(* Only(s, S) *)

\* The values of f are the results for the prefixes of s.
IsOnly(f, s, S) ==
  /\ f[0] = << >>
  /\ \A k \in 1..Len(s) :
       f[k] = IF s[k] \in S THEN Append(f[k - 1], s[k]) ELSE f[k - 1]
  /\ Only(s, S) = f[Len(s)]

\* The recursive function behind Only(s, S) is what its equation says.
LEMMA OnlyUnfolds ==
  ASSUME NEW T, NEW s \in Seq(T), NEW S
  PROVE  \E f : IsOnly(f, s, S) /\ f \in [0..Len(s) -> Seq(T)]
<1>0. PICK n \in Nat : n = Len(s)
  OBVIOUS
<1> DEFINE Body(f) == [k \in 0..n |-> IF k = 0 THEN << >>
                                      ELSE IF s[k] \in S THEN Append(f[k - 1], s[k])
                                      ELSE f[k - 1]]
           step == [x \in (1..n) \X Seq(T) |->
                      IF s[x[1]] \in S THEN Append(x[2], s[x[1]]) ELSE x[2]]
           only == CHOOSE f : f = Body(f)
<1>1. n \in Nat /\ \A k \in 1..n : s[k] \in T
  BY <1>0
<1>2. step \in [(1..n) \X Seq(T) -> Seq(T)]
  <2>1. ASSUME NEW x \in (1..n) \X Seq(T)
        PROVE  (IF s[x[1]] \in S THEN Append(x[2], s[x[1]]) ELSE x[2]) \in Seq(T)
    <3>1. s[x[1]] \in T /\ x[2] \in Seq(T)
      BY <1>1
    <3> QED BY <3>1
  <2> QED BY <2>1
<1>3. \A k \in 1..n : \A q \in Seq(T) :
        step[<<k, q>>] = IF s[k] \in S THEN Append(q, s[k]) ELSE q
  OBVIOUS
<1> HIDE DEF step
<1>4. PICK f : IsRecursion(f, n, << >>, step)
  <2> DEFINE Q == Seq(T)
             e == << >>
  <2>1. e \in Q /\ n \in Nat /\ step \in [(1..n) \X Q -> Q]
    BY <1>2
  <2> HIDE DEF Q, e
  <2>2. \E f : IsRecursion(f, n, e, step)
    BY ONLY <2>1, RecursionExists
  <2> QED BY <2>2 DEF e
<1>5. /\ f = [k \in 0..n |-> IF k = 0 THEN << >> ELSE step[<<k, f[k - 1]>>]]
      /\ f[0] = << >>
      /\ \A k \in 1..n : f[k] = step[<<k, f[k - 1]>>]
  BY <1>4, <1>1 DEF IsRecursion
<1>6. \A k \in 0..n : f[k] \in Seq(T)
  <2> DEFINE K == {k \in 0..n : f[k] \in Seq(T)}
  <2>1. 0 \in K
    <3>1. f[0] \in Seq(T)
      BY ONLY <1>5
    <3> QED BY <3>1
  <2>2. ASSUME NEW k \in 1..n, k - 1 \in K PROVE k \in K
    <3>1. f[k - 1] \in Seq(T)
      BY <2>2
    <3>2. step[<<k, f[k - 1]>>] \in Seq(T)
      BY <3>1, <1>2
    <3>3. f[k] \in Seq(T)
      BY ONLY <3>2, <1>5, k \in 1..n
    <3> QED BY <3>3
  <2>3. 0..n \subseteq K
    <3> HIDE DEF K
    <3> QED BY <2>1, <2>2, <1>1, UpTo
  <2> QED BY <2>3
<1>7. f = Body(f)
  <2>1. ASSUME NEW k \in 0..n
        PROVE  (IF k = 0 THEN << >> ELSE step[<<k, f[k - 1]>>])
                 = IF k = 0 THEN << >>
                   ELSE IF s[k] \in S THEN Append(f[k - 1], s[k]) ELSE f[k - 1]
    <3>1. CASE k = 0
      BY <3>1
    <3>2. CASE k # 0
      <4>1. k \in 1..n /\ f[k - 1] \in Seq(T)
        BY <3>2, <1>1, <1>6
      <4> QED BY <4>1, <1>3, <3>2
    <3> QED BY <3>1, <3>2
  <2> QED BY <2>1, <1>5, Zenon
<1>8. only = Body(only)
  <2> HIDE DEF Body
  <2> QED BY <1>7
<1>9. Only(s, S) = only[n]
  BY <1>0 DEF Only
<1> HIDE DEF only
<1>10. /\ only[0] = << >>
       /\ \A k \in 1..n :
            only[k] = IF s[k] \in S THEN Append(only[k - 1], s[k]) ELSE only[k - 1]
  <2>1. \A k \in 0..n : only[k] = IF k = 0 THEN << >>
                                  ELSE IF s[k] \in S THEN Append(only[k - 1], s[k])
                                  ELSE only[k - 1]
    BY <1>8, Zenon
  <2>2. 0 \in 0..n /\ \A k \in 1..n : k \in 0..n /\ k # 0
    OBVIOUS
  <2> HIDE DEF Body
  <2> QED BY ONLY <2>1, <2>2
<1>11. only \in [0..n -> Seq(T)]
  <2> DEFINE K == {k \in 0..n : only[k] \in Seq(T)}
  <2>1. 0 \in K
    <3>1. only[0] \in Seq(T)
      BY ONLY <1>10
    <3> QED BY <3>1
  <2>2. ASSUME NEW k \in 1..n, k - 1 \in K PROVE k \in K
    <3>1. only[k - 1] \in Seq(T) /\ s[k] \in T
      BY <2>2, <1>1
    <3>2. Append(only[k - 1], s[k]) \in Seq(T)
      BY <3>1
    <3>3. only[k] \in Seq(T)
      BY ONLY <3>1, <3>2, <1>10, k \in 1..n
    <3> QED BY <3>3
  <2>3. 0..n \subseteq K
    <3> HIDE DEF K
    <3> QED BY <2>1, <2>2, <1>1, UpTo
  <2>4. \A k \in 0..n : only[k] \in Seq(T)
    BY <2>3
  <2>5. only = [k \in 0..n |-> only[k]]
    BY <1>8
  <2> HIDE DEF Body
  <2> QED BY <2>4, <2>5
<1> HIDE DEF Body
<1>12. IsOnly(only, s, S)
  BY <1>0, <1>9, <1>10 DEF IsOnly
<1> QED BY <1>0, <1>11, <1>12

\* q consists of the entries in S among the first i of s: the k-th of q is the one
\* at position at[k] in s.
Picks(at, i, s, S, q) ==
  /\ at \in [1..Len(q) -> 1..i]
  /\ \A j, k \in 1..Len(q) : j < k => at[j] < at[k]
  /\ \A l \in 1..i : s[l] \in S <=> \E k \in 1..Len(q) : at[k] = l
  /\ \A k \in 1..Len(q) : q[k] = s[at[k]]

\* One more entry that is in S ...
LEMMA PicksMore ==
  ASSUME NEW T, NEW s \in Seq(T), NEW S, NEW i \in 1..Len(s), NEW q \in Seq(T), NEW at,
         Picks(at, i - 1, s, S, q), s[i] \in S
  PROVE  \E to : Picks(to, i, s, S, Append(q, s[i]))
<1>0. PICK m \in Nat : m = Len(q)
  OBVIOUS
<1>1. /\ at \in [1..m -> 1..i - 1]
      /\ \A j, k \in 1..m : j < k => at[j] < at[k]
      /\ \A l \in 1..i - 1 : s[l] \in S <=> \E k \in 1..m : at[k] = l
      /\ \A k \in 1..m : q[k] = s[at[k]]
      /\ s[i] \in T /\ i \in Nat \ {0}
  BY <1>0 DEF Picks
<1> DEFINE r  == Append(q, s[i])
           to == [k \in 1..m + 1 |-> IF k = m + 1 THEN i ELSE at[k]]
<1>2. /\ Len(r) = m + 1 /\ r[m + 1] = s[i]
      /\ \A k \in 1..m : r[k] = q[k]
  BY <1>0, <1>1
<1>3. /\ to \in [1..m + 1 -> 1..i] /\ to[m + 1] = i
      /\ \A k \in 1..m : to[k] = at[k] /\ at[k] \in 1..i - 1
  BY <1>1
<1> HIDE DEF to, r
<1>4. \A k \in 1..m + 1 : k = m + 1 \/ k \in 1..m
  OBVIOUS
<1>5. \A j, k \in 1..m + 1 : j < k => to[j] < to[k]
  <2> SUFFICES ASSUME NEW j \in 1..m + 1, NEW k \in 1..m + 1, j < k
               PROVE  to[j] < to[k]
    OBVIOUS
  <2>1. j \in 1..m
    OBVIOUS
  <2>2. CASE k = m + 1
    BY <2>1, <2>2, <1>3
  <2>3. CASE k \in 1..m
    BY <2>1, <2>3, <1>1, <1>3
  <2> QED BY <2>2, <2>3, <1>4
<1>6. \A k \in 1..m + 1 : r[k] = s[to[k]]
  BY <1>1, <1>2, <1>3, <1>4
<1>7. \A l \in 1..i : s[l] \in S <=> \E k \in 1..m + 1 : to[k] = l
  <2> SUFFICES ASSUME NEW l \in 1..i
               PROVE  s[l] \in S <=> \E k \in 1..m + 1 : to[k] = l
    OBVIOUS
  <2>1. CASE l = i
    BY <2>1, <1>1, <1>3
  <2>2. CASE l # i
    <3>1. l \in 1..i - 1
      BY <2>2, <1>1
    <3>2. s[l] \in S <=> \E k \in 1..m : at[k] = l
      BY ONLY <3>1, <1>1
    <3>3. (\E k \in 1..m : at[k] = l) <=> \E k \in 1..m + 1 : to[k] = l
      <4>1. \A k \in 1..m : k \in 1..m + 1
        OBVIOUS
      <4> QED BY ONLY <4>1, <1>3, <1>4, <2>2
    <3> QED BY <3>2, <3>3
  <2> QED BY <2>1, <2>2
<1>8. Picks(to, i, s, S, r)
  BY <1>2, <1>3, <1>5, <1>6, <1>7 DEF Picks
<1> QED BY <1>8 DEF r

\* ... and one that is not.
LEMMA PicksNoMore ==
  ASSUME NEW s, NEW S, NEW i \in Nat \ {0}, NEW q, NEW at, Len(q) \in Nat,
         Picks(at, i - 1, s, S, q), s[i] \notin S
  PROVE  Picks(at, i, s, S, q)
<1>1. at \in [1..Len(q) -> 1..i]
  BY DEF Picks
<1>2. \A l \in 1..i : s[l] \in S <=> \E k \in 1..Len(q) : at[k] = l
  <2> SUFFICES ASSUME NEW l \in 1..i
               PROVE  s[l] \in S <=> \E k \in 1..Len(q) : at[k] = l
    OBVIOUS
  <2>1. CASE l = i
    BY <2>1 DEF Picks
  <2>2. CASE l # i
    <3>1. l \in 1..i - 1
      BY <2>2
    <3> QED BY ONLY <3>1, Picks(at, i - 1, s, S, q) DEF Picks
  <2> QED BY <2>1, <2>2
<1> QED BY <1>1, <1>2 DEF Picks

\* Only(s, S) takes the entries of s that are in S and no others, in their order.
LEMMA OnlyPicks ==
  ASSUME NEW T, NEW s \in Seq(T), NEW S
  PROVE  /\ Only(s, S) \in Seq(T)
         /\ \E at : Picks(at, Len(s), s, S, Only(s, S))
<1>0. PICK n \in Nat : n = Len(s)
  OBVIOUS
<1>1. PICK f : IsOnly(f, s, S) /\ f \in [0..Len(s) -> Seq(T)]
  BY OnlyUnfolds
<1>2. /\ f[0] = << >>
      /\ \A k \in 1..n : f[k] = IF s[k] \in S THEN Append(f[k - 1], s[k]) ELSE f[k - 1]
      /\ Only(s, S) = f[n]
      /\ f \in [0..n -> Seq(T)]
  BY <1>0, <1>1 DEF IsOnly
<1> DEFINE K == {i \in 0..n : \E at : Picks(at, i, s, S, f[i])}
<1>3. 0 \in K
  <2> DEFINE at == [k \in 1..0 |-> 1]
  <2>1. Picks(at, 0, s, S, << >>)
    BY DEF Picks
  <2> HIDE DEF at
  <2> QED BY <2>1, <1>2
<1>4. ASSUME NEW i \in 1..n, i - 1 \in K PROVE i \in K
  <2>1. PICK at : Picks(at, i - 1, s, S, f[i - 1])
    BY <1>4
  <2>2. f[i - 1] \in Seq(T) /\ Len(f[i - 1]) \in Nat
    BY <1>2
  <2>3. f[i] = IF s[i] \in S THEN Append(f[i - 1], s[i]) ELSE f[i - 1]
    BY <1>2
  <2>4. CASE s[i] \in S
    <3> DEFINE q == f[i - 1]
    <3>1. q \in Seq(T) /\ Picks(at, i - 1, s, S, q) /\ i \in 1..Len(s)
      BY <2>1, <2>2, <1>0
    <3> HIDE DEF q
    <3>2. \E to : Picks(to, i, s, S, Append(q, s[i]))
      BY ONLY <3>1, <2>4, s \in Seq(T), PicksMore
    <3>3. Append(q, s[i]) = f[i]
      BY <2>3, <2>4 DEF q
    <3>4. \E to : Picks(to, i, s, S, f[i])
      BY ONLY <3>2, <3>3
    <3> QED BY <3>4
  <2>5. CASE s[i] \notin S
    <3>1. i \in Nat \ {0}
      OBVIOUS
    <3>2. Picks(at, i, s, S, f[i - 1])
      BY <3>1, <2>1, <2>2, <2>5, PicksNoMore
    <3> QED BY <3>2, <2>3, <2>5
  <2> QED BY <2>4, <2>5
<1>5. n \in K
  <2> HIDE DEF K
  <2>1. 0..n \subseteq K
    BY <1>3, <1>4, UpTo
  <2> QED BY ONLY <2>1, n \in Nat
<1>6. \E at : Picks(at, n, s, S, f[n])
  BY <1>5
<1> HIDE DEF K
<1> QED BY <1>0, <1>2, <1>6

\* So it names what s names in S, without repeating what s does not repeat.
LEMMA OnlyKeeps ==
  ASSUME NEW T, NEW s \in Seq(T), NEW S
  PROVE  /\ Only(s, S) \in Seq(T)
         /\ Range(Only(s, S)) = Range(s) \cap S
         /\ IsInjective(s) => IsInjective(Only(s, S))
<1> DEFINE q == Only(s, S)
<1>0. q \in Seq(T)
  BY OnlyPicks
<1>1. PICK at : Picks(at, Len(s), s, S, q)
  BY OnlyPicks
<1> HIDE DEF q
<1>2. PICK m \in Nat : m = Len(q)
  BY <1>0
<1>3. DOMAIN q = 1..m /\ DOMAIN s = 1..Len(s) /\ Len(s) \in Nat
  BY <1>0, <1>2
<1>4. /\ \A k \in 1..m : at[k] \in 1..Len(s) /\ q[k] = s[at[k]]
      /\ \A j, k \in 1..m : j < k => at[j] < at[k]
      /\ \A l \in 1..Len(s) : s[l] \in S <=> \E k \in 1..m : at[k] = l
  BY <1>1, <1>2 DEF Picks
<1>5. Range(q) = Range(s) \cap S
  BY <1>3, <1>4 DEF Range
<1>6. ASSUME IsInjective(s), NEW j \in 1..m, NEW k \in 1..m, q[j] = q[k]
      PROVE  j = k
  <2>1. at[j] \in DOMAIN s /\ at[k] \in DOMAIN s /\ s[at[j]] = s[at[k]]
    BY <1>3, <1>4, <1>6
  <2>2. at[j] = at[k]
    BY ONLY <2>1, <1>6 DEF IsInjective
  <2>3. ~(j < k) /\ ~(k < j)
    BY <2>2, <1>3, <1>4
  <2> QED BY <2>3
<1>7. IsInjective(s) => IsInjective(q)
  BY <1>3, <1>6 DEF IsInjective
<1> QED BY <1>0, <1>5, <1>7 DEF q
===============================================================================
