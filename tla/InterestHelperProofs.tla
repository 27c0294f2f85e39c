------------------------- MODULE InterestHelperProofs -------------------------
(* Proofs about the announcement of interests, for any network, any number of  *)
(* interests and any ttl.                                                      *)
EXTENDS InterestHelper, ListsProofs, FiniteSetTheorems

-----------------------------------------------------------------------------
(* Lists of interests with one of a type *)

OnePer(q) == \A j, k \in DOMAIN q : q[j].type = q[k].type => j = k

Singles == {q \in Seq(Interest) : OnePer(q)}
Counts == 0..CountRange - 1

\* A list whose types are those of a list with one of a type, at different places.
LEMMA PartOfList ==
  ASSUME NEW q \in Singles, NEW s \in Seq(Interest), NEW at,
         \A k \in DOMAIN s : at[k] \in DOMAIN q /\ s[k].type = q[at[k]].type,
         \A j, k \in DOMAIN s : at[j] = at[k] => j = k
  PROVE  s \in Singles
<1>1. \A j, k \in DOMAIN q : q[j].type = q[k].type => j = k
  BY DEF Singles, OnePer
<1>2. ASSUME NEW j \in DOMAIN s, NEW k \in DOMAIN s, s[j].type = s[k].type
      PROVE  j = k
  <2>1. at[j] \in DOMAIN q /\ at[k] \in DOMAIN q /\ q[at[j]].type = q[at[k]].type
    BY <1>2
  <2>2. at[j] = at[k]
    BY <1>1, <2>1
  <2> QED BY <2>2
<1> QED BY <1>2 DEF Singles, OnePer

\* Two such lists without a type in common.
LEMMA JoinLists ==
  ASSUME NEW a \in Singles, NEW b \in Singles,
         \A i \in ToSet(a), j \in ToSet(b) : i.type # j.type
  PROVE  a \o b \in Singles /\ ToSet(a \o b) = ToSet(a) \cup ToSet(b)
<1>0. a \in Seq(Interest) /\ b \in Seq(Interest)
  BY DEF Singles
<1>1. PICK m \in Nat, n \in Nat : m = Len(a) /\ n = Len(b)
  BY <1>0
<1> DEFINE c == a \o b
<1>2. /\ c \in Seq(Interest) /\ Len(c) = m + n
      /\ \A k \in 1..m : c[k] = a[k]
      /\ \A k \in 1..n : c[m + k] = b[k]
  BY <1>0, <1>1
<1> HIDE DEF c
<1>3. DOMAIN a = 1..m /\ DOMAIN b = 1..n /\ DOMAIN c = 1..m + n
  BY <1>0, <1>1, <1>2
<1>4. \A k \in 1..m + n : k \in 1..m \/ (k - m \in 1..n /\ m + (k - m) = k)
  BY <1>1
<1>5. \A k \in 1..m : a[k] \in ToSet(a)
  BY <1>3 DEF ToSet
<1>6. \A k \in 1..n : b[k] \in ToSet(b)
  BY <1>3 DEF ToSet
<1>7. /\ \A j, k \in 1..m : a[j].type = a[k].type => j = k
      /\ \A j, k \in 1..n : b[j].type = b[k].type => j = k
  BY <1>3 DEF Singles, OnePer
<1>8. ASSUME NEW j \in 1..m + n, NEW k \in 1..m + n, c[j].type = c[k].type
      PROVE  j = k
  <2>1. CASE j \in 1..m /\ k \in 1..m
    BY <1>2, <1>7, <1>8, <2>1
  <2>2. CASE j \in 1..m /\ k - m \in 1..n /\ m + (k - m) = k
    BY <1>2, <1>5, <1>6, <1>8, <2>2
  <2>3. CASE j - m \in 1..n /\ m + (j - m) = j /\ k \in 1..m
    BY <1>2, <1>5, <1>6, <1>8, <2>3
  <2>4. CASE j - m \in 1..n /\ m + (j - m) = j /\ k - m \in 1..n /\ m + (k - m) = k
    <3>1. b[j - m].type = b[k - m].type
      BY <1>2, <1>8, <2>4
    <3>2. j - m = k - m
      BY <1>7, <2>4, <3>1
    <3> QED BY <3>2
  <2> QED BY <1>4, <2>1, <2>2, <2>3, <2>4
<1>9. c \in Singles
  BY <1>2, <1>3, <1>8 DEF Singles, OnePer
<1>10. ToSet(c) = ToSet(a) \cup ToSet(b)
  <2>1. \A k \in 1..m + n : c[k] \in ToSet(a) \cup ToSet(b)
    BY <1>2, <1>4, <1>5, <1>6
  <2>2. \A k \in 1..m : k \in 1..m + n
    OBVIOUS
  <2>3. \A k \in 1..n : m + k \in 1..m + n
    OBVIOUS
  <2>4. ToSet(c) = {c[k] : k \in 1..m + n} /\ ToSet(a) = {a[k] : k \in 1..m}
        /\ ToSet(b) = {b[k] : k \in 1..n}
    BY <1>3 DEF ToSet
  <2>5. ToSet(c) \subseteq ToSet(a) \cup ToSet(b)
    BY <2>1, <2>4
  <2>6. ToSet(a) \subseteq ToSet(c)
    BY <1>2, <2>2, <2>4
  <2>7. ToSet(b) \subseteq ToSet(c)
    BY <1>2, <2>3, <2>4
  <2> QED BY <2>5, <2>6, <2>7
<1> QED BY <1>9, <1>10 DEF c

LEMMA OneAlone ==
  ASSUME NEW i \in Interest
  PROVE  <<i>> \in Singles /\ ToSet(<<i>>) = {i}
BY DEF Singles, OnePer, ToSet

\* An interest in front of others of other types.
LEMMA InFront ==
  ASSUME NEW i \in Interest, NEW q \in Singles, \A j \in ToSet(q) : j.type # i.type
  PROVE  <<i>> \o q \in Singles /\ ToSet(<<i>> \o q) = {i} \cup ToSet(q)
BY OneAlone, JoinLists

\* What is filtered.
LEMMA OnlyOfList ==
  ASSUME NEW q \in Singles, NEW S
  PROVE  Only(q, S) \in Singles /\ ToSet(Only(q, S)) = ToSet(q) \cap S
<1> DEFINE s == Only(q, S)
<1>1. q \in Seq(Interest)
  BY DEF Singles
<1>2. s \in Seq(Interest) /\ Range(s) = Range(q) \cap S
  BY <1>1, OnlyKeeps
<1>3. PICK at : Picks(at, Len(q), q, S, s)
  BY <1>1, OnlyPicks
<1> HIDE DEF s
<1>4. PICK m \in Nat, n \in Nat : m = Len(s) /\ n = Len(q)
  BY <1>1, <1>2
<1>5. DOMAIN s = 1..m /\ DOMAIN q = 1..n
  BY <1>1, <1>2, <1>4
<1>6. /\ at \in [1..m -> 1..n]
      /\ \A j, k \in 1..m : j < k => at[j] < at[k]
      /\ \A k \in 1..m : s[k] = q[at[k]]
  BY <1>3, <1>4 DEF Picks
<1>7. ASSUME NEW j \in 1..m, NEW k \in 1..m, at[j] = at[k] PROVE j = k
  <2>1. at[j] \in 1..n /\ at[k] \in 1..n
    BY <1>6
  <2>2. ~(j < k) /\ ~(k < j)
    BY <1>6, <1>7, <2>1
  <2> QED BY <2>2
<1>8. s \in Singles
  <2>1. \A k \in DOMAIN s : at[k] \in DOMAIN q /\ s[k].type = q[at[k]].type
    BY <1>5, <1>6
  <2>2. \A j, k \in DOMAIN s : at[j] = at[k] => j = k
    BY <1>5, <1>7
  <2> QED BY <1>2, <2>1, <2>2, PartOfList
<1>9. ToSet(s) = ToSet(q) \cap S
  BY <1>2 DEF ToSet, Range
<1> QED BY <1>8, <1>9 DEF s

\* What is left when one interest is taken out: those of other types.
LEMMA Removed ==
  ASSUME NEW q \in Singles, NEW k \in DOMAIN q
  PROVE  /\ RemoveAt(q, k) \in Singles
         /\ ToSet(RemoveAt(q, k)) = {i \in ToSet(q) : i.type # q[k].type}
<1>0. q \in Seq(Interest)
  BY DEF Singles
<1>1. PICK n \in Nat : n = Len(q) /\ DOMAIN q = 1..n
  BY <1>0
<1> DEFINE a == SubSeq(q, 1, k - 1)
           b == SubSeq(q, k + 1, n)
<1>2. /\ a \in Seq(Interest) /\ Len(a) = k - 1 /\ DOMAIN a = 1..k - 1
      /\ \A j \in 1..k - 1 : a[j] = q[j]
  BY <1>0, <1>1
<1>3. /\ b \in Seq(Interest) /\ Len(b) = n - k /\ DOMAIN b = 1..n - k
      /\ \A j \in 1..n - k : b[j] = q[k + j]
  BY <1>0, <1>1
<1> HIDE DEF a, b
<1>4. \A i, j \in 1..n : q[i].type = q[j].type => i = j
  BY <1>1 DEF Singles, OnePer
<1>5. a \in Singles
  <2> DEFINE at == [j \in 1..k - 1 |-> j]
  <2>1. \A j \in DOMAIN a : at[j] \in DOMAIN q /\ a[j].type = q[at[j]].type
    BY <1>1, <1>2
  <2>2. \A i, j \in DOMAIN a : at[i] = at[j] => i = j
    BY <1>2
  <2> HIDE DEF at
  <2> QED BY <1>2, <2>1, <2>2, PartOfList
<1>6. b \in Singles
  <2> DEFINE at == [j \in 1..n - k |-> k + j]
  <2>1. \A j \in DOMAIN b : at[j] \in DOMAIN q /\ b[j].type = q[at[j]].type
    BY <1>1, <1>3
  <2>2. \A i, j \in DOMAIN b : at[i] = at[j] => i = j
    BY <1>1, <1>3
  <2> HIDE DEF at
  <2> QED BY <1>3, <2>1, <2>2, PartOfList
<1>7. ToSet(a) = {q[j] : j \in 1..k - 1}
  BY <1>2 DEF ToSet
<1>8. ToSet(b) = {q[j] : j \in k + 1..n}
  <2>1. \A j \in k + 1..n : j - k \in 1..n - k /\ k + (j - k) = j
    BY <1>1
  <2>2. \A j \in 1..n - k : k + j \in k + 1..n
    BY <1>1
  <2> QED BY <1>3, <2>1, <2>2 DEF ToSet
<1>9. \A i \in ToSet(a), j \in ToSet(b) : i.type # j.type
  <2> SUFFICES ASSUME NEW i \in 1..k - 1, NEW j \in k + 1..n
               PROVE  q[i].type # q[j].type
    BY <1>7, <1>8
  <2>1. i \in 1..n /\ j \in 1..n /\ i # j
    BY <1>1
  <2> QED BY <1>4, <2>1
<1>10. RemoveAt(q, k) = a \o b
  BY <1>1 DEF RemoveAt, a, b
<1>11. a \o b \in Singles /\ ToSet(a \o b) = ToSet(a) \cup ToSet(b)
  BY <1>5, <1>6, <1>9, JoinLists
<1>12. ToSet(a) \cup ToSet(b) = {i \in ToSet(q) : i.type # q[k].type}
  <2>1. ToSet(q) = {q[j] : j \in 1..n}
    BY <1>1 DEF ToSet
  <2>2. \A j \in 1..n : q[j].type # q[k].type <=> j \in 1..k - 1 \/ j \in k + 1..n
    BY <1>1, <1>4
  <2>3. \A j \in (1..k - 1) \cup (k + 1..n) : j \in 1..n
    BY <1>1
  <2> QED BY <1>7, <1>8, <2>1, <2>2, <2>3
<1> QED BY <1>10, <1>11, <1>12

\* Where a type is in a list.
LEMMA AtIs ==
  ASSUME NEW q \in Singles, NEW t
  PROVE  \/ At(q, t) = 0 /\ \A i \in ToSet(q) : i.type # t
         \/ At(q, t) \in DOMAIN q /\ At(q, t) # 0 /\ q[At(q, t)].type = t
<1> DEFINE there == {k \in DOMAIN q : q[k].type = t}
<1>0. q \in Seq(Interest)
  BY DEF Singles
<1>1. there \in SUBSET Nat /\ 0 \notin there
  BY <1>0
<1>2. CASE there = {}
  BY <1>2 DEF At, ToSet
<1>3. CASE there # {}
  <2>1. At(q, t) = Min(there)
    BY <1>3 DEF At
  <2>2. Min(there) \in there
    <3> HIDE DEF there
    <3> QED BY <1>1, <1>3, MinIs
  <2> QED BY <1>1, <2>1, <2>2
<1> QED BY <1>2, <1>3
-----------------------------------------------------------------------------
(* Interests *)

\* An interest with another ttl ...
LEMMA WithTtl ==
  ASSUME NEW i \in Interest, NEW t \in 0..TTLRange - 1, NEW j, j = [i EXCEPT !.ttl = t]
  PROVE  /\ j \in Interest
         /\ j.hops = i.hops /\ j.ttl = t /\ j.type = i.type /\ j.left = i.left
BY DEF Interest

\* ... and with another time left.
LEMMA WithLeft ==
  ASSUME NEW i \in Interest, NEW l \in 0..TTLRange - 1, NEW j, j = [i EXCEPT !.left = l]
  PROVE  /\ j \in Interest
         /\ j.hops = i.hops /\ j.ttl = i.ttl /\ j.type = i.type /\ j.left = l
BY DEF Interest

\* update_with() takes the fewer hops and the longer ttl, and leaves the rest.
LEMMA UpdatedIs ==
  ASSUME NEW known \in Interest, NEW i \in Item
  PROVE  /\ Updated(known, i) \in Interest
         /\ Updated(known, i).type = known.type /\ Updated(known, i).left = known.left
         /\ Updated(known, i).hops = (IF i.hops < known.hops THEN i.hops ELSE known.hops)
         /\ Updated(known, i).ttl = (IF i.ttl > known.ttl THEN i.ttl ELSE known.ttl)
<1> DEFINE h == IF i.hops < known.hops THEN i.hops ELSE known.hops
           t == IF i.ttl > known.ttl THEN i.ttl ELSE known.ttl
<1>1. h \in 0..HopRange - 1 /\ t \in 0..TTLRange - 1 /\ known.left \in 0..TTLRange - 1
  BY DEF Interest, Item
<1>2. Updated(known, i) = [known EXCEPT !.hops = h, !.ttl = t]
  BY DEF Updated, Closer, Newer
<1>3. /\ h = (IF i.hops < known.hops THEN i.hops ELSE known.hops)
      /\ t = (IF i.ttl > known.ttl THEN i.ttl ELSE known.ttl)
  OBVIOUS
<1> HIDE DEF h, t
<1>4. PICK j : j = Updated(known, i)
  OBVIOUS
<1>5. /\ j \in Interest
      /\ j.hops = h /\ j.ttl = t /\ j.type = known.type /\ j.left = known.left
  <2>1. j = [known EXCEPT !.hops = h, !.ttl = t]
    BY <1>2, <1>4
  <2>2. h \in 0..HopRange - 1 /\ t \in 0..TTLRange - 1
    BY <1>1
  <2> QED BY ONLY known \in Interest, <2>1, <2>2 DEF Interest
<1> QED BY <1>3, <1>4, <1>5

LEMMA ElapsedIs ==
  ASSUME NEW i \in Interest
  PROVE  /\ Elapsed(i) \in Interest
         /\ Elapsed(i).type = i.type /\ Elapsed(i).hops = i.hops
         /\ Local(i) => Elapsed(i).ttl = i.ttl
         /\ ~Local(i) => Elapsed(i).ttl = i.left /\ Elapsed(i).left = i.left
<1>1. i.left \in 0..TTLRange - 1 /\ i.ttl \in 0..TTLRange - 1 /\ i.hops \in 0..HopRange - 1
  BY DEF Interest
<1>2. CASE Local(i)
  <2>1. Elapsed(i) = [i EXCEPT !.left = i.ttl]
    BY <1>2 DEF Elapsed
  <2>2. PICK j : j = Elapsed(i)
    OBVIOUS
  <2>3. /\ j \in Interest
        /\ j.hops = i.hops /\ j.ttl = i.ttl /\ j.type = i.type /\ j.left = i.ttl
    BY <1>1, <2>1, <2>2, WithLeft
  <2> QED BY <1>2, <2>2, <2>3
<1>3. CASE ~Local(i)
  <2>1. Elapsed(i) = [i EXCEPT !.ttl = i.left]
    BY <1>3 DEF Elapsed
  <2>2. PICK j : j = Elapsed(i)
    OBVIOUS
  <2>3. /\ j \in Interest
        /\ j.hops = i.hops /\ j.ttl = i.left /\ j.type = i.type /\ j.left = i.left
    BY <1>1, <2>1, <2>2, WithTtl
  <2> QED BY <1>3, <2>2, <2>3
<1> QED BY <1>2, <1>3

LEMMA FartherIs ==
  ASSUME NEW i \in Item
  PROVE  /\ Farther(i) \in Item
         /\ Farther(i).type = i.type /\ Farther(i).ttl = i.ttl
         /\ Farther(i).hops = (i.hops + 1) % HopRange
<1> DEFINE h == (i.hops + 1) % HopRange
<1>1. h \in 0..HopRange - 1
  BY InterestAssumption DEF Item
<1>2. Farther(i) = [i EXCEPT !.hops = h]
  BY DEF Farther
<1> HIDE DEF h
<1>3. [i EXCEPT !.hops = h] \in Item /\ [i EXCEPT !.hops = h].type = i.type
      /\ [i EXCEPT !.hops = h].ttl = i.ttl /\ [i EXCEPT !.hops = h].hops = h
  BY <1>1 DEF Item
<1> QED BY <1>2, <1>3 DEF h

\* to_announce stays within its width.
LEMMA CountsAre ==
  /\ \A a \in Counts, b \in Nat : Plus(a, b) \in Counts /\ Minus(a, b) \in Counts
  /\ \A b \in Nat : b % CountRange \in Counts
BY InterestAssumption DEF Plus, Minus, Counts

-----------------------------------------------------------------------------
(* What is done to a table *)

Own(t)   == [type |-> t, ttl |-> TTL, hops |-> 0, left |-> TTL]
Heard(i) == [type |-> i.type, ttl |-> i.ttl, hops |-> i.hops, left |-> i.ttl]

IsTable(tab) == tab \in Singles \X Counts

\* create_local() leaves the list as it is, or has an own interest in the place of the
\* one of the type.
LEMMA WithLocalIs ==
  ASSUME NEW q \in Singles, NEW todo \in Counts, NEW t \in Types
  PROVE  LET tab == WithLocal(q, todo, t)
         IN  /\ IsTable(tab)
             /\ \/ tab[1] = q
                \/ ToSet(tab[1]) = {Own(t)} \cup {i \in ToSet(q) : i.type # t}
<1> DEFINE k     == At(q, t)
           rest  == Only(q, {i \in ToSet(q) : i.type # t})
           freed == IF k # 0 /\ k <= todo THEN Minus(todo, 1) ELSE todo
           tab   == WithLocal(q, todo, t)
<1>1. Own(t) \in Interest
  BY InterestAssumption DEF Own, Interest
<1>2. rest \in Singles /\ ToSet(rest) = {i \in ToSet(q) : i.type # t}
  BY OnlyOfList
<1>3. Own(t).type = t
  BY DEF Own
<1>4. \A j \in ToSet(rest) : j.type # Own(t).type
  BY <1>2, <1>3
<1>5. /\ <<Own(t)>> \o rest \in Singles
      /\ ToSet(<<Own(t)>> \o rest) = {Own(t)} \cup ToSet(rest)
  <2> HIDE DEF rest
  <2> QED BY <1>1, <1>2, <1>4, InFront
<1>6. freed \in Counts /\ Plus(freed, 1) \in Counts
  BY CountsAre
<1>7. tab = <<q, todo>> \/ tab = <<<<Own(t)>> \o rest, Plus(freed, 1)>>
  BY DEF WithLocal, Own
<1> HIDE DEF tab, rest, freed
<1>8. CASE tab = <<q, todo>>
  BY <1>8 DEF IsTable, tab
<1>9. CASE tab = <<<<Own(t)>> \o rest, Plus(freed, 1)>>
  <2>1. tab[1] = <<Own(t)>> \o rest /\ tab[2] = Plus(freed, 1)
    BY <1>9
  <2>2. IsTable(tab)
    BY <1>5, <1>6, <1>9 DEF IsTable
  <2>3. ToSet(tab[1]) = {Own(t)} \cup {i \in ToSet(q) : i.type # t}
    BY <1>2, <1>5, <2>1
  <2> QED BY <2>2, <2>3 DEF tab
<1> QED BY <1>7, <1>8, <1>9

\* learn_remote() adds an interest, updates the one of the type, or does nothing.
LEMMA LearnedIs ==
  ASSUME NEW q \in Singles, NEW todo \in Counts, NEW i \in Item
  PROVE  LET tab == Learned(q, todo, i)
         IN  /\ IsTable(tab)
             /\ \/ tab[1] = q
                \/ /\ \A j \in ToSet(q) : j.type # i.type
                   /\ ToSet(tab[1]) = {Heard(i)} \cup ToSet(q)
                \/ \E known \in ToSet(q) :
                     /\ known.type = i.type
                     /\ ToSet(tab[1]) = {Updated(known, i)}
                                          \cup {j \in ToSet(q) : j.type # i.type}
<1> DEFINE k   == At(q, i.type)
           tab == Learned(q, todo, i)
<1>0. q \in Seq(Interest)
  BY DEF Singles
<1>1. CASE k = 0
  <2>1. \A j \in ToSet(q) : j.type # i.type
    BY <1>0, <1>1, AtIs
  <2>2. Heard(i) \in Interest /\ Heard(i).type = i.type
    BY DEF Heard, Interest, Item
  <2>3. <<Heard(i)>> \o q \in Singles /\ ToSet(<<Heard(i)>> \o q) = {Heard(i)} \cup ToSet(q)
    BY <2>1, <2>2, InFront
  <2>4. tab = <<<<Heard(i)>> \o q, Plus(todo, 1)>> /\ Plus(todo, 1) \in Counts
    BY <1>1, CountsAre DEF Learned, Heard
  <2> HIDE DEF tab
  <2>5. IsTable(tab) /\ tab[1] = <<Heard(i)>> \o q
    BY <2>3, <2>4 DEF IsTable
  <2> QED BY <2>1, <2>3, <2>5 DEF tab
<1>2. CASE k # 0 /\ (Closer(i, q[k]) \/ Newer(i, q[k]))
  <2> DEFINE new  == Updated(q[k], i)
             rest == RemoveAt(q, k)
             todo1 == IF k > todo THEN Plus(todo, 1) ELSE todo
  <2>1. k \in DOMAIN q /\ q[k].type = i.type
    BY <1>2, AtIs
  <2>2. q[k] \in Interest /\ q[k] \in ToSet(q)
    BY <1>0, <2>1 DEF ToSet
  <2>3. new \in Interest /\ new.type = i.type
    BY <2>1, <2>2, UpdatedIs
  <2>4. rest \in Singles /\ ToSet(rest) = {j \in ToSet(q) : j.type # i.type}
    BY <2>1, Removed
  <2>5. <<new>> \o rest \in Singles /\ ToSet(<<new>> \o rest) = {new} \cup ToSet(rest)
    <3> HIDE DEF new, rest
    <3> QED BY <2>3, <2>4, InFront
  <2>6. tab = <<<<new>> \o rest, todo1>> /\ todo1 \in Counts
    BY <1>2, CountsAre DEF Learned
  <2> HIDE DEF tab, new, rest, todo1
  <2>7. IsTable(tab) /\ tab[1] = <<new>> \o rest
    BY <2>5, <2>6 DEF IsTable
  <2>8. ToSet(tab[1]) = {Updated(q[k], i)} \cup {j \in ToSet(q) : j.type # i.type}
    BY <2>4, <2>5, <2>7 DEF new
  <2> QED BY <2>1, <2>2, <2>7, <2>8 DEF tab
<1>3. CASE k # 0 /\ ~(Closer(i, q[k]) \/ Newer(i, q[k]))
  <2>1. tab = <<q, todo>>
    BY <1>3 DEF Learned
  <2> HIDE DEF tab
  <2>2. IsTable(tab) /\ tab[1] = q
    BY <2>1 DEF IsTable
  <2> QED BY <2>2 DEF tab
<1> QED BY <1>1, <1>2, <1>3

\* announce() stops somewhere in the list.
LEMMA ProcessedIs ==
  ASSUME NEW q \in Seq(Interest)
  PROVE  Processed(q) \in 0..Len(q)
<1> DEFINE K == {k \in 0..Len(q) : Cardinality(Alive(q, k)) <= MessageRoom}
<1>0. PICK n \in Nat : n = Len(q)
  OBVIOUS
<1>1. ASSUME NEW k \in 0..n PROVE Cardinality(Alive(q, k)) \in Nat
  <2>1. Alive(q, k) \subseteq 1..k /\ IsFiniteSet(1..k)
    BY FS_Interval DEF Alive
  <2> QED BY <2>1, FS_Subset, FS_CardinalityType
<1>2. 0 \in K
  <2>1. Alive(q, 0) = {}
    BY DEF Alive
  <2>2. Cardinality(Alive(q, 0)) = 0
    BY <2>1, FS_EmptySet
  <2> QED BY <1>0, <2>2, InterestAssumption
<1>3. K \in SUBSET Int /\ K # {} /\ n \in Int /\ \A k \in K : k <= n
  BY <1>0, <1>2
<1>4. PICK k \in K : \A j \in K : j <= k
  <2> HIDE DEF K
  <2> QED BY ONLY <1>3, GreatestOfInts
<1>5. ASSUME k < n PROVE Cardinality(Alive(q, k + 1)) > MessageRoom
  <2>1. k + 1 \in 0..n /\ ~(k + 1 <= k)
    BY <1>0, <1>5
  <2>2. ~(Cardinality(Alive(q, k + 1)) <= MessageRoom)
    BY <1>0, <1>4, <2>1
  <2>3. Cardinality(Alive(q, k + 1)) \in Nat /\ MessageRoom \in Nat
    BY <1>1, <2>1, InterestAssumption
  <2> QED BY <2>2, <2>3
<1>6. /\ k \in 0..Len(q) /\ Cardinality(Alive(q, k)) <= MessageRoom
      /\ k < Len(q) => Cardinality(Alive(q, k + 1)) > MessageRoom
  BY <1>0, <1>4, <1>5
<1> HIDE DEF K
<1> QED BY <1>6 DEF Processed

\* announce() sends what is not expired, and keeps all but the expired, some brought up
\* to date.
LEMMA AnnouncedIs ==
  ASSUME NEW q \in Singles
  PROVE  /\ Sent(q) \in Singles
         /\ \A i \in ToSet(Sent(q)) : ~Expired(i) /\ \E j \in ToSet(q) : i = Elapsed(j)
         /\ Unsent(q) \o Sent(q) \in Singles
         /\ \A i \in ToSet(Unsent(q) \o Sent(q)) :
              \E j \in ToSet(q) : i = j \/ i = Elapsed(j)
         /\ \A j \in ToSet(q) :
              \/ Expired(Elapsed(j))
              \/ j \in ToSet(Unsent(q) \o Sent(q))
              \/ Elapsed(j) \in ToSet(Unsent(q) \o Sent(q))
<1>0. q \in Seq(Interest)
  BY DEF Singles
<1>1. PICK p \in Nat, n \in Nat : p = Processed(q) /\ n = Len(q) /\ p <= n
  BY <1>0, ProcessedIs
<1>2. /\ DOMAIN q = 1..n
      /\ \A k \in 1..n : /\ q[k] \in Interest /\ q[k] \in ToSet(q)
                         /\ Elapsed(q[k]) \in Interest /\ Elapsed(q[k]).type = q[k].type
  <2>1. DOMAIN q = 1..n /\ \A k \in 1..n : q[k] \in Interest
    BY <1>0, <1>1
  <2> QED BY <2>1, ElapsedIs DEF ToSet
<1>3. \A j, k \in 1..n : q[j].type = q[k].type => j = k
  BY <1>2 DEF Singles, OnePer
<1> DEFINE seen == [k \in 1..p |-> Elapsed(q[k])]
           sent == Sent(q)
           rest == Unsent(q)
<1>4. seen \in Seq(Interest) /\ DOMAIN seen = 1..p /\ \A k \in 1..p : seen[k] = Elapsed(q[k])
  <2>1. seen \in [1..p -> Interest]
    BY <1>1, <1>2
  <2> QED BY <1>1, <2>1
<1>5. /\ rest \in Seq(Interest) /\ DOMAIN rest = 1..n - p
      /\ \A k \in 1..n - p : rest[k] = q[p + k] \/ rest[k] = Elapsed(q[p + k])
  <2>1. rest = [k \in 1..n - p |-> IF k = 1 THEN Elapsed(q[p + 1]) ELSE q[p + k]]
    BY <1>1 DEF Unsent
  <2>2. \A k \in 1..n - p : p + k \in 1..n
    BY <1>1
  <2>3. rest \in [1..n - p -> Interest]
    BY <1>1, <1>2, <2>1, <2>2
  <2>4. PICK m \in Nat : m = n - p
    BY <1>1
  <2> DEFINE r == rest
  <2>5. r \in [1..m -> Interest]
    BY <2>3, <2>4
  <2> HIDE DEF r
  <2>6. r \in Seq(Interest) /\ DOMAIN r = 1..m
    BY <2>5
  <2>7. \A k \in 1..n - p : rest[k] = q[p + k] \/ rest[k] = Elapsed(q[p + k])
    <3> SUFFICES ASSUME NEW k \in 1..n - p
                 PROVE  rest[k] = q[p + k] \/ rest[k] = Elapsed(q[p + k])
      OBVIOUS
    <3>1. rest[k] = IF k = 1 THEN Elapsed(q[p + 1]) ELSE q[p + k]
      BY <2>1, Zenon
    <3> HIDE DEF rest
    <3> QED BY <3>1
  <2> QED BY <2>4, <2>6, <2>7 DEF r
<1>6. sent = Only(seen, {i \in ToSet(seen) : ~Expired(i)})
  BY <1>1 DEF Sent
<1> HIDE DEF seen, sent, rest
<1>7. seen \in Singles
  <2> DEFINE at == [k \in 1..p |-> k]
  <2>1. \A k \in DOMAIN seen : at[k] \in DOMAIN q /\ seen[k].type = q[at[k]].type
    BY <1>1, <1>2, <1>4
  <2>2. \A j, k \in DOMAIN seen : at[j] = at[k] => j = k
    BY <1>4
  <2> HIDE DEF at
  <2> QED BY <1>4, <2>1, <2>2, PartOfList
<1>8. rest \in Singles
  <2> DEFINE at == [k \in 1..n - p |-> p + k]
  <2>1. ASSUME NEW k \in DOMAIN rest
        PROVE  at[k] \in DOMAIN q /\ rest[k].type = q[at[k]].type
    <3>1. k \in 1..n - p /\ p + k \in 1..n /\ at[k] = p + k
      BY <1>1, <1>5
    <3>2. rest[k] = q[p + k] \/ rest[k] = Elapsed(q[p + k])
      BY <1>5, <3>1
    <3> HIDE DEF at
    <3> QED BY <1>2, <3>1, <3>2
  <2>2. \A j, k \in DOMAIN rest : at[j] = at[k] => j = k
    BY <1>1, <1>5
  <2> HIDE DEF at
  <2> QED BY <1>5, <2>1, <2>2, PartOfList
<1>9. sent \in Singles /\ ToSet(sent) = {i \in ToSet(seen) : ~Expired(i)}
  BY <1>6, <1>7, OnlyOfList
<1>10. \A i \in ToSet(seen) : \E k \in 1..p : i = Elapsed(q[k])
  BY <1>4 DEF ToSet
<1>11. \A i \in ToSet(rest) : \E k \in 1..n - p : i = q[p + k] \/ i = Elapsed(q[p + k])
  BY <1>5 DEF ToSet
<1>12. \A i \in ToSet(rest), j \in ToSet(sent) : i.type # j.type
  <2> SUFFICES ASSUME NEW i \in ToSet(rest), NEW j \in ToSet(sent) PROVE i.type # j.type
    OBVIOUS
  <2>1. PICK k \in 1..n - p : i = q[p + k] \/ i = Elapsed(q[p + k])
    BY <1>11
  <2>2. PICK l \in 1..p : j = Elapsed(q[l])
    BY <1>9, <1>10
  <2>3. p + k \in 1..n /\ l \in 1..n /\ p + k # l
    BY <1>1
  <2> QED BY <1>2, <1>3, <2>1, <2>2, <2>3
<1>13. rest \o sent \in Singles /\ ToSet(rest \o sent) = ToSet(rest) \cup ToSet(sent)
  BY <1>8, <1>9, <1>12, JoinLists
<1>14. \A i \in ToSet(sent) : ~Expired(i) /\ \E j \in ToSet(q) : i = Elapsed(j)
  <2> SUFFICES ASSUME NEW i \in ToSet(sent) PROVE \E j \in ToSet(q) : i = Elapsed(j)
    BY <1>9
  <2>1. PICK k \in 1..p : i = Elapsed(q[k])
    BY <1>9, <1>10
  <2>2. k \in 1..n
    BY <1>1
  <2> QED BY <1>2, <2>1, <2>2
<1>15. \A i \in ToSet(rest) : \E j \in ToSet(q) : i = j \/ i = Elapsed(j)
  <2> SUFFICES ASSUME NEW i \in ToSet(rest)
               PROVE  \E j \in ToSet(q) : i = j \/ i = Elapsed(j)
    OBVIOUS
  <2>1. PICK k \in 1..n - p : i = q[p + k] \/ i = Elapsed(q[p + k])
    BY <1>11
  <2>2. p + k \in 1..n
    BY <1>1
  <2> QED BY <1>2, <2>1, <2>2
<1>16. ASSUME NEW j \in ToSet(q)
       PROVE  \/ Expired(Elapsed(j))
              \/ j \in ToSet(rest) \cup ToSet(sent)
              \/ Elapsed(j) \in ToSet(rest) \cup ToSet(sent)
  <2>1. PICK k \in 1..n : j = q[k]
    BY <1>2 DEF ToSet
  <2>2. CASE k \in 1..p
    <3>1. Elapsed(j) \in ToSet(seen)
      BY <1>4, <2>1, <2>2 DEF ToSet
    <3> QED BY <1>9, <3>1
  <2>3. CASE k \notin 1..p
    <3>1. k - p \in 1..n - p /\ p + (k - p) = k
      BY <1>1, <2>3
    <3>2. rest[k - p] \in ToSet(rest)
      BY <1>5, <3>1 DEF ToSet
    <3>3. rest[k - p] = q[k] \/ rest[k - p] = Elapsed(q[k])
      BY <1>5, <3>1
    <3> QED BY <2>1, <3>2, <3>3
  <2> QED BY <2>2, <2>3
<1> QED BY <1>9, <1>13, <1>14, <1>15, <1>16 DEF sent, rest

\* The interests of a message are learned one after the other: whatever holds of the
\* table before, and is kept by learning each of them, holds afterwards.
LEMMA ReceivedKeeps ==
  ASSUME NEW P, NEW q, NEW todo, <<q, todo>> \in P,
         NEW n \in Nat, NEW items, Len(items) = n,
         \A tab \in P : \A k \in 1..n : Learned(tab[1], tab[2], Farther(items[k])) \in P
  PROVE  Received(q, todo, items) \in P
<1> DEFINE first == <<q, todo>>
           Body(f) == [k \in 0..n |->
                         IF k = 0 THEN first
                         ELSE Learned(f[k - 1][1], f[k - 1][2], Farther(items[k]))]
           step == [x \in (1..n) \X P |-> Learned(x[2][1], x[2][2], Farther(items[x[1]]))]
           tab == CHOOSE f : f = Body(f)
<1>1. first \in P /\ 0 \in 0..n /\ \A k \in 1..n : k \in 0..n /\ k # 0
  OBVIOUS
<1>2. \A f \in P : \A k \in 1..n : Learned(f[1], f[2], Farther(items[k])) \in P
  OBVIOUS
<1>3. Received(q, todo, items) = tab[n]
  BY DEF Received
<1> HIDE DEF first
<1>5. step \in [(1..n) \X P -> P]
  <2>1. ASSUME NEW x \in (1..n) \X P
        PROVE  Learned(x[2][1], x[2][2], Farther(items[x[1]])) \in P
    <3>1. x[1] \in 1..n /\ x[2] \in P
      OBVIOUS
    <3> QED BY <3>1, <1>2
  <2> QED BY <2>1
<1>6. \A k \in 1..n : \A f \in P :
        step[<<k, f>>] = Learned(f[1], f[2], Farther(items[k]))
  OBVIOUS
<1> HIDE DEF step
<1>7. PICK f : IsRecursion(f, n, first, step)
  BY ONLY n \in Nat, <1>1, <1>5, RecursionExists
<1>8. /\ f = [k \in 0..n |-> IF k = 0 THEN first ELSE step[<<k, f[k - 1]>>]]
      /\ f[0] = first
      /\ \A k \in 1..n : f[k] = step[<<k, f[k - 1]>>]
  <2>1. f = [k \in 0..n |-> IF k = 0 THEN first ELSE step[<<k, f[k - 1]>>]]
    BY <1>7 DEF IsRecursion
  <2>2. \A k \in 0..n : f[k] = IF k = 0 THEN first ELSE step[<<k, f[k - 1]>>]
    BY <2>1, Zenon
  <2> QED BY ONLY <1>1, <2>1, <2>2
<1>9. \A k \in 0..n : f[k] \in P
  <2> DEFINE K == {k \in 0..n : f[k] \in P}
  <2>1. 0 \in K
    BY <1>1, <1>8
  <2>2. ASSUME NEW k \in 1..n, k - 1 \in K PROVE k \in K
    <3>1. f[k - 1] \in P
      BY <2>2
    <3>2. step[<<k, f[k - 1]>>] \in P
      BY <3>1, <1>5
    <3>3. f[k] \in P
      <4>1. f[k] = step[<<k, f[k - 1]>>]
        BY ONLY <1>8, k \in 1..n
      <4> QED BY ONLY <3>2, <4>1
    <3>4. k \in 0..n
      OBVIOUS
    <3> QED BY ONLY <3>3, <3>4
  <2>3. 0..n \subseteq K
    <3> HIDE DEF K
    <3> QED BY <2>1, <2>2, UpTo
  <2> QED BY <2>3
<1>10. f = Body(f)
  <2>1. ASSUME NEW k \in 0..n
        PROVE  (IF k = 0 THEN first ELSE step[<<k, f[k - 1]>>])
                 = IF k = 0 THEN first
                   ELSE Learned(f[k - 1][1], f[k - 1][2], Farther(items[k]))
    <3>1. CASE k # 0
      <4>1. k \in 1..n /\ f[k - 1] \in P
        BY <3>1, <1>9
      <4> QED BY <4>1, <1>6, <3>1
    <3> QED BY <3>1
  <2> QED BY <2>1, <1>8, Zenon
<1>11. tab = Body(tab)
  <2> HIDE DEF Body
  <2> QED BY <1>10
<1> HIDE DEF tab
<1>13. \A k \in 0..n : tab[k] = IF k = 0 THEN first
                                ELSE Learned(tab[k - 1][1], tab[k - 1][2], Farther(items[k]))
  BY <1>11, Zenon
<1> HIDE DEF Body
<1>14. \A k \in 0..n : tab[k] \in P
  <2> DEFINE K == {k \in 0..n : tab[k] \in P}
  <2>1. 0 \in K
    BY <1>1, <1>13
  <2>2. ASSUME NEW k \in 1..n, k - 1 \in K PROVE k \in K
    <3>1. tab[k - 1] \in P
      BY <2>2
    <3>2. Learned(tab[k - 1][1], tab[k - 1][2], Farther(items[k])) \in P
      BY <3>1, <1>2
    <3>3. tab[k] = Learned(tab[k - 1][1], tab[k - 1][2], Farther(items[k]))
      BY <1>13
    <3> QED BY <3>2, <3>3
  <2>3. 0..n \subseteq K
    <3> HIDE DEF K
    <3> QED BY <2>1, <2>2, UpTo
  <2> QED BY <2>3
<1> QED BY <1>3, <1>14

\* Time passes for every interest.
Older(q) == [k \in DOMAIN q |-> [q[k] EXCEPT !.left = Sooner(@)]]

IsOlder(i, j) ==
  i.type = j.type /\ i.hops = j.hops /\ i.ttl = j.ttl /\ i.left = Sooner(j.left)

LEMMA OlderIs ==
  ASSUME NEW q \in Singles
  PROVE  /\ Older(q) \in Singles
         /\ \A i \in ToSet(Older(q)) : \E j \in ToSet(q) : IsOlder(i, j)
         /\ \A j \in ToSet(q) : \E i \in ToSet(Older(q)) : IsOlder(i, j)
<1>0. q \in Seq(Interest)
  BY DEF Singles
<1>1. PICK n \in Nat : n = Len(q)
  BY <1>0
<1>2. DOMAIN q = 1..n /\ \A k \in 1..n : q[k] \in Interest
  BY <1>0, <1>1
<1> DEFINE s == Older(q)
<1>3. ASSUME NEW k \in 1..n
      PROVE  s[k] \in Interest /\ IsOlder(s[k], q[k])
  <2>1. PICK j : j = s[k]
    OBVIOUS
  <2>2. PICK l : l = Sooner(q[k].left)
    OBVIOUS
  <2>3. j = [q[k] EXCEPT !.left = l]
    BY <1>2, <2>1, <2>2 DEF Older
  <2>4. q[k] \in Interest /\ l \in 0..TTLRange - 1
    <3>1. q[k] \in Interest /\ q[k].left \in 0..TTLRange - 1
      BY <1>2 DEF Interest
    <3>2. \A d \in 0..TTLRange - 1 : Sooner(d) \in 0..TTLRange - 1
      BY InterestAssumption DEF Sooner
    <3>3. Sooner(q[k].left) \in 0..TTLRange - 1
      BY ONLY <3>1, <3>2
    <3> QED BY <3>1, <3>3, <2>2
  <2>5. /\ j \in Interest
        /\ j.hops = q[k].hops /\ j.ttl = q[k].ttl /\ j.type = q[k].type /\ j.left = l
    BY ONLY <2>3, <2>4 DEF Interest
  <2> QED BY <2>1, <2>2, <2>5 DEF IsOlder
<1>4. s \in Seq(Interest) /\ DOMAIN s = 1..n
  <2>1. s = [k \in 1..n |-> s[k]]
    BY <1>2 DEF Older
  <2>2. s \in [1..n -> Interest]
    <3> HIDE DEF s
    <3> QED BY <1>3, <2>1
  <2> HIDE DEF s
  <2> QED BY <2>2
<1> HIDE DEF s
<1>5. s \in Singles
  <2> DEFINE at == [k \in 1..n |-> k]
  <2>1. \A k \in DOMAIN s : at[k] \in DOMAIN q /\ s[k].type = q[at[k]].type
    BY <1>2, <1>3, <1>4 DEF IsOlder
  <2>2. \A j, k \in DOMAIN s : at[j] = at[k] => j = k
    BY <1>4
  <2> HIDE DEF at
  <2> QED BY <1>4, <2>1, <2>2, PartOfList
<1>6. ToSet(s) = {s[k] : k \in 1..n} /\ ToSet(q) = {q[k] : k \in 1..n}
  BY <1>2, <1>4 DEF ToSet
<1>7. /\ \A i \in ToSet(s) : \E j \in ToSet(q) : IsOlder(i, j)
      /\ \A j \in ToSet(q) : \E i \in ToSet(s) : IsOlder(i, j)
  BY <1>3, <1>6
<1> QED BY <1>5, <1>7 DEF s

-----------------------------------------------------------------------------
(* Messages *)

LEMMA WireIs ==
  ASSUME NEW s \in Singles
  PROVE  /\ Wire(s) \in Seq(Item) /\ Len(Wire(s)) = Len(s) /\ Len(s) \in Nat
         /\ \A i \in ToSet(Wire(s)) : \E j \in ToSet(s) :
              i.type = j.type /\ i.ttl = j.ttl /\ i.hops = j.hops
         /\ \A j \in ToSet(s) : \E i \in ToSet(Wire(s)) :
              i.type = j.type /\ i.ttl = j.ttl /\ i.hops = j.hops
<1>0. s \in Seq(Interest)
  BY DEF Singles
<1>1. PICK n \in Nat : n = Len(s)
  BY <1>0
<1>2. DOMAIN s = 1..n /\ \A k \in 1..n : s[k] \in Interest
  BY <1>0, <1>1
<1> DEFINE w == Wire(s)
<1>3. ASSUME NEW k \in 1..n
      PROVE  /\ w[k] \in Item
             /\ w[k].type = s[k].type /\ w[k].ttl = s[k].ttl /\ w[k].hops = s[k].hops
  <2>1. w[k] = [type |-> s[k].type, ttl |-> s[k].ttl, hops |-> s[k].hops]
    BY <1>2 DEF Wire
  <2>2. s[k].type \in Types /\ s[k].ttl \in 0..TTLRange - 1 /\ s[k].hops \in 0..HopRange - 1
    BY <1>2 DEF Interest
  <2> HIDE DEF w
  <2> QED BY <2>1, <2>2 DEF Item
<1>4. w \in Seq(Item) /\ DOMAIN w = 1..n /\ Len(w) = n
  <2>1. w = [k \in 1..n |-> w[k]]
    BY <1>2 DEF Wire
  <2>2. w \in [1..n -> Item]
    <3> HIDE DEF w
    <3> QED BY <1>3, <2>1
  <2> HIDE DEF w
  <2> QED BY <2>2
<1> HIDE DEF w
<1>5. ToSet(s) = {s[k] : k \in 1..n} /\ ToSet(w) = {w[k] : k \in 1..n}
  BY <1>2, <1>4 DEF ToSet
<1>6. /\ \A i \in ToSet(w) : \E j \in ToSet(s) :
           i.type = j.type /\ i.ttl = j.ttl /\ i.hops = j.hops
      /\ \A j \in ToSet(s) : \E i \in ToSet(w) :
           i.type = j.type /\ i.ttl = j.ttl /\ i.hops = j.hops
  BY <1>3, <1>5
<1> QED BY <1>1, <1>4, <1>6 DEF w

LEMMA DumpedIs ==
  ASSUME NEW c \in Nat
  PROVE  Dumped(c) \in [1..c -> 0..c]
<1> DEFINE There(p) == {k \in 1..c : Place(k - 1) = p - 1}
<1>1. ASSUME NEW p \in 1..c, There(p) # {} PROVE Min(There(p)) \in 0..c
  <2> DEFINE K == There(p)
  <2>1. K \in SUBSET Nat /\ K \subseteq 0..c /\ K # {}
    BY <1>1
  <2> HIDE DEF K
  <2>2. Min(K) \in K
    BY <2>1, MinIs
  <2>3. Min(K) \in 0..c
    BY <2>1, <2>2
  <2> QED BY <2>3 DEF K
<1>2. Dumped(c) = [p \in 1..c |-> IF There(p) = {} THEN 0 ELSE Min(There(p))]
  BY DEF Dumped
<1> HIDE DEF There
<1> QED BY <1>1, <1>2

\* What the receiver of m reads.
Items(m, guess) ==
  [p \in DOMAIN m.sent |-> IF p \in DOMAIN guess THEN guess[p] ELSE m.sent[m.places[p]]]

Guesses(m) == [{p \in DOMAIN m.sent : m.places[p] = 0} -> Garbage]

LEMMA ItemsAre ==
  ASSUME NEW m, m.sent \in Seq(Item), m.places \in [DOMAIN m.sent -> 0..Len(m.sent)],
         NEW guess \in Guesses(m)
  PROVE  \E n \in Nat :
           /\ n = Len(m.sent) /\ Len(Items(m, guess)) = n
           /\ \A p \in 1..n :
                /\ Items(m, guess)[p] \in Item
                /\ IF m.places[p] = 0 THEN Items(m, guess)[p] \in Garbage
                                      ELSE Items(m, guess)[p] \in ToSet(m.sent)
<1>1. PICK n \in Nat : n = Len(m.sent)
  OBVIOUS
<1>2. DOMAIN m.sent = 1..n
  BY <1>1
<1> DEFINE items == Items(m, guess)
<1>3. items = [p \in 1..n |-> IF p \in DOMAIN guess THEN guess[p] ELSE m.sent[m.places[p]]]
  BY <1>2 DEF Items
<1> HIDE DEF items
<1>4. ASSUME NEW p \in 1..n
      PROVE  /\ items[p] \in Item
             /\ IF m.places[p] = 0 THEN items[p] \in Garbage ELSE items[p] \in ToSet(m.sent)
  <2>1. items[p] = IF p \in DOMAIN guess THEN guess[p] ELSE m.sent[m.places[p]]
    BY <1>3
  <2>2. p \in DOMAIN guess <=> m.places[p] = 0
    BY <1>2 DEF Guesses
  <2>3. CASE m.places[p] = 0
    <3>1. items[p] = guess[p] /\ p \in DOMAIN guess
      BY <2>1, <2>2, <2>3
    <3>2. guess[p] \in Garbage
      BY <3>1 DEF Guesses
    <3> QED BY <2>3, <3>1, <3>2, InterestAssumption
  <2>4. CASE m.places[p] # 0
    <3>1. items[p] = m.sent[m.places[p]]
      BY <2>1, <2>2, <2>4
    <3>2. m.places[p] \in 1..n
      BY <1>1, <1>2, <2>4
    <3>3. m.sent[m.places[p]] \in Item /\ m.sent[m.places[p]] \in ToSet(m.sent)
      BY <1>1, <1>2, <3>2 DEF ToSet
    <3> QED BY <2>4, <3>1, <3>3
  <2> QED BY <2>3, <2>4
<1>5. Len(items) = n
  <2>1. DOMAIN items = 1..n /\ items \in [1..n -> Item]
    BY <1>3, <1>4
  <2> QED BY <2>1
<1> QED BY <1>1, <1>4, <1>5 DEF items

-----------------------------------------------------------------------------
(* Types, and one interest per type *)

IInv == TypeOK /\ OnePerType

LEMMA TablesAre ==
  ASSUME IInv, NEW n \in Nodes
  PROVE  interests[n] \in Singles /\ to_announce[n] \in Counts
BY DEF IInv, TypeOK, OnePerType, Singles, OnePer, Counts

\* The invariant after a step that leaves every node with lists of that kind.
LEMMA TablesMake ==
  ASSUME interests' \in [Nodes -> Singles], to_announce' \in [Nodes -> Counts],
         wait' \in [Nodes -> 0..2], fired' \subseteq Nodes,
         \A m \in net' : /\ m.from \in Nodes /\ m.to \in Nodes \ {m.from}
                         /\ m.sent \in Seq(Item)
                         /\ m.places \in [DOMAIN m.sent -> 0..Len(m.sent)],
         changes' \in 0..MaxChanges, age' \in [Types -> 0..OldAge]
  PROVE  IInv'
<1>1. \A n \in Nodes : interests'[n] \in Seq(Interest) /\ OnePer(interests'[n])
  BY DEF Singles
<1>2. interests' \in [Nodes -> Seq(Interest)]
  BY DEF Singles
<1>3. OnePerType'
  BY <1>1 DEF OnePerType, OnePer
<1> QED BY <1>2, <1>3 DEF IInv, TypeOK, Counts

LEMMA InitIInv == Init => IInv
<1> SUFFICES ASSUME Init PROVE IInv
  OBVIOUS
<1>1. interests \in [Nodes -> Seq(Interest)] /\ \A n \in Nodes : interests[n] = << >>
  BY DEF Init
<1>2. OnePerType
  BY <1>1 DEF OnePerType
<1>3. /\ to_announce \in [Nodes -> 0..CountRange - 1] /\ wait \in [Nodes -> 0..2]
      /\ fired = {} /\ net = {} /\ changes \in 0..MaxChanges /\ age \in [Types -> 0..OldAge]
  BY InterestAssumption DEF Init
<1> QED BY <1>1, <1>2, <1>3 DEF IInv, TypeOK

LEMMA AnnounceIInv ==
  ASSUME IInv, NEW n \in Nodes, NEW reached \in SUBSET (Nodes \ {n}), NEW fuzz \in {0, 1},
         Announce(n, reached, fuzz)
  PROVE  IInv'
<1> DEFINE q    == interests[n]
           sent == Wire(Sent(q))
           left == Unsent(q) \o Sent(q)
           todo == Minus(to_announce[n], Processed(q))
           next == IF todo = 0 THEN Len(left) % CountRange ELSE todo
<1>1. q \in Singles /\ to_announce[n] \in Counts
  BY TablesAre
<1>2. Sent(q) \in Singles /\ left \in Singles
  BY <1>1, AnnouncedIs
<1>3. next \in Counts
  <2>1. Processed(q) \in Nat
    <3>1. q \in Seq(Interest) /\ Processed(q) \in 0..Len(q)
      BY <1>1, ProcessedIs DEF Singles
    <3> QED BY <3>1
  <2>2. Len(left) \in Nat
    <3> HIDE DEF left
    <3>1. left \in Seq(Interest)
      BY <1>2 DEF Singles
    <3> QED BY <3>1
  <2> HIDE DEF left, q
  <2> QED BY <1>1, <2>1, <2>2, CountsAre
<1>4. sent \in Seq(Item) /\ Dumped(Len(sent)) \in [DOMAIN sent -> 0..Len(sent)]
  <2>1. sent \in Seq(Item)
    BY <1>2, WireIs
  <2> HIDE DEF sent
  <2>2. PICK c \in Nat : c = Len(sent)
    BY <2>1
  <2>3. Dumped(c) \in [1..c -> 0..c] /\ DOMAIN sent = 1..c
    BY <2>1, <2>2, DumpedIs
  <2> QED BY <2>1, <2>2, <2>3
<1>5. /\ interests' = [interests EXCEPT ![n] = left]
      /\ to_announce' = [to_announce EXCEPT ![n] = next]
      /\ wait' = [wait EXCEPT ![n] = IF todo = 0 THEN 1 + fuzz ELSE 0]
      /\ fired' = fired \cup {n} /\ UNCHANGED changes
      /\ net' = net \cup {[from |-> n, to |-> r, sent |-> sent, places |-> Dumped(Len(sent))] :
                            r \in IF sent = << >> THEN {} ELSE reached}
      /\ age' = [t \in Types |->
                   IF \E i \in ToSet(sent) : i.type = t /\ Local(i) THEN 0 ELSE age[t]]
  BY DEF Announce
<1> HIDE DEF q, sent, left, todo, next
<1>6. interests' \in [Nodes -> Singles]
  <2>1. \A k \in Nodes : interests[k] \in Singles
    BY TablesAre
  <2>2. interests \in [Nodes -> Singles]
    BY <2>1 DEF IInv, TypeOK
  <2> QED BY <1>2, <1>5, <2>2
<1>7. to_announce' \in [Nodes -> Counts]
  BY <1>3, <1>5 DEF IInv, TypeOK, Counts
<1>8. wait' \in [Nodes -> 0..2]
  BY <1>5 DEF IInv, TypeOK
<1>9. \A m \in net' : /\ m.from \in Nodes /\ m.to \in Nodes \ {m.from}
                      /\ m.sent \in Seq(Item)
                      /\ m.places \in [DOMAIN m.sent -> 0..Len(m.sent)]
  <2> SUFFICES ASSUME NEW m \in net', m \notin net
               PROVE  /\ m.from \in Nodes /\ m.to \in Nodes \ {m.from}
                      /\ m.sent \in Seq(Item)
                      /\ m.places \in [DOMAIN m.sent -> 0..Len(m.sent)]
    BY DEF IInv, TypeOK
  <2>1. PICK r \in reached :
          m = [from |-> n, to |-> r, sent |-> sent, places |-> Dumped(Len(sent))]
    BY <1>5
  <2>2. m.from = n /\ m.to = r /\ m.sent = sent /\ m.places = Dumped(Len(sent))
    BY <2>1
  <2> QED BY <1>4, <2>2
<1>10. age' \in [Types -> 0..OldAge]
  BY <1>5, InterestAssumption DEF IInv, TypeOK
<1>11. fired' \subseteq Nodes /\ changes' \in 0..MaxChanges
  BY <1>5 DEF IInv, TypeOK
<1> QED BY <1>6, <1>7, <1>8, <1>9, <1>10, <1>11, TablesMake

\* A step that gives one node another table and may take a message off the air.
LEMMA TableIInv ==
  ASSUME IInv, NEW n \in Nodes, NEW tab, IsTable(tab),
         interests' = [interests EXCEPT ![n] = tab[1]],
         to_announce' = [to_announce EXCEPT ![n] = tab[2]],
         UNCHANGED <<wait, fired, age>>, net' \subseteq net, changes' \in 0..MaxChanges
  PROVE  IInv'
<1>1. tab[1] \in Singles /\ tab[2] \in Counts
  BY DEF IsTable
<1>2. \A k \in Nodes : interests[k] \in Singles /\ to_announce[k] \in Counts
  BY TablesAre
<1>3. interests \in [Nodes -> Singles] /\ to_announce \in [Nodes -> Counts]
  BY <1>2 DEF IInv, TypeOK
<1>4. interests' \in [Nodes -> Singles] /\ to_announce' \in [Nodes -> Counts]
  BY <1>1, <1>3
<1>5. \A m \in net' : /\ m.from \in Nodes /\ m.to \in Nodes \ {m.from}
                      /\ m.sent \in Seq(Item)
                      /\ m.places \in [DOMAIN m.sent -> 0..Len(m.sent)]
  BY DEF IInv, TypeOK
<1>6. /\ wait' \in [Nodes -> 0..2] /\ fired' \subseteq Nodes
      /\ age' \in [Types -> 0..OldAge]
  BY DEF IInv, TypeOK
<1> QED BY <1>4, <1>5, <1>6, TablesMake

LEMMA ReceivedTable ==
  ASSUME IInv, NEW m \in net, NEW guess \in Guesses(m)
  PROVE  IsTable(Received(interests[m.to], to_announce[m.to], Items(m, guess)))
<1> DEFINE P     == Singles \X Counts
           items == Items(m, guess)
           q     == interests[m.to]
           todo  == to_announce[m.to]
<1>1. m.to \in Nodes /\ m.sent \in Seq(Item) /\ m.places \in [DOMAIN m.sent -> 0..Len(m.sent)]
  BY DEF IInv, TypeOK
<1>2. PICK n \in Nat : Len(items) = n /\ \A p \in 1..n : items[p] \in Item
  BY <1>1, ItemsAre
<1>3. q \in Singles /\ todo \in Counts
  BY <1>1, TablesAre
<1>4. <<q, todo>> \in P
  BY <1>3
<1> HIDE DEF items, q, todo
<1>5. ASSUME NEW tab \in P, NEW k \in 1..n
      PROVE  Learned(tab[1], tab[2], Farther(items[k])) \in P
  <2>1. tab[1] \in Singles /\ tab[2] \in Counts /\ Farther(items[k]) \in Item
    BY <1>2, FartherIs
  <2> QED BY <2>1, LearnedIs DEF IsTable
<1> HIDE DEF P
<1>6. Received(q, todo, items) \in P
  BY <1>2, <1>4, <1>5, ReceivedKeeps
<1> QED BY <1>6 DEF IsTable, P, items, q, todo

LEMMA ReceiveIs ==
  ASSUME NEW m \in net, Receive(m)
  PROVE  \E guess \in Guesses(m) :
           LET tab == Received(interests[m.to], to_announce[m.to], Items(m, guess))
           IN  /\ interests' = [interests EXCEPT ![m.to] = tab[1]]
               /\ to_announce' = [to_announce EXCEPT ![m.to] = tab[2]]
               /\ net' = net \ {m}
               /\ UNCHANGED <<wait, fired, changes, age>>
BY DEF Receive, Guesses, Items

\* Every step keeps the types, and one interest of a type.
LEMMA NextIInv == IInv /\ [Next]_vars => IInv'
<1> SUFFICES ASSUME IInv, [Next]_vars PROVE IInv'
  OBVIOUS
<1>0. changes \in 0..MaxChanges /\ MaxChanges \in Nat
  BY InterestAssumption DEF IInv, TypeOK
<1>1. ASSUME NEW n \in Nodes, AnnounceTooEarly(n) PROVE IInv'
  BY <1>1 DEF AnnounceTooEarly, IInv, TypeOK, OnePerType
<1>2. ASSUME NEW n \in Nodes, NEW reached \in SUBSET (Nodes \ {n}), NEW fuzz \in {0, 1},
             Announce(n, reached, fuzz)
      PROVE  IInv'
  BY <1>2, AnnounceIInv
<1>3. ASSUME NEW m \in net, Receive(m) PROVE IInv'
  <2>1. PICK guess \in Guesses(m) :
          LET tab == Received(interests[m.to], to_announce[m.to], Items(m, guess))
          IN  /\ interests' = [interests EXCEPT ![m.to] = tab[1]]
              /\ to_announce' = [to_announce EXCEPT ![m.to] = tab[2]]
              /\ net' = net \ {m}
              /\ UNCHANGED <<wait, fired, changes, age>>
    BY <1>3, ReceiveIs
  <2>2. m.to \in Nodes
    BY DEF IInv, TypeOK
  <2>3. PICK tab : tab = Received(interests[m.to], to_announce[m.to], Items(m, guess))
    OBVIOUS
  <2>4. IsTable(tab)
    BY <2>3, ReceivedTable
  <2>5. /\ interests' = [interests EXCEPT ![m.to] = tab[1]]
        /\ to_announce' = [to_announce EXCEPT ![m.to] = tab[2]]
        /\ UNCHANGED <<wait, fired, age>> /\ net' \subseteq net
        /\ changes' \in 0..MaxChanges
    BY <1>0, <2>1, <2>3
  <2> QED BY <2>2, <2>4, <2>5, TableIInv
<1>4. ASSUME NEW n \in Nodes, NEW t \in Types, CreateInterest(n, t) PROVE IInv'
  <2>1. PICK tab : tab = WithLocal(interests[n], to_announce[n], t)
    OBVIOUS
  <2>2. IsTable(tab)
    BY <2>1, TablesAre, WithLocalIs
  <2>3. /\ interests' = [interests EXCEPT ![n] = tab[1]]
        /\ to_announce' = [to_announce EXCEPT ![n] = tab[2]]
        /\ UNCHANGED <<wait, fired, age>> /\ net' \subseteq net
    BY <1>4, <2>1 DEF CreateInterest
  <2>4. changes' \in 0..MaxChanges
    BY <1>0, <1>4 DEF CreateInterest
  <2> QED BY <2>2, <2>3, <2>4, TableIInv
<1>5. ASSUME NEW n \in Nodes, BehaveInterest(n) PROVE IInv'
  <2>1. PICK tab : tab = WithLocal(WithoutLocal(interests[n]), to_announce[n], Favourite)
    OBVIOUS
  <2>2. WithoutLocal(interests[n]) \in Singles /\ to_announce[n] \in Counts
    BY TablesAre, OnlyOfList DEF WithoutLocal
  <2>3. IsTable(tab)
    BY <2>1, <2>2, WithLocalIs, InterestAssumption
  <2>4. /\ interests' = [interests EXCEPT ![n] = tab[1]]
        /\ to_announce' = [to_announce EXCEPT ![n] = tab[2]]
        /\ UNCHANGED <<wait, fired, age>> /\ net' \subseteq net
    BY <1>5, <2>1 DEF BehaveInterest
  <2>5. changes' \in 0..MaxChanges
    BY <1>0, <1>5 DEF BehaveInterest
  <2> QED BY <2>3, <2>4, <2>5, TableIInv
<1>6. CASE Tick
  <2>1. /\ interests' = [n \in Nodes |-> Older(interests[n])]
        /\ wait' = [n \in Nodes |-> Sooner(wait[n])]
        /\ age' = [t \in Types |-> IF age[t] < OldAge THEN age[t] + 1 ELSE OldAge]
        /\ fired' = {} /\ UNCHANGED <<to_announce, net, changes>>
    BY <1>6 DEF Tick, Older
  <2>2. interests' \in [Nodes -> Singles]
    BY <2>1, TablesAre, OlderIs
  <2>3. to_announce' \in [Nodes -> Counts]
    BY <2>1 DEF IInv, TypeOK, Counts
  <2>4. wait' \in [Nodes -> 0..2]
    <3>1. \A d \in 0..2 : Sooner(d) \in 0..2
      BY DEF Sooner
    <3> QED BY <2>1, <3>1 DEF IInv, TypeOK
  <2>5. age' \in [Types -> 0..OldAge]
    <3>1. \A a \in 0..OldAge : (IF a < OldAge THEN a + 1 ELSE OldAge) \in 0..OldAge
      BY InterestAssumption
    <3>2. age \in [Types -> 0..OldAge]
      BY DEF IInv, TypeOK
    <3> QED BY <2>1, <3>1, <3>2
  <2>6. /\ fired' \subseteq Nodes /\ changes' \in 0..MaxChanges
        /\ \A m \in net' : /\ m.from \in Nodes /\ m.to \in Nodes \ {m.from}
                           /\ m.sent \in Seq(Item)
                           /\ m.places \in [DOMAIN m.sent -> 0..Len(m.sent)]
    BY <2>1 DEF IInv, TypeOK
  <2> QED BY <2>2, <2>3, <2>4, <2>5, <2>6, TablesMake
<1>7. CASE UNCHANGED vars
  BY <1>7 DEF vars, IInv, TypeOK, OnePerType
<1> QED BY <1>1, <1>2, <1>3, <1>4, <1>5, <1>6, <1>7 DEF Next, AnnounceTimer

\* The types and OnePerType together are what every handler of interesthelperimpl.cpp
\* keeps.
THEOREM InterestInvariant == Spec => []IInv
<1>1. IInv /\ [Next]_vars => IInv'
  BY NextIInv
<1> QED BY InitIInv, <1>1, PTL DEF Spec

\* Tables, counters, timers and messages have their types, whichever type, ttl and hops
\* of the widths of their fields a receiver makes of bytes nobody wrote (Garbage).
THEOREM InterestTypeCorrect == Spec => []TypeOK
<1>1. IInv => TypeOK
  BY DEF IInv
<1> QED BY InterestInvariant, <1>1, PTL

\* A node never has two interests of one type, for any number of nodes and types: not
\* by create_local(), nor by learn_remote(), nor by the rotation of announce().
THEOREM OneOfAType == Spec => []OnePerType
<1>1. IInv => OnePerType
  BY DEF IInv
<1> QED BY InterestInvariant, <1>1, PTL

-----------------------------------------------------------------------------
(* Own interests *)

Interested(q, t) == \E i \in ToSet(q) : i.type = t /\ Local(i)
OwnAlive(q)      == \A i \in ToSet(q) : Local(i) => i.ttl > 0

\* Every own interest in a also has a type that is an own interest in b.
KeepsOwn(a, b) == \A t \in Types : Interested(a, t) => Interested(b, t)

\* update_with() never makes an own interest a remote one, nor one with no time left.
LEMMA LearnedKeepsOwn ==
  ASSUME NEW q \in Singles, OwnAlive(q), NEW todo \in Counts,
         NEW i \in Item, Local(i) => i.ttl > 0
  PROVE  LET tab == Learned(q, todo, i)
         IN  OwnAlive(tab[1]) /\ KeepsOwn(q, tab[1])
<1>1. PICK s : s = Learned(q, todo, i)[1]
  OBVIOUS
<1>2. \/ s = q
      \/ /\ \A j \in ToSet(q) : j.type # i.type
         /\ ToSet(s) = {Heard(i)} \cup ToSet(q)
      \/ \E known \in ToSet(q) :
           /\ known.type = i.type
           /\ ToSet(s) = {Updated(known, i)} \cup {j \in ToSet(q) : j.type # i.type}
  BY <1>1, LearnedIs
<1>3. ToSet(q) \subseteq Interest
  BY DEF Singles, ToSet
<1>4. CASE s = q
  BY <1>1, <1>4 DEF KeepsOwn
<1>5. CASE ToSet(s) = {Heard(i)} \cup ToSet(q)
  <2>1. Heard(i).hops = i.hops /\ Heard(i).ttl = i.ttl
    BY DEF Heard
  <2>2. OwnAlive(s)
    BY <1>5, <2>1 DEF OwnAlive, Local
  <2>3. KeepsOwn(q, s)
    BY <1>5 DEF KeepsOwn, Interested
  <2> QED BY <1>1, <2>2, <2>3
<1>6. ASSUME NEW known \in ToSet(q), known.type = i.type,
             ToSet(s) = {Updated(known, i)} \cup {j \in ToSet(q) : j.type # i.type}
      PROVE  OwnAlive(s) /\ KeepsOwn(q, s)
  <2>1. known \in Interest
    BY <1>3
  <2>2. PICK new : new = Updated(known, i)
    OBVIOUS
  <2>3. /\ new.type = known.type
        /\ new.hops = (IF i.hops < known.hops THEN i.hops ELSE known.hops)
        /\ new.ttl = (IF i.ttl > known.ttl THEN i.ttl ELSE known.ttl)
    BY <2>1, <2>2, UpdatedIs
  <2>4. i.hops \in Nat /\ known.hops \in Nat /\ i.ttl \in Nat /\ known.ttl \in Nat
    BY <2>1, InterestAssumption DEF Interest, Item
  <2>5. Local(known) => known.ttl > 0
    BY DEF OwnAlive
  <2>6. Local(new) => new.ttl > 0
    BY <2>3, <2>4, <2>5 DEF Local
  <2>7. Local(known) => Local(new)
    BY <2>3, <2>4 DEF Local
  <2>8. ToSet(s) = {new} \cup {j \in ToSet(q) : j.type # i.type}
    BY <1>6, <2>2
  <2>9. OwnAlive(s)
    BY <2>6, <2>8 DEF OwnAlive
  <2>10. ASSUME NEW t \in Types, Interested(q, t) PROVE Interested(s, t)
    <3>1. PICK j \in ToSet(q) : j.type = t /\ Local(j)
      BY <2>10 DEF Interested
    <3>2. CASE t # i.type
      BY <2>8, <3>1, <3>2 DEF Interested
    <3>3. CASE t = i.type
      <4>1. j = known
        <5>1. PICK k \in DOMAIN q, l \in DOMAIN q : j = q[k] /\ known = q[l]
          BY DEF ToSet
        <5> QED BY <1>6, <3>1, <3>3, <5>1 DEF Singles, OnePer
      <4> QED BY <1>6, <2>3, <2>7, <2>8, <3>1, <3>3, <4>1 DEF Interested
    <3> QED BY <3>2, <3>3
  <2> QED BY <2>9, <2>10 DEF KeepsOwn
<1> QED BY <1>1, <1>2, <1>4, <1>5, <1>6

LEMMA WithLocalKeepsOwn ==
  ASSUME NEW q \in Singles, OwnAlive(q), NEW todo \in Counts, NEW t \in Types
  PROVE  LET tab == WithLocal(q, todo, t)
         IN  OwnAlive(tab[1]) /\ KeepsOwn(q, tab[1])
<1>1. PICK s : s = WithLocal(q, todo, t)[1]
  OBVIOUS
<1>2. s = q \/ ToSet(s) = {Own(t)} \cup {i \in ToSet(q) : i.type # t}
  BY <1>1, WithLocalIs
<1>3. CASE s = q
  BY <1>1, <1>3 DEF KeepsOwn
<1>4. CASE ToSet(s) = {Own(t)} \cup {i \in ToSet(q) : i.type # t}
  <2>1. Own(t).type = t /\ Own(t).hops = 0 /\ Own(t).ttl > 0
    BY InterestAssumption DEF Own
  <2>2. OwnAlive(s)
    BY <1>4, <2>1 DEF OwnAlive
  <2>3. KeepsOwn(q, s)
    BY <1>4, <2>1 DEF KeepsOwn, Interested, Local
  <2> QED BY <1>1, <2>2, <2>3
<1> QED BY <1>2, <1>3, <1>4

\* announce() drops no own interest with time left.
LEMMA AnnouncedKeepsOwn ==
  ASSUME NEW q \in Singles, OwnAlive(q)
  PROVE  OwnAlive(Unsent(q) \o Sent(q)) /\ KeepsOwn(q, Unsent(q) \o Sent(q))
<1>1. PICK s : s = Unsent(q) \o Sent(q)
  OBVIOUS
<1>2. /\ \A i \in ToSet(s) : \E j \in ToSet(q) : i = j \/ i = Elapsed(j)
      /\ \A j \in ToSet(q) : Expired(Elapsed(j)) \/ j \in ToSet(s) \/ Elapsed(j) \in ToSet(s)
  BY <1>1, AnnouncedIs
<1>3. ASSUME NEW j \in ToSet(q)
      PROVE  /\ Local(Elapsed(j)) <=> Local(j)
             /\ Elapsed(j).type = j.type
             /\ Local(j) => Elapsed(j).ttl > 0 /\ ~Expired(Elapsed(j))
  <2>1. j \in Interest
    BY DEF Singles, ToSet
  <2>2. /\ Elapsed(j).type = j.type /\ Elapsed(j).hops = j.hops
        /\ Local(j) => Elapsed(j).ttl = j.ttl
    BY <2>1, ElapsedIs
  <2>3. Local(j) => j.ttl > 0
    BY DEF OwnAlive
  <2> QED BY <2>2, <2>3 DEF Local, Expired
<1>4. OwnAlive(s)
  BY <1>2, <1>3 DEF OwnAlive
<1>5. KeepsOwn(q, s)
  BY <1>2, <1>3 DEF KeepsOwn, Interested
<1> QED BY <1>1, <1>4, <1>5

LEMMA OlderKeepsOwn ==
  ASSUME NEW q \in Singles, OwnAlive(q)
  PROVE  OwnAlive(Older(q)) /\ KeepsOwn(q, Older(q))
<1>1. /\ \A i \in ToSet(Older(q)) : \E j \in ToSet(q) : IsOlder(i, j)
      /\ \A j \in ToSet(q) : \E i \in ToSet(Older(q)) : IsOlder(i, j)
  BY OlderIs
<1>2. \A i, j : IsOlder(i, j) => i.type = j.type /\ i.ttl = j.ttl /\ (Local(i) <=> Local(j))
  BY DEF IsOlder, Local
<1> QED BY <1>1, <1>2 DEF OwnAlive, KeepsOwn, Interested

\* Bytes misread as an interest a hop from looking like an own one have time left.
LivelyGarbage == \A g \in Garbage : g.hops = HopRange - 1 => g.ttl > 0

\* What is read from an announcement of interests with time left, a hop further.
SentAlive(m) == \A i \in ToSet(m.sent) : i.ttl > 0

LEMMA ItemsAlive ==
  ASSUME LivelyGarbage, IInv, NEW m \in net, SentAlive(m), NEW guess \in Guesses(m)
  PROVE  \E n \in Nat :
           /\ Len(Items(m, guess)) = n
           /\ \A p \in 1..n : LET i == Farther(Items(m, guess)[p])
                              IN  i \in Item /\ (Local(i) => i.ttl > 0)
<1>1. m.sent \in Seq(Item) /\ m.places \in [DOMAIN m.sent -> 0..Len(m.sent)]
  BY DEF IInv, TypeOK
<1>2. PICK n \in Nat :
        /\ Len(Items(m, guess)) = n
        /\ \A p \in 1..n :
             /\ Items(m, guess)[p] \in Item
             /\ IF m.places[p] = 0 THEN Items(m, guess)[p] \in Garbage
                                   ELSE Items(m, guess)[p] \in ToSet(m.sent)
  BY <1>1, ItemsAre
<1>3. ASSUME NEW i \in Item, i \in Garbage \/ i \in ToSet(m.sent)
      PROVE  Farther(i) \in Item /\ (Local(Farther(i)) => Farther(i).ttl > 0)
  <2>1. /\ Farther(i) \in Item /\ Farther(i).ttl = i.ttl
        /\ Farther(i).hops = (i.hops + 1) % HopRange
    BY FartherIs
  <2>2. CASE i \in ToSet(m.sent)
    BY <2>1, <2>2 DEF SentAlive
  <2>3. CASE i \in Garbage
    <3>1. i.hops \in 0..HopRange - 1 /\ HopRange \in Nat \ {0}
      BY InterestAssumption DEF Item
    <3>2. i.hops # HopRange - 1 => (i.hops + 1) % HopRange # 0
      <4>1. PICK h \in Nat, r \in Nat : h = i.hops /\ r = HopRange /\ h < r /\ r > 0
        BY <3>1
      <4>2. h + 1 < r => (h + 1) % r = h + 1
        BY <4>1
      <4> QED BY <4>1, <4>2, SMTT(20)
    <3>3. i.hops = HopRange - 1 => i.ttl > 0
      BY <2>3 DEF LivelyGarbage
    <3> QED BY <2>1, <3>2, <3>3 DEF Local
  <2> QED BY <1>3, <2>2, <2>3
<1> QED BY <1>2, <1>3

\* So a whole announcement keeps the own interests.
LEMMA ReceivedKeepsOwn ==
  ASSUME LivelyGarbage, IInv, NEW m \in net, SentAlive(m), NEW guess \in Guesses(m),
         OwnAlive(interests[m.to])
  PROVE  LET tab == Received(interests[m.to], to_announce[m.to], Items(m, guess))
         IN  OwnAlive(tab[1]) /\ KeepsOwn(interests[m.to], tab[1])
<1> DEFINE items == Items(m, guess)
           q     == interests[m.to]
           todo  == to_announce[m.to]
           P     == {tab \in Singles \X Counts : OwnAlive(tab[1]) /\ KeepsOwn(q, tab[1])}
<1>1. PICK n \in Nat :
        /\ Len(items) = n
        /\ \A p \in 1..n : Farther(items[p]) \in Item
                           /\ (Local(Farther(items[p])) => Farther(items[p]).ttl > 0)
  BY ItemsAlive
<1>2. q \in Singles /\ todo \in Counts
  BY TablesAre DEF IInv, TypeOK
<1>3. <<q, todo>> \in P
  BY <1>2 DEF KeepsOwn
<1> HIDE DEF items, q, todo
<1>4. ASSUME NEW tab \in P, NEW k \in 1..n
      PROVE  Learned(tab[1], tab[2], Farther(items[k])) \in P
  <2>1. PICK i : i = Farther(items[k])
    OBVIOUS
  <2>2. i \in Item /\ (Local(i) => i.ttl > 0)
    BY <1>1, <2>1
  <2>3. tab[1] \in Singles /\ tab[2] \in Counts /\ OwnAlive(tab[1]) /\ KeepsOwn(q, tab[1])
    OBVIOUS
  <2>4. Learned(tab[1], tab[2], i) \in Singles \X Counts
    BY <2>2, <2>3, LearnedIs DEF IsTable
  <2>5. PICK s : s = Learned(tab[1], tab[2], i)
    OBVIOUS
  <2>6. OwnAlive(s[1]) /\ KeepsOwn(tab[1], s[1])
    BY <2>2, <2>3, <2>5, LearnedKeepsOwn
  <2>7. KeepsOwn(q, s[1])
    BY <2>3, <2>6 DEF KeepsOwn
  <2> QED BY <2>1, <2>4, <2>5, <2>6, <2>7
<1> HIDE DEF P
<1>5. Received(q, todo, items) \in P
  BY <1>1, <1>3, <1>4, ReceivedKeeps
<1> QED BY <1>5 DEF P, items, q, todo

\* Own interests have time left, and so has everything on the air.
OwnInv ==
  /\ IInv
  /\ \A n \in Nodes : OwnAlive(interests[n])
  /\ \A m \in net : SentAlive(m)

LEMMA InitOwnInv == Init => OwnInv
<1>1. ASSUME Init, NEW n \in Nodes PROVE OwnAlive(interests[n])
  BY <1>1 DEF Init, OwnAlive, ToSet
<1>2. Init => net = {}
  BY DEF Init
<1> QED BY <1>1, <1>2, InitIInv DEF OwnInv

\* A step that gives one node another table and adds no announcement.
LEMMA TableKeepsOwn ==
  ASSUME OwnInv, NEW n \in Nodes, NEW q, interests' = [interests EXCEPT ![n] = q],
         OwnAlive(q), net' \subseteq net
  PROVE  /\ \A k \in Nodes : OwnAlive(interests'[k])
         /\ \A m \in net' : SentAlive(m)
         /\ \A k \in Nodes, t \in Types :
              Interested(interests[k], t) /\ (k = n => KeepsOwn(interests[n], q))
                => Interested(interests'[k], t)
<1>1. interests \in [Nodes -> Seq(Interest)]
  BY DEF OwnInv, IInv, TypeOK
<1>2. interests'[n] = q /\ \A k \in Nodes : k # n => interests'[k] = interests[k]
  BY <1>1
<1>3. \A k \in Nodes : OwnAlive(interests'[k])
  BY <1>2 DEF OwnInv
<1>4. \A m \in net' : SentAlive(m)
  BY DEF OwnInv
<1>5. \A k \in Nodes, t \in Types :
        Interested(interests[k], t) /\ (k = n => KeepsOwn(interests[n], q))
          => Interested(interests'[k], t)
  BY <1>2 DEF KeepsOwn
<1> QED BY <1>3, <1>4, <1>5

OwnKept(n, t) == Interested(interests[n], t) => Interested(interests'[n], t)

\* What a step keeps.
LEMMA OwnStep ==
  LivelyGarbage /\ OwnInv /\ [Next]_vars =>
    /\ \A n \in Nodes : OwnAlive(interests'[n])
    /\ \A m \in net' : SentAlive(m)
    /\ \A n \in Nodes, t \in Types : OwnKept(n, t) \/ BehaveInterest(n)
<1> SUFFICES ASSUME LivelyGarbage, OwnInv, [Next]_vars
             PROVE  /\ \A n \in Nodes : OwnAlive(interests'[n])
                    /\ \A m \in net' : SentAlive(m)
                    /\ \A n \in Nodes, t \in Types : OwnKept(n, t) \/ BehaveInterest(n)
  OBVIOUS
<1> DEFINE Goal == /\ \A n \in Nodes : OwnAlive(interests'[n])
                   /\ \A m \in net' : SentAlive(m)
                   /\ \A n \in Nodes, t \in Types : OwnKept(n, t) \/ BehaveInterest(n)
<1>0. IInv /\ \A n \in Nodes : interests[n] \in Singles /\ to_announce[n] \in Counts
                               /\ OwnAlive(interests[n])
  BY TablesAre DEF OwnInv
<1>1. ASSUME UNCHANGED <<interests, net>> PROVE Goal
  BY <1>1 DEF OwnInv, OwnKept
<1>2. ASSUME NEW n \in Nodes, NEW q, interests' = [interests EXCEPT ![n] = q],
             OwnAlive(q), net' \subseteq net, KeepsOwn(interests[n], q) \/ BehaveInterest(n)
      PROVE  Goal
  <2>1. /\ \A k \in Nodes : OwnAlive(interests'[k])
        /\ \A m \in net' : SentAlive(m)
        /\ \A k \in Nodes, t \in Types :
             Interested(interests[k], t) /\ (k = n => KeepsOwn(interests[n], q))
               => Interested(interests'[k], t)
    BY <1>2, TableKeepsOwn
  <2> QED BY <1>2, <2>1 DEF OwnKept
<1> HIDE DEF Goal
<1>3. ASSUME NEW n \in Nodes, AnnounceTooEarly(n) PROVE Goal
  BY <1>1, <1>3 DEF AnnounceTooEarly
<1>4. ASSUME NEW n \in Nodes, NEW reached \in SUBSET (Nodes \ {n}), NEW fuzz \in {0, 1},
             Announce(n, reached, fuzz)
      PROVE  Goal
  <2> DEFINE q    == interests[n]
             left == Unsent(q) \o Sent(q)
             sent == Wire(Sent(q))
  <2>1. OwnAlive(left) /\ KeepsOwn(q, left)
    BY <1>0, AnnouncedKeepsOwn
  <2>2. Sent(q) \in Singles /\ \A i \in ToSet(Sent(q)) : ~Expired(i)
    BY <1>0, AnnouncedIs
  <2>3. \A i \in ToSet(sent) : i.ttl > 0
    <3> SUFFICES ASSUME NEW i \in ToSet(sent) PROVE i.ttl > 0
      OBVIOUS
    <3>1. PICK j \in ToSet(Sent(q)) : i.ttl = j.ttl
      BY <2>2, WireIs
    <3>2. j \in Interest
      BY <2>2 DEF Singles, ToSet
    <3>3. j.ttl \in Nat /\ j.ttl # 0
      BY <2>2, <3>2, InterestAssumption DEF Interest, Expired
    <3> QED BY <3>1, <3>3
  <2>4. /\ interests' = [interests EXCEPT ![n] = left]
        /\ net' = net \cup {[from |-> n, to |-> r, sent |-> sent, places |-> Dumped(Len(sent))] :
                            r \in IF sent = << >> THEN {} ELSE reached}
    BY <1>4 DEF Announce
  <2> HIDE DEF left, sent
  <2>5. \A m \in net' : SentAlive(m)
    <3> SUFFICES ASSUME NEW m \in net', m \notin net PROVE SentAlive(m)
      BY DEF OwnInv
    <3>1. PICK r \in reached :
            m = [from |-> n, to |-> r, sent |-> sent, places |-> Dumped(Len(sent))]
      BY <2>4
    <3>2. m.sent = sent
      BY <3>1
    <3> QED BY <2>3, <3>2 DEF SentAlive
  <2>6. interests \in [Nodes -> Seq(Interest)]
    BY <1>0 DEF IInv, TypeOK
  <2>7. interests'[n] = left /\ \A k \in Nodes : k # n => interests'[k] = interests[k]
    BY <2>4, <2>6
  <2>8. \A k \in Nodes : OwnAlive(interests'[k])
    BY <1>0, <2>1, <2>7
  <2>9. \A k \in Nodes, t \in Types : OwnKept(k, t)
    BY <2>1, <2>7 DEF OwnKept, KeepsOwn
  <2> QED BY <2>5, <2>8, <2>9 DEF Goal
<1>5. ASSUME NEW m \in net, Receive(m) PROVE Goal
  <2>1. PICK guess \in Guesses(m) :
          LET tab == Received(interests[m.to], to_announce[m.to], Items(m, guess))
          IN  /\ interests' = [interests EXCEPT ![m.to] = tab[1]]
              /\ to_announce' = [to_announce EXCEPT ![m.to] = tab[2]]
              /\ net' = net \ {m}
              /\ UNCHANGED <<wait, fired, changes, age>>
    BY <1>5, ReceiveIs
  <2>2. m.to \in Nodes
    BY <1>0 DEF IInv, TypeOK
  <2>3. PICK q : q = Received(interests[m.to], to_announce[m.to], Items(m, guess))[1]
    OBVIOUS
  <2>4. SentAlive(m) /\ OwnAlive(interests[m.to])
    BY <1>0, <2>2 DEF OwnInv
  <2>5. OwnAlive(q) /\ KeepsOwn(interests[m.to], q)
    BY <1>0, <2>3, <2>4, ReceivedKeepsOwn
  <2>6. interests' = [interests EXCEPT ![m.to] = q] /\ net' \subseteq net
    BY <2>1, <2>3
  <2> QED BY <1>2, <2>2, <2>5, <2>6
<1>6. ASSUME NEW n \in Nodes, NEW t \in Types, CreateInterest(n, t) PROVE Goal
  <2>1. PICK q : q = WithLocal(interests[n], to_announce[n], t)[1]
    OBVIOUS
  <2>2. OwnAlive(q) /\ KeepsOwn(interests[n], q)
    BY <1>0, <2>1, WithLocalKeepsOwn
  <2>3. interests' = [interests EXCEPT ![n] = q] /\ net' \subseteq net
    BY <1>6, <2>1 DEF CreateInterest
  <2> QED BY <1>2, <2>2, <2>3
<1>7. ASSUME NEW n \in Nodes, BehaveInterest(n) PROVE Goal
  <2>1. PICK q : q = WithLocal(WithoutLocal(interests[n]), to_announce[n], Favourite)[1]
    OBVIOUS
  <2>2. /\ WithoutLocal(interests[n]) \in Singles
        /\ ToSet(WithoutLocal(interests[n])) \subseteq ToSet(interests[n])
    BY <1>0, OnlyOfList DEF WithoutLocal
  <2>3. OwnAlive(WithoutLocal(interests[n]))
    BY <1>0, <2>2 DEF OwnAlive
  <2>4. OwnAlive(q)
    BY <1>0, <2>1, <2>2, <2>3, WithLocalKeepsOwn, InterestAssumption
  <2>5. interests' = [interests EXCEPT ![n] = q] /\ net' \subseteq net
    BY <1>7, <2>1 DEF BehaveInterest
  <2> QED BY <1>2, <1>7, <2>4, <2>5
<1>8. ASSUME Tick PROVE Goal
  <2>1. /\ interests' = [n \in Nodes |-> Older(interests[n])] /\ net' = net
    BY <1>8 DEF Tick, Older
  <2>2. \A n \in Nodes : OwnAlive(interests'[n]) /\ KeepsOwn(interests[n], interests'[n])
    BY <1>0, <2>1, OlderKeepsOwn
  <2> QED BY <2>1, <2>2 DEF Goal, OwnInv, OwnKept, KeepsOwn
<1>9. ASSUME UNCHANGED vars PROVE Goal
  BY <1>1, <1>9 DEF vars
<1>10. Goal
  BY <1>3, <1>4, <1>5, <1>6, <1>7, <1>8, <1>9 DEF Next, AnnounceTimer
<1> QED BY <1>10 DEF Goal

LEMMA NextOwnInv == LivelyGarbage /\ OwnInv /\ [Next]_vars => OwnInv'
<1> SUFFICES ASSUME LivelyGarbage, OwnInv, [Next]_vars PROVE OwnInv'
  OBVIOUS
<1>1. IInv'
  BY NextIInv DEF OwnInv
<1>2. (\A n \in Nodes : OwnAlive(interests'[n])) /\ \A m \in net' : SentAlive(m)
  BY OwnStep
<1> QED BY <1>1, <1>2 DEF OwnInv

\* A node's own interest is taken away by its own behave_interest() only: whatever is
\* announced to it, in whatever order, and whatever it announces itself.
THEOREM OwnInterestsStay == LivelyGarbage => (Spec => OwnInterestKept)
<1> SUFFICES ASSUME LivelyGarbage PROVE Spec => OwnInterestKept
  OBVIOUS
<1>1. OwnInv /\ [Next]_vars => OwnInv'
  BY NextOwnInv
<1>2. OwnInv /\ [Next]_vars =>
        [\A n \in Nodes, t \in Types :
           HasLocal(n, t) => HasLocal(n, t)' \/ BehaveInterest(n)]_vars
  <2> SUFFICES ASSUME OwnInv, [Next]_vars, NEW n \in Nodes, NEW t \in Types,
                      HasLocal(n, t), ~BehaveInterest(n)
               PROVE  HasLocal(n, t)'
    OBVIOUS
  <2>1. OwnKept(n, t)
    BY OwnStep
  <2>2. Interested(interests[n], t)
    BY DEF HasLocal, Entries, Interested
  <2>3. Interested(interests'[n], t)
    BY <2>1, <2>2 DEF OwnKept
  <2> QED BY <2>3 DEF HasLocal, Entries, Interested
<1> QED BY InitOwnInv, <1>1, <1>2, PTL DEF Spec, OwnInterestKept

-----------------------------------------------------------------------------
(* The interests of others *)

Lapses(q, a) ==
  \A i \in ToSet(q) : /\ i.ttl <= TTL
                      /\ ~Local(i) /\ i.left > 0 => i.left + a[i.type] <= TTL
SentLapses(m, a) == \A i \in ToSet(m.sent) : i.ttl + a[i.type] <= TTL

\* Up to two interests are written next to each other: what the receiver reads is what
\* was sent.
FewSent == \A m \in net : Len(m.sent) <= 2

LEMMA DumpedFew ==
  ASSUME NEW c \in 0..2, NEW p \in 1..c
  PROVE  Dumped(c)[p] # 0
<1> DEFINE There == {k \in 1..c : Place(k - 1) = p - 1}
<1>1. p \in There
  <2>1. Place(0) = 0 /\ Place(1) = 1
    BY DEF Place
  <2>2. p = 1 \/ p = 2
    OBVIOUS
  <2> QED BY <2>1, <2>2
<1>2. There \in SUBSET Nat /\ 0 \notin There
  OBVIOUS
<1>3. Dumped(c)[p] = IF There = {} THEN 0 ELSE Min(There)
  BY Zenon DEF Dumped
<1> HIDE DEF There
<1>4. Min(There) \in There
  BY <1>1, <1>2, MinIs
<1> QED BY <1>1, <1>2, <1>3, <1>4

\* update_with() never touches expiry_time.
LEMMA LearnedLapses ==
  ASSUME NEW q \in Singles, NEW a \in [Types -> 0..OldAge], Lapses(q, a),
         NEW todo \in Counts, NEW i \in Item, i.ttl + a[i.type] <= TTL
  PROVE  Lapses(Learned(q, todo, i)[1], a)
<1>1. PICK s : s = Learned(q, todo, i)[1]
  OBVIOUS
<1>2. \/ s = q
      \/ ToSet(s) = {Heard(i)} \cup ToSet(q)
      \/ \E known \in ToSet(q) :
           /\ known.type = i.type
           /\ ToSet(s) = {Updated(known, i)} \cup {j \in ToSet(q) : j.type # i.type}
  BY <1>1, LearnedIs
<1>3. CASE s = q
  BY <1>1, <1>3
<1>4. i.ttl <= TTL
  <2>1. PICK l \in Nat, x \in Nat : l = i.ttl /\ x = a[i.type]
    BY InterestAssumption DEF Item
  <2> QED BY <2>1, InterestAssumption
<1>5. CASE ToSet(s) = {Heard(i)} \cup ToSet(q)
  <2>1. Heard(i).ttl = i.ttl /\ Heard(i).left = i.ttl /\ Heard(i).type = i.type
    BY DEF Heard
  <2> QED BY <1>1, <1>4, <1>5, <2>1 DEF Lapses
<1>6. ASSUME NEW known \in ToSet(q),
             ToSet(s) = {Updated(known, i)} \cup {j \in ToSet(q) : j.type # i.type}
      PROVE  Lapses(s, a)
  <2>1. known \in Interest
    BY DEF Singles, ToSet
  <2>2. PICK new : new = Updated(known, i)
    OBVIOUS
  <2>3. /\ new.type = known.type /\ new.left = known.left
        /\ new.hops = (IF i.hops < known.hops THEN i.hops ELSE known.hops)
    BY <2>1, <2>2, UpdatedIs
  <2>4. i.hops \in Nat /\ known.hops \in Nat
    BY <2>1, InterestAssumption DEF Interest, Item
  <2>5. Local(known) => Local(new)
    BY <2>3, <2>4 DEF Local
  <2>6. ~Local(new) /\ new.left > 0 => new.left + a[new.type] <= TTL
    BY <2>3, <2>5 DEF Lapses
  <2>7. new.ttl <= TTL
    <3>1. new.ttl = known.ttl \/ new.ttl = i.ttl
      BY <2>1, <2>2, UpdatedIs
    <3> QED BY <1>4, <3>1 DEF Lapses
  <2>8. ToSet(s) \subseteq {new} \cup ToSet(q)
    BY <1>6, <2>2
  <2> QED BY <2>6, <2>7, <2>8 DEF Lapses
<1> QED BY <1>1, <1>2, <1>3, <1>5, <1>6

LEMMA WithLocalLapses ==
  ASSUME NEW q \in Singles, NEW a, Lapses(q, a), NEW todo \in Counts, NEW t \in Types
  PROVE  Lapses(WithLocal(q, todo, t)[1], a)
<1>1. PICK s : s = WithLocal(q, todo, t)[1]
  OBVIOUS
<1>2. s = q \/ ToSet(s) = {Own(t)} \cup {i \in ToSet(q) : i.type # t}
  BY <1>1, WithLocalIs
<1>3. Local(Own(t)) /\ Own(t).ttl <= TTL
  BY InterestAssumption DEF Own, Local
<1> QED BY <1>1, <1>2, <1>3 DEF Lapses

\* elapse_ttl() leaves another's expiry_time, and announces what is left until then.
LEMMA AnnouncedLapses ==
  ASSUME NEW q \in Singles, NEW a \in [Types -> 0..OldAge], Lapses(q, a)
  PROVE  /\ Lapses(Unsent(q) \o Sent(q), a)
         /\ \A i \in ToSet(Sent(q)) :
              /\ i \in Interest /\ i.ttl <= TTL
              /\ ~Local(i) => i.ttl + a[i.type] <= TTL
<1>1. PICK s : s = Unsent(q) \o Sent(q)
  OBVIOUS
<1>2. /\ \A i \in ToSet(s) : \E j \in ToSet(q) : i = j \/ i = Elapsed(j)
      /\ \A i \in ToSet(Sent(q)) : ~Expired(i) /\ \E j \in ToSet(q) : i = Elapsed(j)
  BY <1>1, AnnouncedIs
<1>3. ASSUME NEW j \in ToSet(q)
      PROVE  /\ Elapsed(j) \in Interest /\ Elapsed(j).type = j.type
             /\ Local(Elapsed(j)) <=> Local(j)
             /\ ~Local(j) => Elapsed(j).ttl = j.left /\ Elapsed(j).left = j.left
  <2>1. j \in Interest
    BY DEF Singles, ToSet
  <2> QED BY <2>1, ElapsedIs DEF Local
<1>4. ASSUME NEW j \in ToSet(q) PROVE Elapsed(j).ttl <= TTL
  <2>1. j \in Interest
    BY DEF Singles, ToSet
  <2>2. CASE Local(j)
    BY <2>1, <2>2 DEF Elapsed, Interest, Lapses
  <2>3. CASE ~Local(j)
    <3>1. PICK l \in Nat, x \in Nat : l = j.left /\ x = a[j.type]
      BY <2>1, InterestAssumption DEF Interest
    <3>2. l > 0 => l + x <= TTL
      BY <2>3, <3>1 DEF Lapses
    <3>3. l <= TTL
      BY <3>1, <3>2, InterestAssumption
    <3> QED BY <1>3, <2>3, <3>1, <3>3
  <2> QED BY <2>2, <2>3
<1>5. \A i \in ToSet(s) : i.ttl <= TTL
  BY <1>2, <1>4 DEF Lapses
<1>6. Lapses(s, a)
  <2> SUFFICES ASSUME NEW i \in ToSet(s), ~Local(i), i.left > 0
               PROVE  i.left + a[i.type] <= TTL
    BY <1>5 DEF Lapses
  <2>1. PICK j \in ToSet(q) : i = j \/ i = Elapsed(j)
    BY <1>2
  <2>2. ~Local(j) /\ i.left = j.left /\ i.type = j.type
    BY <1>3, <2>1
  <2> QED BY <2>2 DEF Lapses
<1>7. ASSUME NEW i \in ToSet(Sent(q))
      PROVE  i \in Interest /\ i.ttl <= TTL /\ (~Local(i) => i.ttl + a[i.type] <= TTL)
  <2>1. ~Expired(i)
    BY <1>2
  <2>2. PICK j \in ToSet(q) : i = Elapsed(j)
    BY <1>2
  <2>3. i \in Interest /\ i.type = j.type /\ (~Local(i) => ~Local(j) /\ i.ttl = j.left)
    BY <1>3, <2>2
  <2>4. i.ttl \in 0..TTLRange - 1 /\ TTL \in Nat
    BY <2>3, InterestAssumption DEF Interest
  <2>5. i.ttl > 0
    BY <2>1, <2>4 DEF Expired
  <2>6. ~Local(i) => j.left > 0
    BY <2>3, <2>5
  <2>7. i.ttl <= TTL
    BY <1>4, <2>2
  <2> QED BY <2>3, <2>6, <2>7 DEF Lapses
<1> QED BY <1>1, <1>6, <1>7

\* A table that lapsed with an older announcement lapses with a later one.
LEMMA YoungerLapses ==
  ASSUME NEW q \in Singles, NEW a \in [Types -> 0..OldAge], Lapses(q, a),
         NEW b \in [Types -> 0..OldAge], \A t \in Types : b[t] <= a[t]
  PROVE  Lapses(q, b)
<1> SUFFICES ASSUME NEW i \in ToSet(q), ~Local(i), i.left > 0
             PROVE  i.left + b[i.type] <= TTL
  BY DEF Lapses
<1>1. i \in Interest
  BY DEF Singles, ToSet
<1>2. PICK l \in Nat, x \in Nat, y \in Nat :
        l = i.left /\ x = a[i.type] /\ y = b[i.type] /\ y <= x
  BY <1>1, InterestAssumption DEF Interest
<1>3. l + x <= TTL
  BY <1>2 DEF Lapses
<1> QED BY <1>2, <1>3, InterestAssumption

LEMMA OlderLapses ==
  ASSUME NEW q \in Singles, NEW a \in [Types -> 0..OldAge], Lapses(q, a)
  PROVE  Lapses(Older(q), [t \in Types |-> IF a[t] < OldAge THEN a[t] + 1 ELSE OldAge])
<1> DEFINE b == [t \in Types |-> IF a[t] < OldAge THEN a[t] + 1 ELSE OldAge]
<1> SUFFICES ASSUME NEW i \in ToSet(Older(q)), ~Local(i), i.left > 0
             PROVE  i.left + b[i.type] <= TTL
  BY OlderIs DEF IsOlder, Lapses
<1>1. PICK j \in ToSet(q) : IsOlder(i, j)
  BY OlderIs
<1>2. j \in Interest
  BY DEF Singles, ToSet
<1>3. i.type = j.type /\ ~Local(j) /\ i.left = Sooner(j.left)
  BY <1>1 DEF IsOlder, Local
<1>4. PICK l \in Nat, x \in Nat : l = j.left /\ x = a[j.type] /\ x <= OldAge
  BY <1>2, InterestAssumption DEF Interest
<1>5. l > 0 /\ i.left = l - 1
  BY <1>3, <1>4 DEF Sooner
<1>6. l + x <= TTL
  BY <1>3, <1>4, <1>5 DEF Lapses
<1>7. x < OldAge
  BY <1>4, <1>5, <1>6, InterestAssumption
<1>8. b[i.type] = x + 1
  BY <1>2, <1>3, <1>4, <1>7 DEF Interest
<1> HIDE DEF b
<1> QED BY <1>4, <1>5, <1>6, <1>8, InterestAssumption

\* A whole announcement, read as it was sent.
LEMMA ReceivedLapses ==
  ASSUME IInv, NEW m \in net, NEW guess \in Guesses(m),
         \A p \in DOMAIN m.sent : m.places[p] # 0,
         SentLapses(m, age), Lapses(interests[m.to], age)
  PROVE  Lapses(Received(interests[m.to], to_announce[m.to], Items(m, guess))[1], age)
<1> DEFINE items == Items(m, guess)
           q     == interests[m.to]
           todo  == to_announce[m.to]
           P     == {tab \in Singles \X Counts : Lapses(tab[1], age)}
<1>1. m.to \in Nodes /\ m.sent \in Seq(Item) /\ m.places \in [DOMAIN m.sent -> 0..Len(m.sent)]
  BY DEF IInv, TypeOK
<1>2. PICK n \in Nat :
        /\ n = Len(m.sent) /\ Len(items) = n
        /\ \A p \in 1..n :
             /\ items[p] \in Item
             /\ IF m.places[p] = 0 THEN items[p] \in Garbage ELSE items[p] \in ToSet(m.sent)
  BY <1>1, ItemsAre
<1>3. \A p \in 1..n : items[p] \in Item /\ items[p] \in ToSet(m.sent)
  BY <1>1, <1>2
<1>4. q \in Singles /\ todo \in Counts
  BY <1>1, TablesAre
<1>5. <<q, todo>> \in P
  BY <1>4
<1> HIDE DEF items, q, todo
<1>6. ASSUME NEW tab \in P, NEW k \in 1..n
      PROVE  Learned(tab[1], tab[2], Farther(items[k])) \in P
  <2>1. PICK i : i = Farther(items[k])
    OBVIOUS
  <2>2. i \in Item /\ i.type = items[k].type /\ i.ttl = items[k].ttl
    BY <1>3, <2>1, FartherIs
  <2>3. i.ttl + age[i.type] <= TTL
    BY <1>3, <2>2 DEF SentLapses
  <2>4. tab[1] \in Singles /\ tab[2] \in Counts /\ Lapses(tab[1], age)
        /\ age \in [Types -> 0..OldAge]
    BY DEF IInv, TypeOK
  <2>5. Learned(tab[1], tab[2], i) \in Singles \X Counts
    BY <2>2, <2>4, LearnedIs DEF IsTable
  <2>6. Lapses(Learned(tab[1], tab[2], i)[1], age)
    BY <2>2, <2>3, <2>4, LearnedLapses
  <2> QED BY <2>1, <2>5, <2>6
<1> HIDE DEF P
<1>7. Received(q, todo, items) \in P
  BY <1>2, <1>5, <1>6, ReceivedKeeps
<1> QED BY <1>7 DEF P, items, q, todo

\* RemoteLapses, and that announcements are written the way dump() writes them.
LapseInv ==
  /\ IInv
  /\ \A m \in net : m.places = Dumped(Len(m.sent)) /\ SentLapses(m, age)
  /\ \A n \in Nodes : Lapses(interests[n], age)

LEMMA InitLapseInv == Init => LapseInv
<1>1. ASSUME Init, NEW n \in Nodes PROVE Lapses(interests[n], age)
  BY <1>1 DEF Init, Lapses, ToSet
<1>2. Init => net = {}
  BY DEF Init
<1> QED BY <1>1, <1>2, InitIInv DEF LapseInv

\* The announcements are read as they were sent.
LEMMA ReadAsSent ==
  ASSUME LapseInv, FewSent, NEW m \in net
  PROVE  \A p \in DOMAIN m.sent : m.places[p] # 0
<1>1. m.sent \in Seq(Item)
  BY DEF LapseInv, IInv, TypeOK
<1>2. PICK c \in Nat : c = Len(m.sent) /\ DOMAIN m.sent = 1..c
  BY <1>1
<1>3. c <= 2
  BY <1>2 DEF FewSent
<1>4. m.places = Dumped(Len(m.sent))
  BY DEF LapseInv
<1>5. c \in 0..2
  BY ONLY c \in Nat, <1>3
<1>6. m.places = Dumped(c)
  BY <1>2, <1>4, Zenon
<1> QED BY <1>2, <1>5, <1>6, DumpedFew

LEMMA LapseStep ==
  LapseInv /\ FewSent /\ [Next]_vars =>
    /\ \A m \in net' : m.places = Dumped(Len(m.sent)) /\ SentLapses(m, age')
    /\ \A n \in Nodes : Lapses(interests'[n], age')
<1> SUFFICES ASSUME LapseInv, FewSent, [Next]_vars
             PROVE  /\ \A m \in net' : m.places = Dumped(Len(m.sent)) /\ SentLapses(m, age')
                    /\ \A n \in Nodes : Lapses(interests'[n], age')
  OBVIOUS
<1> DEFINE Goal == /\ \A m \in net' : m.places = Dumped(Len(m.sent)) /\ SentLapses(m, age')
                   /\ \A n \in Nodes : Lapses(interests'[n], age')
<1>0. /\ IInv /\ age \in [Types -> 0..OldAge] /\ interests \in [Nodes -> Seq(Interest)]
      /\ \A n \in Nodes : interests[n] \in Singles /\ to_announce[n] \in Counts
                          /\ Lapses(interests[n], age)
  BY TablesAre DEF LapseInv, IInv, TypeOK
<1>1. ASSUME UNCHANGED <<interests, net, age>> PROVE Goal
  BY <1>1 DEF LapseInv
<1>2. ASSUME NEW n \in Nodes, NEW q, interests' = [interests EXCEPT ![n] = q],
             Lapses(q, age), net' \subseteq net, UNCHANGED age
      PROVE  Goal
  <2>1. interests'[n] = q /\ \A k \in Nodes : k # n => interests'[k] = interests[k]
    BY <1>0, <1>2
  <2> QED BY <1>0, <1>2, <2>1 DEF LapseInv
<1> HIDE DEF Goal
<1>3. ASSUME NEW n \in Nodes, AnnounceTooEarly(n) PROVE Goal
  BY <1>1, <1>3 DEF AnnounceTooEarly
<1>4. ASSUME NEW n \in Nodes, NEW reached \in SUBSET (Nodes \ {n}), NEW fuzz \in {0, 1},
             Announce(n, reached, fuzz)
      PROVE  Goal
  <2> DEFINE q    == interests[n]
             left == Unsent(q) \o Sent(q)
             sent == Wire(Sent(q))
             now  == [t \in Types |->
                        IF \E i \in ToSet(sent) : i.type = t /\ Local(i) THEN 0 ELSE age[t]]
  <2>1. /\ interests' = [interests EXCEPT ![n] = left]
        /\ net' = net \cup {[from |-> n, to |-> r, sent |-> sent, places |-> Dumped(Len(sent))] :
                            r \in IF sent = << >> THEN {} ELSE reached}
        /\ age' = now
    BY <1>4 DEF Announce
  <2>2. IInv'
    BY <1>0, <1>4, AnnounceIInv
  <2>3. age' \in [Types -> 0..OldAge]
    BY <2>2 DEF IInv, TypeOK
  <2>4. \A t \in Types : age'[t] <= age[t]
    <3>1. \A t \in Types : age[t] \in 0..OldAge
      BY <1>0
    <3>2. \A t \in Types : age'[t] = 0 \/ age'[t] = age[t]
      BY <2>1
    <3>3. OldAge \in Nat
      BY InterestAssumption
    <3> QED BY ONLY <3>1, <3>2, <3>3
  <2>5. Lapses(left, age) /\ left \in Singles /\ Sent(q) \in Singles
        /\ \A i \in ToSet(Sent(q)) : /\ i \in Interest /\ i.ttl <= TTL
                                     /\ ~Local(i) => i.ttl + age[i.type] <= TTL
    BY <1>0, AnnouncedLapses, AnnouncedIs
  <2>6. \A i \in ToSet(sent) :
          /\ i \in Item /\ i.ttl <= TTL /\ (Local(i) => age'[i.type] = 0)
          /\ ~Local(i) => i.ttl + age[i.type] <= TTL
    <3> SUFFICES ASSUME NEW i \in ToSet(sent)
                 PROVE  /\ i \in Item /\ i.ttl <= TTL /\ (Local(i) => age'[i.type] = 0)
                        /\ ~Local(i) => i.ttl + age[i.type] <= TTL
      OBVIOUS
    <3>1. PICK j \in ToSet(Sent(q)) : i.type = j.type /\ i.ttl = j.ttl /\ i.hops = j.hops
      BY <2>5, WireIs
    <3>2. i \in Item
      <4>1. sent \in Seq(Item)
        BY <2>5, WireIs
      <4> HIDE DEF sent
      <4> QED BY <4>1 DEF ToSet
    <3>3. ~Local(i) => i.ttl + age[i.type] <= TTL
      BY <2>5, <3>1 DEF Local
    <3>4. Local(i) => age'[i.type] = 0
      <4>1. i.type \in Types
        BY <3>2 DEF Item
      <4> HIDE DEF sent
      <4> QED BY <2>1, <4>1
    <3>5. i.ttl <= TTL
      BY <2>5, <3>1
    <3> QED BY <3>2, <3>3, <3>4, <3>5
  <2> HIDE DEF left, sent, now
  <2>7. \A i \in ToSet(sent) : i.ttl + age'[i.type] <= TTL
    <3> SUFFICES ASSUME NEW i \in ToSet(sent) PROVE i.ttl + age'[i.type] <= TTL
      OBVIOUS
    <3>1. i.type \in Types /\ i.ttl \in 0..TTLRange - 1 /\ i.ttl <= TTL
      BY <2>6 DEF Item
    <3>2. PICK x \in Nat, y \in Nat : x = age[i.type] /\ y = age'[i.type] /\ y <= x
      BY <1>0, <2>3, <2>4, <3>1
    <3>3. (Local(i) => y = 0) /\ (~Local(i) => i.ttl + x <= TTL)
      BY <2>6, <3>2
    <3> QED BY <3>1, <3>2, <3>3, InterestAssumption
  <2>8. ASSUME NEW m \in net' PROVE m.places = Dumped(Len(m.sent)) /\ SentLapses(m, age')
    <3>1. CASE m \in net
      <4>1. m.places = Dumped(Len(m.sent)) /\ SentLapses(m, age) /\ m.sent \in Seq(Item)
        BY <1>0, <3>1 DEF LapseInv, IInv, TypeOK
      <4>2. SentLapses(m, age')
        <5> SUFFICES ASSUME NEW i \in ToSet(m.sent) PROVE i.ttl + age'[i.type] <= TTL
          BY DEF SentLapses
        <5>1. i \in Item
          BY <4>1 DEF ToSet
        <5>2. i.type \in Types /\ i.ttl \in Nat
          BY <5>1, InterestAssumption DEF Item
        <5>3. PICK x \in Nat, y \in Nat : x = age[i.type] /\ y = age'[i.type] /\ y <= x
          BY <1>0, <2>3, <2>4, <5>2
        <5>4. i.ttl + x <= TTL
          BY <4>1, <5>3 DEF SentLapses
        <5> QED BY <5>2, <5>3, <5>4, InterestAssumption
      <4> QED BY <4>1, <4>2
    <3>2. CASE m \notin net
      <4>1. PICK r \in reached :
              m = [from |-> n, to |-> r, sent |-> sent, places |-> Dumped(Len(sent))]
        BY <2>1, <2>8, <3>2
      <4>2. m.sent = sent /\ m.places = Dumped(Len(sent))
        BY <4>1
      <4> QED BY <2>7, <4>2 DEF SentLapses
    <3> QED BY <3>1, <3>2
  <2>9. ASSUME NEW k \in Nodes PROVE Lapses(interests'[k], age')
    <3>1. PICK s : s = interests'[k]
      OBVIOUS
    <3>2. s \in Singles /\ Lapses(s, age)
      BY <1>0, <2>1, <2>5, <3>1
    <3> QED BY <1>0, <2>3, <2>4, <3>1, <3>2, YoungerLapses
  <2> QED BY <2>8, <2>9 DEF Goal
<1>5. ASSUME NEW m \in net, Receive(m) PROVE Goal
  <2>1. PICK guess \in Guesses(m) :
          LET tab == Received(interests[m.to], to_announce[m.to], Items(m, guess))
          IN  /\ interests' = [interests EXCEPT ![m.to] = tab[1]]
              /\ to_announce' = [to_announce EXCEPT ![m.to] = tab[2]]
              /\ net' = net \ {m}
              /\ UNCHANGED <<wait, fired, changes, age>>
    BY <1>5, ReceiveIs
  <2>2. m.to \in Nodes
    BY <1>0 DEF IInv, TypeOK
  <2>3. PICK q : q = Received(interests[m.to], to_announce[m.to], Items(m, guess))[1]
    OBVIOUS
  <2>4. /\ SentLapses(m, age) /\ Lapses(interests[m.to], age)
        /\ \A p \in DOMAIN m.sent : m.places[p] # 0
    BY <1>0, <2>2, ReadAsSent DEF LapseInv
  <2>5. Lapses(q, age)
    BY <1>0, <2>3, <2>4, ReceivedLapses
  <2>6. interests' = [interests EXCEPT ![m.to] = q] /\ net' \subseteq net /\ UNCHANGED age
    BY <2>1, <2>3
  <2> QED BY <1>2, <2>2, <2>5, <2>6
<1>6. ASSUME NEW n \in Nodes, NEW t \in Types, CreateInterest(n, t) PROVE Goal
  <2>1. PICK q : q = WithLocal(interests[n], to_announce[n], t)[1]
    OBVIOUS
  <2>2. Lapses(q, age)
    BY <1>0, <2>1, WithLocalLapses
  <2>3. interests' = [interests EXCEPT ![n] = q] /\ net' \subseteq net /\ UNCHANGED age
    BY <1>6, <2>1 DEF CreateInterest
  <2> QED BY <1>2, <2>2, <2>3
<1>7. ASSUME NEW n \in Nodes, BehaveInterest(n) PROVE Goal
  <2>1. PICK q : q = WithLocal(WithoutLocal(interests[n]), to_announce[n], Favourite)[1]
    OBVIOUS
  <2>2. /\ WithoutLocal(interests[n]) \in Singles
        /\ ToSet(WithoutLocal(interests[n])) \subseteq ToSet(interests[n])
    BY <1>0, OnlyOfList DEF WithoutLocal
  <2>3. Lapses(WithoutLocal(interests[n]), age)
    BY <1>0, <2>2 DEF Lapses
  <2>4. Lapses(q, age)
    BY <1>0, <2>1, <2>2, <2>3, WithLocalLapses, InterestAssumption
  <2>5. interests' = [interests EXCEPT ![n] = q] /\ net' \subseteq net /\ UNCHANGED age
    BY <1>7, <2>1 DEF BehaveInterest
  <2> QED BY <1>2, <2>4, <2>5
<1>8. ASSUME Tick PROVE Goal
  <2>1. /\ interests' = [n \in Nodes |-> Older(interests[n])] /\ net' = {}
        /\ age' = [t \in Types |-> IF age[t] < OldAge THEN age[t] + 1 ELSE OldAge]
    BY <1>8 DEF Tick, Older
  <2>2. \A n \in Nodes : Lapses(interests'[n], age')
    BY <1>0, <2>1, OlderLapses
  <2> QED BY <2>1, <2>2 DEF Goal
<1>9. ASSUME UNCHANGED vars PROVE Goal
  BY <1>1, <1>9 DEF vars
<1>10. Goal
  BY <1>3, <1>4, <1>5, <1>6, <1>7, <1>8, <1>9 DEF Next, AnnounceTimer
<1> QED BY <1>10 DEF Goal

LEMMA NextLapseInv == LapseInv /\ FewSent /\ [Next]_vars => LapseInv'
<1> SUFFICES ASSUME LapseInv, FewSent, [Next]_vars PROVE LapseInv'
  OBVIOUS
<1>1. IInv'
  BY NextIInv DEF LapseInv
<1>2. /\ \A m \in net' : m.places = Dumped(Len(m.sent)) /\ SentLapses(m, age')
      /\ \A n \in Nodes : Lapses(interests'[n], age')
  BY LapseStep
<1> QED BY <1>1, <1>2 DEF LapseInv, SentLapses, Lapses

\* As long as no announcement holds more than two interests, nobody keeps another's
\* interest, and nobody announces it, beyond TTL after an owner last announced it.
THEOREM OthersInterestsLapse == Spec /\ []FewSent => []RemoteLapses
<1>1. LapseInv /\ FewSent /\ [Next]_vars => LapseInv'
  BY NextLapseInv
<1>2. LapseInv => RemoteLapses
  BY DEF LapseInv, RemoteLapses, Lapses, SentLapses, Entries
<1> QED BY InitLapseInv, <1>1, <1>2, PTL DEF Spec

-----------------------------------------------------------------------------
(* Two types *)

\* An announcement holds one interest of a type.
SentInv == IInv /\ \A m \in net : OnePer(m.sent)

LEMMA WireOnePer ==
  ASSUME NEW s \in Singles
  PROVE  OnePer(Wire(s))
<1>1. \A j, k \in DOMAIN s : s[j].type = s[k].type => j = k
  BY DEF Singles, OnePer
<1>2. DOMAIN Wire(s) = DOMAIN s /\ \A k \in DOMAIN s : Wire(s)[k].type = s[k].type
  BY DEF Wire
<1> QED BY <1>1, <1>2 DEF OnePer

LEMMA NextSentInv == SentInv /\ [Next]_vars => SentInv'
<1> SUFFICES ASSUME SentInv, [Next]_vars, NEW m \in net', m \notin net PROVE OnePer(m.sent)
  BY NextIInv DEF SentInv
<1>1. PICK n \in Nodes : \E reached \in SUBSET (Nodes \ {n}), fuzz \in {0, 1} :
                            Announce(n, reached, fuzz)
  BY DEF Next, AnnounceTimer, AnnounceTooEarly, Receive, Tick, CreateInterest,
         BehaveInterest, vars
<1>2. PICK reached \in SUBSET (Nodes \ {n}), fuzz \in {0, 1} : Announce(n, reached, fuzz)
  BY <1>1
<1> DEFINE sent == Wire(Sent(interests[n]))
<1>3. net' = net \cup {[from |-> n, to |-> r, sent |-> sent, places |-> Dumped(Len(sent))] :
                         r \in IF sent = << >> THEN {} ELSE reached}
  BY <1>2 DEF Announce
<1>4. OnePer(sent)
  BY TablesAre, AnnouncedIs, WireOnePer DEF SentInv
<1> HIDE DEF sent
<1>5. PICK r \in reached :
        m = [from |-> n, to |-> r, sent |-> sent, places |-> Dumped(Len(sent))]
  BY <1>3
<1>6. m.sent = sent
  BY <1>5
<1> QED BY <1>4, <1>6

LEMMA TwoTypesFewSent ==
  ASSUME NEW a, NEW b, Types \subseteq {a, b}
  PROVE  SentInv => FewSent
<1> SUFFICES ASSUME SentInv, NEW m \in net PROVE Len(m.sent) <= 2
  BY DEF FewSent
<1>1. m.sent \in Seq(Item) /\ OnePer(m.sent)
  BY DEF SentInv, IInv, TypeOK
<1>2. PICK c \in Nat : c = Len(m.sent) /\ DOMAIN m.sent = 1..c
  BY <1>1
<1>3. ASSUME c > 2 PROVE FALSE
  <2>1. 1 \in 1..c /\ 2 \in 1..c /\ 3 \in 1..c
    BY <1>3
  <2>2. \A k \in 1..c : m.sent[k] \in Item
    BY <1>1, <1>2
  <2>3. \A k \in 1..c : m.sent[k].type \in {a, b}
    <3>1. \A i \in Item : i.type \in {a, b}
      BY DEF Item
    <3> QED BY <2>2, <3>1
  <2>4. \A j, k \in 1..c : m.sent[j].type = m.sent[k].type => j = k
    BY <1>1, <1>2 DEF OnePer
  <2> QED BY <2>1, <2>3, <2>4
<1> QED BY <1>2, <1>3

\* With at most two types of content no announcement is misread, and the hypothesis
\* of OthersInterestsLapse holds.
THEOREM TwoTypesLapse ==
  ASSUME NEW a, NEW b, Types \subseteq {a, b}
  PROVE  Spec => []RemoteLapses
<1>1. Init => SentInv
  BY InitIInv DEF SentInv, Init
<1>2. SentInv /\ [Next]_vars => SentInv'
  BY NextSentInv
<1>3. SentInv => FewSent
  BY TwoTypesFewSent
<1> QED BY <1>1, <1>2, <1>3, OthersInterestsLapse, PTL DEF Spec
===============================================================================
