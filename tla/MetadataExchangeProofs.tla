------------------------ MODULE MetadataExchangeProofs ------------------------
(***************************************************************************)
(* Theorems about MetadataExchange, for every network, any contents and    *)
(* publishers, and any times.                                              *)
(***************************************************************************)
EXTENDS MetadataExchange, ListsProofs, FiniteSetTheorems

-----------------------------------------------------------------------------
(* The operators of the model *)

\* A table is a function from some contents.
LEMMA TableIs ==
  ASSUME NEW E, NEW t
  PROVE  t \in Tables(E) <=> DOMAIN t \subseteq Hashes /\ t \in [DOMAIN t -> E]
<1>1. ASSUME t \in Tables(E)
      PROVE  DOMAIN t \subseteq Hashes /\ t \in [DOMAIN t -> E]
  <2>1. PICK hs \in SUBSET Hashes : t \in [hs -> E]
    BY <1>1 DEF Tables
  <2>2. DOMAIN t = hs
    BY <2>1
  <2> QED BY <2>1, <2>2
<1>2. ASSUME DOMAIN t \subseteq Hashes, t \in [DOMAIN t -> E]
      PROVE  t \in Tables(E)
  <2> DEFINE hs == DOMAIN t
  <2>1. hs \in SUBSET Hashes /\ t \in [hs -> E]
    BY <1>2
  <2> HIDE DEF hs
  <2> QED BY <2>1 DEF Tables
<1> QED BY <1>1, <1>2

\* q is the table t with the entry e under the hash h.
IsAdded(q, t, h, e, E) ==
  /\ q \in Tables(E)
  /\ DOMAIN q = DOMAIN t \cup {h}
  /\ q[h] = e
  /\ \A g \in DOMAIN t : g # h => q[g] = t[g]

LEMMA TableAdded ==
  ASSUME NEW E, NEW t \in Tables(E), NEW h \in Hashes, NEW e \in E
  PROVE  IsAdded(Added(t, h, e), t, h, e, E)
<1> DEFINE q == Added(t, h, e)
<1>1. DOMAIN t \subseteq Hashes /\ t \in [DOMAIN t -> E]
  BY TableIs
<1>2. /\ DOMAIN q = DOMAIN t \cup {h}
      /\ q[h] = e
      /\ \A g \in DOMAIN t : g # h => q[g] = t[g]
  BY DEF Added
<1>3. q = [g \in DOMAIN q |-> q[g]]
  BY DEF Added
<1> HIDE DEF q
<1>4. q \in [DOMAIN q -> E] /\ DOMAIN q \subseteq Hashes
  BY <1>1, <1>2, <1>3
<1>5. q \in Tables(E)
  BY <1>4, TableIs
<1> QED BY <1>2, <1>5 DEF q, IsAdded

LEMMA TableRestricted ==
  ASSUME NEW E, NEW t \in Tables(E), NEW S \in SUBSET (DOMAIN t)
  PROVE  /\ Restrict(t, S) \in Tables(E)
         /\ DOMAIN Restrict(t, S) = S
         /\ \A g \in S : Restrict(t, S)[g] = t[g]
<1> DEFINE q == Restrict(t, S)
<1>1. DOMAIN t \subseteq Hashes /\ t \in [DOMAIN t -> E]
  BY TableIs
<1>2. DOMAIN q = S /\ \A g \in S : q[g] = t[g]
  BY DEF Restrict
<1>3. q = [g \in DOMAIN q |-> q[g]]
  BY DEF Restrict
<1> HIDE DEF q
<1>4. q \in [DOMAIN q -> E] /\ DOMAIN q \subseteq Hashes
  BY <1>1, <1>2, <1>3
<1>5. q \in Tables(E)
  BY <1>4, TableIs
<1> QED BY <1>2, <1>5 DEF q

\* Arming a timer loses none, and arming one for certain leaves one.
LEMMA TimersArmed ==
  ASSUME NEW timers \in Timers, NEW count \in 0..2
  PROVE  /\ Armed(timers, count) \in Timers
         /\ Armed(timers, count).now = timers.now
         /\ Armed(timers, count).next >= timers.next
         /\ count > 0 => Armed(timers, count).next > 0
<1>1. /\ timers.now \in 0..MaxTimers /\ timers.next \in 0..MaxTimers
      /\ timers = [now |-> timers.now, next |-> timers.next]
      /\ MaxTimers \in Nat \ {0}
  BY MetadataAssumption DEF Timers
<1> DEFINE c == Min({timers.next + count, MaxTimers})
<1>2. c = IF timers.next + count <= MaxTimers THEN timers.next + count ELSE MaxTimers
  BY <1>1, MinOfTwo
<1>3. Armed(timers, count) = [timers EXCEPT !.next = c]
  BY DEF Armed
<1>4. c \in 0..MaxTimers /\ c >= timers.next /\ (count > 0 => c > 0)
  BY <1>1, <1>2
<1> HIDE DEF c
<1>5. Armed(timers, count) = [now |-> timers.now, next |-> c]
  BY <1>1, <1>3
<1> QED BY <1>1, <1>4, <1>5 DEF Timers

LEMMA TimersFired ==
  ASSUME NEW timers \in Timers, timers.now > 0
  PROVE  /\ Fired(timers) \in Timers
         /\ Fired(timers).now = timers.now - 1
         /\ Fired(timers).next = timers.next
BY MetadataAssumption DEF Timers, Fired

-----------------------------------------------------------------------------
(* The fetch queue *)

\* A batch leaves the queue and the rest stays.
LEMMA QueueCut ==
  ASSUME NEW q \in Seq(Blocks)
  PROVE  /\ Popped(q) \in Seq(Blocks) /\ Taken(q) \in Seq(Blocks)
         /\ ToSet(q) = ToSet(Taken(q)) \cup ToSet(Popped(q))
         /\ Rearms(Popped(q)) \in 0..2
         /\ Rearms(Popped(q)) = 0 => ToSet(Popped(q)) = {}
<1> DEFINE n == Len(q)
           k == Min({FetchBatch, Len(q)})
<1>1. n \in Nat /\ DOMAIN q = 1..n /\ FetchBatch \in Nat \ {0}
  BY MetadataAssumption
<1>2. k \in 0..n
  BY <1>1, MinOfTwo
<1>3. Popped(q) = SubSeq(q, k + 1, n) /\ Taken(q) = SubSeq(q, 1, k)
  BY DEF Popped, Taken
<1> HIDE DEF k, n
<1>4. n = Len(q)
  BY DEF n
<1>5. /\ Taken(q) \in Seq(Blocks) /\ Len(Taken(q)) = k
      /\ \A i \in 1..k : Taken(q)[i] = q[i]
  BY <1>1, <1>2, <1>3, <1>4
<1>6. /\ Popped(q) \in Seq(Blocks) /\ Len(Popped(q)) = n - k
      /\ \A i \in 1..n - k : Popped(q)[i] = q[k + i]
  <2>1. k + 1 \in 1..n + 1 /\ n \in 0..n /\ k \in Nat
    BY <1>1, <1>2
  <2>2. SubSeq(q, k + 1, n) \in Seq(Blocks) /\ Len(SubSeq(q, k + 1, n)) = n - k
    BY <2>1, <1>2, <1>4
  <2>3. \A i \in 1..n - k : SubSeq(q, k + 1, n)[i] = q[k + i]
    BY <2>1, <1>2, <1>4
  <2> QED BY <2>2, <2>3, <1>3
<1>7. DOMAIN Taken(q) = 1..k /\ DOMAIN Popped(q) = 1..n - k
  BY <1>2, <1>1, <1>5, <1>6
<1>8. ToSet(q) = ToSet(Taken(q)) \cup ToSet(Popped(q))
  <2>1. ASSUME NEW i \in 1..n PROVE q[i] \in ToSet(Taken(q)) \cup ToSet(Popped(q))
    <3>1. CASE i <= k
      <4>1. i \in 1..k
        BY <3>1, <1>1, <1>2
      <4> QED BY <4>1, <1>5, <1>7 DEF ToSet
    <3>2. CASE i > k
      <4>1. i - k \in 1..n - k /\ k + (i - k) = i
        BY <3>2, <1>1, <1>2
      <4>2. Popped(q)[i - k] = q[i]
        BY <4>1, <1>6
      <4> QED BY <4>1, <4>2, <1>7 DEF ToSet
    <3> QED BY <3>1, <3>2, <1>1, <1>2
  <2>2. \A i \in 1..k : q[i] \in ToSet(q)
    BY <1>1, <1>2 DEF ToSet
  <2>3. \A i \in 1..n - k : q[k + i] \in ToSet(q)
    <3>1. \A i \in 1..n - k : k + i \in 1..n
      BY <1>1, <1>2
    <3> QED BY <3>1, <1>1 DEF ToSet
  <2>4. ToSet(Taken(q)) \subseteq ToSet(q)
    BY <2>2, <1>5, <1>7 DEF ToSet
  <2>5. ToSet(Popped(q)) \subseteq ToSet(q)
    BY <2>3, <1>6, <1>7 DEF ToSet
  <2>6. ToSet(q) \subseteq ToSet(Taken(q)) \cup ToSet(Popped(q))
    BY <2>1, <1>1 DEF ToSet
  <2> QED BY <2>4, <2>5, <2>6
<1>9. Rearms(Popped(q)) \in 0..2
  BY DEF Rearms
<1>10. Rearms(Popped(q)) = 0 => ToSet(Popped(q)) = {}
  <2>1. ToSet(<< >>) = {}
    BY DEF ToSet
  <2> QED BY <2>1 DEF Rearms
<1> QED BY <1>5, <1>6, <1>8, <1>9, <1>10

LEMMA BlocksQueued ==
  ASSUME NEW q \in Seq(Blocks), NEW h \in Hashes
  PROVE  /\ q \o BlocksInOrder(h) \in Seq(Blocks)
         /\ ToSet(q \o BlocksInOrder(h)) = ToSet(q) \cup BlocksOf(h)
<1> DEFINE n == BlockCount[h]
           t == BlocksInOrder(h)
<1>1. n \in Nat \ {0}
  BY BlockAssumption
<1>2. \A k \in 1..n : <<h, k - 1>> \in BlocksOf(h) /\ <<h, k - 1>> \in Blocks
  BY <1>1 DEF BlocksOf, Blocks
<1>3. t = [k \in 1..n |-> <<h, k - 1>>]
  BY DEF BlocksInOrder
<1>4. t \in Seq(Blocks) /\ DOMAIN t = 1..n
  <2> HIDE DEF t
  <2> QED BY <1>1, <1>2, <1>3, IsASeq
<1>5. Range(t) = BlocksOf(h)
  <2>1. Range(t) \subseteq BlocksOf(h)
    BY <1>2, <1>3 DEF Range
  <2>2. ASSUME NEW b \in BlocksOf(h) PROVE b \in Range(t)
    <3>1. b = <<h, b[2]>> /\ b[2] \in 0..n - 1
      BY DEF BlocksOf
    <3>2. b[2] + 1 \in 1..n /\ t[b[2] + 1] = <<h, b[2]>>
      BY <1>1, <3>1, <1>3
    <3> QED BY <3>1, <3>2, <1>4 DEF Range
  <2> QED BY <2>1, <2>2
<1> HIDE DEF t
<1>6. q \o t \in Seq(Blocks) /\ Range(q \o t) = Range(q) \cup Range(t)
  BY <1>4, RangeConcatenation
<1>7. ToSet(q \o t) = Range(q \o t) /\ ToSet(q) = Range(q)
  BY DEF ToSet, Range
<1> QED BY <1>5, <1>6, <1>7 DEF t

-----------------------------------------------------------------------------
(* Receiving an announcement, item by item *)

Tabs == [rmt : Tables(Metadata), fetch : Seq(Blocks), wanted : SUBSET Hashes,
         requested : SUBSET Blocks, timers : Timers]

Farther(k) == (k + 1) % HopRange

\* What the table of the receiver is after some items of m: it knows what it knew,
\* and what it knows it knew just so, or it is as announced and one hop further,
\* which is not more hops than it had.
Heard(m, table) ==
  /\ DOMAIN rmt[m.to] \subseteq DOMAIN table
  /\ \A h \in DOMAIN table :
       \/ h \in DOMAIN rmt[m.to] /\ table[h] = rmt[m.to][h]
       \/ /\ h \in DOMAIN m.metadata
          /\ Publisher[h] # m.to
          /\ table[h].hops = Farther(m.metadata[h].hops)
          /\ table[h].left = IF h \in DOMAIN rmt[m.to] THEN rmt[m.to][h].left
                                                      ELSE m.metadata[h].left
          /\ h \in DOMAIN rmt[m.to] => table[h].hops <= rmt[m.to][h].hops

\* EveryBlockFetched of one node.
Fetches(tab) ==
  \A h \in tab.wanted \cap DOMAIN tab.rmt : \A b \in BlocksOf(h) :
    \/ b \in tab.requested
    \/ b \in ToSet(tab.fetch) /\ tab.timers.now + tab.timers.next > 0

LEMMA MetadataFields ==
  ASSUME NEW e \in Metadata
  PROVE  /\ e.left \in 0..TTL /\ e.hops \in 0..HopRange - 1
         /\ \A k \in 0..HopRange - 1 : /\ [e EXCEPT !.hops = k] \in Metadata
                                       /\ [e EXCEPT !.hops = k].hops = k
                                       /\ [e EXCEPT !.hops = k].left = e.left
         /\ Farther(e.hops) \in 0..HopRange - 1
<1>1. HopRange \in Nat \ {0}
  BY MetadataAssumption
<1>2. e.left \in 0..TTL /\ e.hops \in 0..HopRange - 1
  BY DEF Metadata
<1>3. Farther(e.hops) \in 0..HopRange - 1
  BY <1>1, <1>2 DEF Farther
<1>4. ASSUME NEW k \in 0..HopRange - 1
      PROVE  /\ [e EXCEPT !.hops = k] \in Metadata
             /\ [e EXCEPT !.hops = k].hops = k
             /\ [e EXCEPT !.hops = k].left = e.left
  BY DEF Metadata
<1> QED BY <1>2, <1>3, <1>4

\* discover(): one content is new or has come closer, the others are as they were.
LEMMA DiscoveredIn ==
  ASSUME NEW t \in Tables(Metadata), NEW h \in Hashes, NEW e \in Metadata
  PROVE  /\ Discovered(t, h, e) \in Tables(Metadata)
         /\ DOMAIN Discovered(t, h, e) = DOMAIN t \cup {h}
         /\ \A g \in DOMAIN t : g # h => Discovered(t, h, e)[g] = t[g]
         /\ h \notin DOMAIN t => Discovered(t, h, e)[h] = e
         /\ h \in DOMAIN t =>
              \/ Discovered(t, h, e)[h] = t[h]
              \/ /\ Discovered(t, h, e)[h].hops = e.hops
                 /\ Discovered(t, h, e)[h].left = t[h].left
                 /\ e.hops <= t[h].hops
<1>1. CASE h \notin DOMAIN t
  <2> DEFINE q == Added(t, h, e)
  <2>1. Discovered(t, h, e) = q
    BY <1>1 DEF Discovered
  <2>2. /\ q \in Tables(Metadata)
        /\ DOMAIN q = DOMAIN t \cup {h}
        /\ q[h] = e
        /\ \A g \in DOMAIN t : g # h => q[g] = t[g]
    <3>1. IsAdded(q, t, h, e, Metadata)
      BY TableAdded
    <3> HIDE DEF q
    <3> QED BY <3>1 DEF IsAdded
  <2> HIDE DEF q
  <2> QED BY ONLY <2>1, <2>2, <1>1
<1>2. CASE h \in DOMAIN t
  <2> DEFINE q == Discovered(t, h, e)
             k == Min({t[h].hops, e.hops})
  <2>1. DOMAIN t \subseteq Hashes /\ t \in [DOMAIN t -> Metadata] /\ t[h] \in Metadata
    BY <1>2, TableIs
  <2>2. /\ t[h].hops \in 0..HopRange - 1 /\ e.hops \in 0..HopRange - 1
        /\ t[h].hops \in Int /\ e.hops \in Int
    BY <2>1, MetadataFields, MetadataAssumption
  <2>3. k = IF t[h].hops <= e.hops THEN t[h].hops ELSE e.hops
    BY <2>2, MinOfTwo
  <2>4. q = [t EXCEPT ![h] = [t[h] EXCEPT !.hops = k]]
    BY <1>2 DEF Discovered
  <2>5. k \in 0..HopRange - 1
    BY <2>2, <2>3
  <2> DEFINE r == [t[h] EXCEPT !.hops = k]
  <2>6. r \in Metadata /\ r.hops = k /\ r.left = t[h].left
    BY <2>1, <2>5, MetadataFields
  <2>7. k = t[h].hops => r = t[h]
    BY <2>1 DEF Metadata
  <2> HIDE DEF q, r, k
  <2>8. /\ q \in [DOMAIN t -> Metadata] /\ q[h] = r
        /\ \A g \in DOMAIN t : g # h => q[g] = t[g]
    BY <2>1, <2>4, <2>6, <1>2 DEF r
  <2>9. q \in Tables(Metadata) /\ DOMAIN q = DOMAIN t
    BY <2>1, <2>8, TableIs
  <2>10. q[h] = t[h] \/ (q[h].hops = e.hops /\ q[h].left = t[h].left /\ e.hops <= t[h].hops)
    BY <2>2, <2>3, <2>6, <2>7, <2>8
  <2> QED BY <2>8, <2>9, <2>10, <1>2 DEF q
<1> QED BY <1>1, <1>2

\* The table after one more item.
LEMMA HeardMore ==
  ASSUME TypeOK, NEW m \in net, NEW t \in Tables(Metadata), Heard(m, t),
         NEW h \in DOMAIN m.metadata, Publisher[h] # m.to
  PROVE  LET e == [m.metadata[h] EXCEPT !.hops = (@ + 1) % HopRange]
         IN  /\ e \in Metadata /\ h \in Hashes
             /\ Discovered(t, h, e) \in Tables(Metadata)
             /\ DOMAIN Discovered(t, h, e) = DOMAIN t \cup {h}
             /\ Heard(m, Discovered(t, h, e))
<1> DEFINE n == m.to
           a == m.metadata[h]
           e == [m.metadata[h] EXCEPT !.hops = (@ + 1) % HopRange]
           q == Discovered(t, h, e)
<1>1. /\ n \in Nodes /\ m.metadata \in Tables(Metadata)
      /\ rmt[n] \in Tables(Metadata)
  BY MetadataAssumption DEF TypeOK
<1>2. h \in Hashes /\ a \in Metadata
  BY <1>1, TableIs
<1>3. e \in Metadata /\ e.hops = Farther(a.hops) /\ e.left = a.left
  <2> DEFINE f == Farther(a.hops)
  <2>1. e = [a EXCEPT !.hops = f]
    BY DEF Farther
  <2>2. f \in 0..HopRange - 1
    BY <1>2, MetadataFields
  <2> HIDE DEF f, e, a
  <2>3. e \in Metadata /\ e.hops = f /\ e.left = a.left
    BY <2>1, <2>2, <1>2, MetadataFields
  <2> QED BY <2>3 DEF f
<1> HIDE DEF e
<1>4. /\ q \in Tables(Metadata)
      /\ DOMAIN q = DOMAIN t \cup {h}
      /\ \A g \in DOMAIN t : g # h => q[g] = t[g]
      /\ h \notin DOMAIN t => q[h] = e
      /\ h \in DOMAIN t => \/ q[h] = t[h]
                           \/ q[h].hops = e.hops /\ q[h].left = t[h].left /\ e.hops <= t[h].hops
  BY <1>2, <1>3, DiscoveredIn
<1> HIDE DEF q
<1>5. \A g \in DOMAIN rmt[n] : rmt[n][g].hops \in Int
  BY <1>1, TableIs, MetadataFields, MetadataAssumption
<1>6. \A g \in DOMAIN t : t[g].hops \in Int
  BY TableIs, MetadataFields, MetadataAssumption
<1>7. e.hops \in Int
  BY <1>3, MetadataFields, MetadataAssumption
<1>8. DOMAIN rmt[n] \subseteq DOMAIN q
  BY <1>4 DEF Heard
<1>9. ASSUME NEW g \in DOMAIN q
      PROVE  \/ g \in DOMAIN rmt[n] /\ q[g] = rmt[n][g]
             \/ /\ g \in DOMAIN m.metadata
                /\ Publisher[g] # n
                /\ q[g].hops = Farther(m.metadata[g].hops)
                /\ q[g].left = IF g \in DOMAIN rmt[n] THEN rmt[n][g].left
                                                      ELSE m.metadata[g].left
                /\ g \in DOMAIN rmt[n] => q[g].hops <= rmt[n][g].hops
  <2>1. CASE g # h
    <3>1. g \in DOMAIN t /\ q[g] = t[g]
      BY <2>1, <1>4
    <3> QED BY <3>1 DEF Heard
  <2>2. CASE g = h /\ h \notin DOMAIN t
    <3>1. h \notin DOMAIN rmt[n]
      BY <2>2 DEF Heard
    <3> QED BY <3>1, <2>2, <1>3, <1>4
  <2>3. CASE g = h /\ h \in DOMAIN t /\ q[h] = t[h]
    BY <2>3 DEF Heard
  <2>4. CASE /\ g = h /\ h \in DOMAIN t
             /\ q[h].hops = e.hops /\ q[h].left = t[h].left /\ e.hops <= t[h].hops
    <3>1. t[h].left = IF h \in DOMAIN rmt[n] THEN rmt[n][h].left ELSE a.left
      BY <2>4 DEF Heard
    <3>2. h \in DOMAIN rmt[n] => t[h].hops <= rmt[n][h].hops
      BY <2>4, <1>5 DEF Heard
    <3>3. h \in DOMAIN rmt[n] => q[h].hops <= rmt[n][h].hops
      BY <3>2, <2>4, <1>5, <1>6, <1>7
    <3> QED BY <3>1, <3>3, <2>4, <1>3
  <2> QED BY <2>1, <2>2, <2>3, <2>4, <1>4
<1>10. Heard(m, q)
  BY <1>8, <1>9 DEF Heard
<1> QED BY <1>2, <1>3, <1>4, <1>10 DEF q, e

\* receive(ContentAnn) of one item.
LEMMA LearnKeeps ==
  ASSUME TypeOK, NEW m \in net, NEW tab \in Tabs, Heard(m, tab.rmt), Fetches(tab),
         NEW h \in DOMAIN m.metadata
  PROVE  LET q == Learn(m.to, tab, h, m.metadata[h])
         IN  q \in Tabs /\ Heard(m, q.rmt) /\ Fetches(q)
<1> DEFINE n     == m.to
           e     == [m.metadata[h] EXCEPT !.hops = (@ + 1) % HopRange]
           table == Discovered(tab.rmt, h, e)
           queue == tab.fetch \o BlocksInOrder(h)
           q     == Learn(m.to, tab, h, m.metadata[h])
<1>1. /\ tab.rmt \in Tables(Metadata) /\ tab.fetch \in Seq(Blocks)
      /\ tab.wanted \in SUBSET Hashes /\ tab.requested \in SUBSET Blocks
      /\ tab.timers \in Timers
      /\ tab = [rmt |-> tab.rmt, fetch |-> tab.fetch, wanted |-> tab.wanted,
                requested |-> tab.requested, timers |-> tab.timers]
  BY DEF Tabs
<1>2. CASE ComesBack(n, h)
  BY <1>2 DEF Learn
<1>3. CASE ~ComesBack(n, h)
  <2>1. /\ e \in Metadata /\ h \in Hashes
        /\ table \in Tables(Metadata)
        /\ DOMAIN table = DOMAIN tab.rmt \cup {h}
        /\ Heard(m, table)
    BY <1>1, <1>3, HeardMore DEF ComesBack
  <2> HIDE DEF e, table
  <2>2. CASE h \in DOMAIN tab.rmt
    <3>1. q = [tab EXCEPT !.rmt = table]
      BY <1>3, <2>2 DEF Learn, table, e
    <3>2. q = [rmt |-> table, fetch |-> tab.fetch, wanted |-> tab.wanted,
               requested |-> tab.requested, timers |-> tab.timers]
      BY <3>1, <1>1
    <3>3. DOMAIN table = DOMAIN tab.rmt
      BY <2>1, <2>2
    <3>4. Fetches(q)
      BY <3>2, <3>3 DEF Fetches
    <3> QED BY <3>2, <3>4, <2>1, <1>1 DEF Tabs
  <2>3. CASE h \notin DOMAIN tab.rmt /\ h \notin interested[n]
    <3>1. q = [tab EXCEPT !.rmt = table, !.wanted = @ \ {h}]
      BY <1>3, <2>3 DEF Learn, table, e
    <3>2. q = [rmt |-> table, fetch |-> tab.fetch, wanted |-> tab.wanted \ {h},
               requested |-> tab.requested, timers |-> tab.timers]
      BY <3>1, <1>1
    <3>3. (tab.wanted \ {h}) \cap DOMAIN table \subseteq tab.wanted \cap DOMAIN tab.rmt
      BY <2>1
    <3>4. Fetches(q)
      BY <3>2, <3>3 DEF Fetches
    <3> QED BY <3>2, <3>4, <2>1, <1>1 DEF Tabs
  <2>4. CASE h \notin DOMAIN tab.rmt /\ h \in interested[n]
    <3> DEFINE asked  == (tab.requested \ BlocksOf(h)) \cup Known(Taken(queue), table)
               timers == Armed(tab.timers, Rearms(Popped(queue)))
               rest   == Popped(queue)
    <3>1. q = [rmt |-> table, fetch |-> rest, wanted |-> tab.wanted \cup {h},
               requested |-> asked, timers |-> timers]
      BY <1>3, <2>4 DEF Learn, table, e
    <3>2. /\ queue \in Seq(Blocks)
          /\ ToSet(queue) = ToSet(tab.fetch) \cup BlocksOf(h)
      BY <1>1, <2>1, BlocksQueued
    <3>3. /\ rest \in Seq(Blocks) /\ Taken(queue) \in Seq(Blocks)
          /\ ToSet(queue) = ToSet(Taken(queue)) \cup ToSet(rest)
          /\ Rearms(rest) \in 0..2
          /\ Rearms(rest) = 0 => ToSet(rest) = {}
      BY <3>2, QueueCut
    <3>4. /\ timers \in Timers
          /\ Rearms(rest) > 0 => timers.next > 0
      BY <1>1, <3>3, TimersArmed
    <3>5. asked \in SUBSET Blocks
      <4>1. ToSet(Taken(queue)) \subseteq Blocks
        BY <3>3 DEF ToSet
      <4> QED BY <4>1, <1>1 DEF Known
    <3>6. ASSUME NEW g \in (tab.wanted \cup {h}) \cap DOMAIN table, NEW b \in BlocksOf(g)
          PROVE  \/ b \in asked
                 \/ b \in ToSet(rest) /\ timers.now + timers.next > 0
      <4>1. b[1] = g /\ b[1] \in DOMAIN table
        BY DEF BlocksOf
      <4>2. CASE b \in ToSet(queue)
        <5>1. CASE b \in ToSet(Taken(queue))
          BY <5>1, <4>1 DEF Known
        <5>2. CASE b \in ToSet(rest)
          <6>1. Rearms(rest) > 0
            BY <5>2, <3>3
          <6>2. timers.next > 0 /\ timers.now \in Nat /\ timers.next \in Nat
            BY <6>1, <3>4 DEF Timers
          <6> HIDE DEF timers
          <6>3. timers.now + timers.next > 0
            BY <6>2
          <6> QED BY <6>3, <5>2
        <5> QED BY <5>1, <5>2, <4>2, <3>3
      <4>3. CASE b \notin ToSet(queue)
        <5>1. g # h
          BY <4>3, <3>2
        <5>2. g \in tab.wanted \cap DOMAIN tab.rmt
          BY <5>1, <2>1
        <5>3. b \in tab.requested
          BY <5>2, <4>3, <3>2 DEF Fetches
        <5>4. b \notin BlocksOf(h)
          BY <4>1, <5>1 DEF BlocksOf
        <5> QED BY <5>3, <5>4
      <4> QED BY <4>2, <4>3
    <3> HIDE DEF asked, timers, rest
    <3>7. Fetches(q)
      BY <3>1, <3>6 DEF Fetches
    <3>8. q \in Tabs
      BY <3>1, <3>3, <3>4, <3>5, <2>1, <1>1 DEF Tabs
    <3> QED BY <3>1, <3>7, <3>8, <2>1
  <2> QED BY <2>2, <2>3, <2>4
<1> QED BY <1>1, <1>2, <1>3

\* All items: the recursion of Learned stays in the set of the tables that have
\* heard and fetch.
LEMMA LearnedKeeps ==
  ASSUME TypeOK, EveryBlockFetched, NEW m \in net,
         NEW items \in SetToSeqs(DOMAIN m.metadata)
  PROVE  /\ Learned(m, items) \in Tabs
         /\ Heard(m, Learned(m, items).rmt)
         /\ Fetches(Learned(m, items))
<1> DEFINE P == {tab \in Tabs : Heard(m, tab.rmt) /\ Fetches(tab)}
           c == Cardinality(DOMAIN m.metadata)
           first == Before(m.to)
<1>1. c \in Nat /\ items \in [1..c -> DOMAIN m.metadata]
  <2>1. DOMAIN m.metadata \subseteq Hashes
    BY TableIs DEF TypeOK
  <2>2. IsFiniteSet(DOMAIN m.metadata)
    BY <2>1, FS_Subset, MetadataAssumption
  <2>3. c \in Nat
    BY <2>2, FS_CardinalityType
  <2>4. items \in [1..c -> DOMAIN m.metadata]
    BY DEF SetToSeqs
  <2> QED BY <2>3, <2>4
<1> HIDE DEF c
<1>2. PICK n \in Nat : n = Len(items) /\ \A k \in 1..n : items[k] \in DOMAIN m.metadata
  <2>1. Len(items) = c
    BY <1>1
  <2> QED BY <2>1, <1>1
<1>3. first \in P
  <2>1. m.to \in Nodes
    BY MetadataAssumption DEF TypeOK
  <2>2. first \in Tabs
    BY <2>1 DEF TypeOK, Before, Tabs
  <2>3. Heard(m, first.rmt)
    BY DEF Heard, Before
  <2>4. Fetches(first)
    BY <2>1 DEF Fetches, Before, EveryBlockFetched
  <2> QED BY <2>2, <2>3, <2>4
<1>4. \A tab \in P : \A h \in DOMAIN m.metadata : Learn(m.to, tab, h, m.metadata[h]) \in P
  BY LearnKeeps
<1> HIDE DEF P, first
<1> DEFINE Body(f) == [k \in 0..n |->
                         IF k = 0 THEN first
                         ELSE Learn(m.to, f[k - 1], items[k], m.metadata[items[k]])]
           step == [x \in (1..n) \X P |->
                      Learn(m.to, x[2], items[x[1]], m.metadata[items[x[1]]])]
           tab == CHOOSE f : f = Body(f)
<1>5. step \in [(1..n) \X P -> P]
  <2>1. ASSUME NEW x \in (1..n) \X P
        PROVE  Learn(m.to, x[2], items[x[1]], m.metadata[items[x[1]]]) \in P
    <3>1. items[x[1]] \in DOMAIN m.metadata /\ x[2] \in P
      BY <1>2
    <3> QED BY <3>1, <1>4
  <2> QED BY <2>1
<1>6. \A k \in 1..n : \A q \in P :
        step[<<k, q>>] = Learn(m.to, q, items[k], m.metadata[items[k]])
  OBVIOUS
<1> HIDE DEF step
<1>7. PICK f : IsRecursion(f, n, first, step)
  BY ONLY n \in Nat, <1>3, <1>5, RecursionExists
<1>8. /\ f = [k \in 0..n |-> IF k = 0 THEN first ELSE step[<<k, f[k - 1]>>]]
      /\ f[0] = first
      /\ \A k \in 1..n : f[k] = step[<<k, f[k - 1]>>]
  BY <1>7 DEF IsRecursion
<1>9. \A k \in 0..n : f[k] \in P
  <2> DEFINE K == {k \in 0..n : f[k] \in P}
  <2>1. 0 \in K
    BY <1>3, <1>8
  <2>2. ASSUME NEW k \in 1..n, k - 1 \in K PROVE k \in K
    <3>1. f[k - 1] \in P
      BY <2>2
    <3>2. step[<<k, f[k - 1]>>] \in P
      BY <3>1, <1>5
    <3> QED BY <3>2, <1>8
  <2>3. 0..n \subseteq K
    <3> HIDE DEF K
    <3> QED BY <2>1, <2>2, UpTo
  <2> QED BY <2>3
<1>10. f = Body(f)
  <2>1. ASSUME NEW k \in 0..n
        PROVE  (IF k = 0 THEN first ELSE step[<<k, f[k - 1]>>])
                 = IF k = 0 THEN first
                   ELSE Learn(m.to, f[k - 1], items[k], m.metadata[items[k]])
    <3>1. CASE k # 0
      <4>1. k \in 1..n /\ f[k - 1] \in P
        BY <3>1, <1>9
      <4> QED BY <4>1, <1>6, <3>1
    <3> QED BY <3>1
  <2> QED BY <2>1, <1>8, Zenon
<1>11. tab = Body(tab)
  <2> HIDE DEF Body
  <2> QED BY <1>10
<1>12. Learned(m, items) = tab[n]
  BY <1>2 DEF Learned, first
<1> HIDE DEF tab
<1>13. \A k \in 0..n : tab[k] = IF k = 0 THEN first
                                ELSE Learn(m.to, tab[k - 1], items[k], m.metadata[items[k]])
  BY <1>11, Zenon
<1> HIDE DEF Body
<1>14. \A k \in 0..n : tab[k] \in P
  <2> DEFINE K == {k \in 0..n : tab[k] \in P}
  <2>1. 0 \in K
    BY <1>3, <1>13
  <2>2. ASSUME NEW k \in 1..n, k - 1 \in K PROVE k \in K
    <3>1. tab[k - 1] \in P /\ items[k] \in DOMAIN m.metadata
      BY <2>2, <1>2
    <3>2. Learn(m.to, tab[k - 1], items[k], m.metadata[items[k]]) \in P
      BY <3>1, <1>4
    <3>3. tab[k] = Learn(m.to, tab[k - 1], items[k], m.metadata[items[k]])
      BY <1>13
    <3> QED BY <3>2, <3>3
  <2>3. 0..n \subseteq K
    <3> HIDE DEF K
    <3> QED BY <2>1, <2>2, UpTo
  <2> QED BY <2>3
<1>15. Learned(m, items) \in P
  BY <1>12, <1>14
<1> QED BY <1>15 DEF P

-----------------------------------------------------------------------------
(* What a step does to the tables and to the air.  There are three kinds of   *)
(* steps, and the properties of remote metadata follow from them.             *)

TablesTyped ==
  /\ lmt \in Tables(Local)
  /\ rmt \in [Nodes -> Tables(Metadata)]
  /\ \A m \in net : /\ m.from \in Nodes /\ m.to \in Reach[m.from]
                    /\ m.metadata \in Tables(Metadata)

\* Node n may drop what has expired, and nothing else.
Forgets(n) ==
  /\ DOMAIN rmt'[n] \subseteq DOMAIN rmt[n]
  /\ Live(n) \subseteq DOMAIN rmt'[n]
  /\ \A h \in DOMAIN rmt'[n] : rmt'[n][h] = rmt[n][h]

\* A new announcement: own content, or what somebody knows and has not expired.
SentNow(m) ==
  \A h \in DOMAIN m.metadata :
    \/ h \in DOMAIN lmt' /\ m.metadata[h].left = lmt'[h].left /\ m.metadata[h].hops = 0
    \/ \E n \in Nodes : h \in Live(n) /\ m.metadata[h] = rmt[n][h]

Announces ==
  /\ \A h \in DOMAIN lmt : h \in DOMAIN lmt' /\ lmt'[h].left = lmt[h].left
  /\ \A n \in Nodes : Forgets(n)
  /\ \A m \in net' : m \in net \/ SentNow(m)

\* The receiver of m learns, the others do not.
Hears(m) ==
  /\ UNCHANGED lmt
  /\ \A n \in Nodes : n # m.to => rmt'[n] = rmt[n]
  /\ Heard(m, rmt'[m.to])
  /\ net' \subseteq net

\* Everything is a tick older, and the air is empty.
Ages ==
  /\ DOMAIN lmt' = DOMAIN lmt
  /\ \A h \in DOMAIN lmt : lmt'[h].left = Sooner(lmt[h].left)
  /\ \A n \in Nodes : /\ DOMAIN rmt'[n] = DOMAIN rmt[n]
                      /\ \A h \in DOMAIN rmt[n] :
                           /\ rmt'[n][h].left = Sooner(rmt[n][h].left)
                           /\ rmt'[n][h].hops = rmt[n][h].hops
  /\ net' = {}

TablesStep == TablesTyped' /\ (Announces \/ (\E m \in net : Hears(m)) \/ Ages)

LEMMA LocalFields ==
  ASSUME NEW l \in Local
  PROVE  /\ Announced(l) \in Local
         /\ Announced(l).left = l.left
<1>1. /\ l.left \in 0..TTL /\ l.since \in 0..MaxDelay /\ l.wait \in 0..MaxDelay
      /\ l = [left |-> l.left, since |-> l.since, wait |-> l.wait]
      /\ MaxDelay \in Nat \ {0}
  BY MetadataAssumption DEF Local
<1> DEFINE w == Max({1, l.since})
<1>2. w = IF 1 >= l.since THEN 1 ELSE l.since
  BY <1>1, MaxOfTwo
<1>3. w \in 0..MaxDelay
  BY <1>1, <1>2
<1>4. Announced(l) = [l EXCEPT !.wait = w]
  BY DEF Announced
<1> HIDE DEF w
<1>5. Announced(l) = [left |-> l.left, since |-> l.since, wait |-> w]
  BY <1>1, <1>4
<1> QED BY <1>1, <1>3, <1>5 DEF Local

\* The messages of an announcement of node n.
LEMMA AnnouncementIs ==
  ASSUME TypeOK, NEW local \in Tables(Local), NEW n \in Nodes,
         NEW hs \in SUBSET (Own(local, n) \cup DOMAIN rmt[n]),
         NEW m \in Announcement(local, n, hs)
  PROVE  /\ m.from \in Nodes /\ m.to \in Reach[m.from]
         /\ m.metadata \in Tables(Metadata)
         /\ DOMAIN m.metadata = hs
         /\ \A h \in hs :
              IF h \in Own(local, n)
              THEN m.metadata[h].left = local[h].left /\ m.metadata[h].hops = 0
              ELSE m.metadata[h] = rmt[n][h]
<1> DEFINE Sent(h) == IF h \in Own(local, n) THEN [left |-> local[h].left, hops |-> 0]
                                             ELSE rmt[n][h]
           t == [h \in hs |-> Sent(h)]
<1>1. PICK r \in Reach[n] : m = [from |-> n, to |-> r, metadata |-> t]
  BY DEF Announcement
<1>2. /\ DOMAIN local \subseteq Hashes /\ local \in [DOMAIN local -> Local]
      /\ DOMAIN rmt[n] \subseteq Hashes /\ rmt[n] \in [DOMAIN rmt[n] -> Metadata]
  BY TableIs DEF TypeOK
<1>3. \A h \in hs : Sent(h) \in Metadata /\ h \in Hashes
  <2>1. 0 \in 0..HopRange - 1
    BY MetadataAssumption
  <2> QED BY <1>2, <2>1 DEF Own, Local, Metadata
<1>4. \A h \in hs : h \in Own(local, n) => Sent(h).left = local[h].left /\ Sent(h).hops = 0
  OBVIOUS
<1>5. \A h \in hs : h \notin Own(local, n) => Sent(h) = rmt[n][h]
  OBVIOUS
<1> HIDE DEF Sent
<1>6. DOMAIN t = hs /\ \A h \in hs : t[h] = Sent(h)
  OBVIOUS
<1>7. t \in [DOMAIN t -> Metadata] /\ DOMAIN t \subseteq Hashes
  BY <1>3
<1> HIDE DEF t
<1>8. t \in Tables(Metadata)
  BY <1>7, TableIs
<1>9. m.from = n /\ m.to = r /\ m.metadata = t
  BY <1>1
<1> QED BY <1>4, <1>5, <1>6, <1>8, <1>9

\* Announcing from the local metadata in local.
LEMMA AnnouncingEffect ==
  ASSUME TypeOK, NEW local \in Tables(Local), NEW n \in Nodes,
         DOMAIN lmt \subseteq DOMAIN local,
         \A h \in DOMAIN lmt : local[h].left = lmt[h].left,
         lmt' = [h \in DOMAIN local |->
                   IF h \in Resting(local, n) THEN Announced(local[h]) ELSE local[h]],
         rmt' = [rmt EXCEPT ![n] = Restrict(@, Live(n))],
         net' \subseteq net \cup Announcement(local, n, Resting(local, n) \cup Relayed(n))
                            \cup Announcement(local, n, Relayed(n))
  PROVE  TablesTyped' /\ Announces
<1>1. /\ DOMAIN local \subseteq Hashes /\ local \in [DOMAIN local -> Local]
      /\ rmt \in [Nodes -> Tables(Metadata)]
  BY TableIs DEF TypeOK
<1>2. ASSUME NEW h \in DOMAIN local
      PROVE  lmt'[h] \in Local /\ lmt'[h].left = local[h].left
  BY <1>1, LocalFields
<1>3. lmt' \in Tables(Local)
  <2>1. DOMAIN lmt' \subseteq Hashes /\ lmt' \in [DOMAIN lmt' -> Local]
    <3>1. DOMAIN lmt' = DOMAIN local /\ lmt' = [h \in DOMAIN lmt' |-> lmt'[h]]
      OBVIOUS
    <3> QED BY <3>1, <1>1, <1>2
  <2>2. \A t : DOMAIN t \subseteq Hashes /\ t \in [DOMAIN t -> Local] => t \in Tables(Local)
    BY TableIs
  <2> QED BY <2>1, <2>2
<1> DEFINE t == Restrict(rmt[n], Live(n))
<1>4. /\ t \in Tables(Metadata)
      /\ DOMAIN t = Live(n)
      /\ \A h \in Live(n) : t[h] = rmt[n][h]
  <2>1. Live(n) \in SUBSET (DOMAIN rmt[n])
    BY DEF Live
  <2>2. rmt[n] \in Tables(Metadata)
    BY <1>1
  <2> QED BY ONLY <2>1, <2>2, TableRestricted
<1>5. rmt' = [rmt EXCEPT ![n] = t]
  OBVIOUS
<1> HIDE DEF t
<1>6. rmt' \in [Nodes -> Tables(Metadata)]
  BY <1>1, <1>4, <1>5
<1>7. ASSUME NEW k \in Nodes PROVE Forgets(k)
  <2>1. Live(k) \subseteq DOMAIN rmt[k]
    BY DEF Live
  <2>2. CASE k = n
    <3>1. rmt'[k] = t
      BY <1>1, <1>5, <2>2
    <3> QED BY <3>1, <2>1, <2>2, <1>4 DEF Forgets
  <2>3. CASE k # n
    <3>1. rmt'[k] = rmt[k]
      BY <1>1, <1>5, <2>3
    <3> QED BY <3>1, <2>1 DEF Forgets
  <2> QED BY <2>2, <2>3
<1>8. ASSUME NEW m \in net', m \notin net
      PROVE  /\ m.from \in Nodes /\ m.to \in Reach[m.from]
             /\ m.metadata \in Tables(Metadata)
             /\ SentNow(m)
  <2>1. PICK hs \in {Resting(local, n) \cup Relayed(n), Relayed(n)} :
               m \in Announcement(local, n, hs)
    BY <1>8
  <2>2. hs \in SUBSET (Own(local, n) \cup Live(n))
    BY DEF Resting, Relayed
  <2>3. Live(n) \subseteq DOMAIN rmt[n]
    BY DEF Live
  <2>4. /\ m.from \in Nodes /\ m.to \in Reach[m.from]
        /\ m.metadata \in Tables(Metadata)
        /\ DOMAIN m.metadata = hs
        /\ \A h \in hs :
             IF h \in Own(local, n)
             THEN m.metadata[h].left = local[h].left /\ m.metadata[h].hops = 0
             ELSE m.metadata[h] = rmt[n][h]
    <3>1. hs \in SUBSET (Own(local, n) \cup DOMAIN rmt[n])
      BY <2>2, <2>3
    <3> QED BY <3>1, <2>1, AnnouncementIs
  <2>5. ASSUME NEW h \in hs
        PROVE  \/ h \in DOMAIN lmt' /\ m.metadata[h].left = lmt'[h].left /\ m.metadata[h].hops = 0
               \/ \E k \in Nodes : h \in Live(k) /\ m.metadata[h] = rmt[k][h]
    <3>1. CASE h \in Own(local, n)
      <4>1. h \in DOMAIN local
        BY <3>1 DEF Own
      <4> QED BY <4>1, <3>1, <2>4, <1>2
    <3>2. CASE h \notin Own(local, n)
      BY <3>2, <2>2, <2>4
    <3> QED BY <3>1, <3>2
  <2> QED BY <2>4, <2>5 DEF SentNow
<1>9. \A h \in DOMAIN lmt : h \in DOMAIN lmt' /\ lmt'[h].left = lmt[h].left
  BY <1>2
<1>10. TablesTyped'
  <2>1. \A m \in net' : /\ m.from \in Nodes /\ m.to \in Reach[m.from]
                        /\ m.metadata \in Tables(Metadata)
    BY <1>8 DEF TypeOK
  <2> QED BY <2>1, <1>3, <1>6 DEF TablesTyped
<1> QED BY <1>7, <1>8, <1>9, <1>10 DEF Announces

\* One call of announce_metadata().
LEMMA AnnounceMetadataEffect ==
  ASSUME TypeOK, NEW local \in Tables(Local), NEW n \in Nodes, NEW timers \in Timers,
         DOMAIN lmt \subseteq DOMAIN local,
         \A h \in DOMAIN lmt : local[h].left = lmt[h].left,
         AnnounceMetadata(local, n, timers)
  PROVE  TablesTyped' /\ Announces /\ announcing' \in [Nodes -> Timers]
<1>1. CASE Silent(local, n)
  <2>1. /\ lmt' = local /\ rmt' = rmt /\ net' = net
        /\ announcing' = [announcing EXCEPT ![n] = timers]
    BY <1>1 DEF AnnounceMetadata
  <2>2. TablesTyped'
    BY <2>1 DEF TablesTyped, TypeOK
  <2>3. Announces
    BY <2>1 DEF Announces, Forgets, Live
  <2> QED BY <2>1, <2>2, <2>3 DEF TypeOK
<1>2. CASE ~Silent(local, n)
  <2>1. /\ lmt' = [h \in DOMAIN local |->
                     IF h \in Resting(local, n) THEN Announced(local[h]) ELSE local[h]]
        /\ rmt' = [rmt EXCEPT ![n] = Restrict(@, Live(n))]
        /\ announcing' = [announcing EXCEPT ![n] = Armed(timers, 1)]
        /\ net' = net \cup Announcement(local, n, Resting(local, n) \cup Relayed(n))
    BY <1>2 DEF AnnounceMetadata
  <2>2. TablesTyped' /\ Announces
    BY <2>1, AnnouncingEffect
  <2>3. Armed(timers, 1) \in Timers
    BY TimersArmed
  <2> QED BY <2>1, <2>2, <2>3 DEF TypeOK
<1> QED BY <1>1, <1>2

LEMMA ScheduleEffect ==
  ASSUME TypeOK, NEW n \in Nodes, Schedule(n)
  PROVE  TablesTyped' /\ Announces /\ announcing' \in [Nodes -> Timers]
<1>1. CASE Silent(lmt, n)
  <2>1. UNCHANGED <<lmt, rmt, announcing, net>>
    BY <1>1 DEF Schedule
  <2> QED BY <2>1 DEF TablesTyped, TypeOK, Announces, Forgets, Live
<1>2. CASE ~Silent(lmt, n)
  <2> DEFINE c == IF Own(lmt, n) # {} \/ Live(n) # {} THEN 2 ELSE 1
  <2>1. /\ lmt' = [h \in DOMAIN lmt |->
                     IF h \in Resting(lmt, n) THEN Announced(lmt[h]) ELSE lmt[h]]
        /\ rmt' = [rmt EXCEPT ![n] = Restrict(@, Live(n))]
        /\ net' = net \cup Announcement(lmt, n, Resting(lmt, n) \cup Relayed(n))
                      \cup Announcement(lmt, n, Relayed(n))
    BY <1>2 DEF Schedule
  <2>2. announcing' = [announcing EXCEPT ![n] = Armed(@, c)]
    BY <1>2 DEF Schedule
  <2>3. TablesTyped' /\ Announces
    <3>1. lmt \in Tables(Local) /\ DOMAIN lmt \subseteq DOMAIN lmt
      BY DEF TypeOK
    <3> QED BY <3>1, <2>1, AnnouncingEffect
  <2>4. announcing[n] \in Timers /\ c \in 0..2
    BY DEF TypeOK
  <2>5. Armed(announcing[n], c) \in Timers
    <3> HIDE DEF c
    <3> QED BY <2>4, TimersArmed
  <2> QED BY <2>2, <2>3, <2>5 DEF TypeOK
<1> QED BY <1>1, <1>2

\* create_new(): one more content.
LEMMA PublishEffect ==
  ASSUME TypeOK, NEW h \in Hashes, Publish(h)
  PROVE  TablesTyped' /\ Announces /\ announcing' \in [Nodes -> Timers]
<1> DEFINE n     == Publisher[h]
           l     == [left |-> TTL, since |-> 0, wait |-> 0]
           local == Added(lmt, h, l)
<1>1. n \in Nodes /\ announcing[n] \in Timers /\ h \notin DOMAIN lmt
  BY MetadataAssumption DEF TypeOK, Publish
<1>2. l \in Local
  BY MetadataAssumption DEF Local
<1>3. AnnounceMetadata(local, n, announcing[n])
  BY DEF Publish
<1> HIDE DEF l, local, n
<1>4. /\ local \in Tables(Local)
      /\ DOMAIN local = DOMAIN lmt \cup {h}
      /\ \A g \in DOMAIN lmt : g # h => local[g] = lmt[g]
  <2>1. lmt \in Tables(Local) /\ h \in Hashes
    BY <1>1 DEF TypeOK
  <2>2. IsAdded(local, lmt, h, l, Local)
    BY <1>2, <2>1, TableAdded DEF local
  <2> QED BY <2>2 DEF IsAdded
<1>5. DOMAIN lmt \subseteq DOMAIN local /\ \A g \in DOMAIN lmt : local[g].left = lmt[g].left
  BY <1>1, <1>4
<1> QED BY <1>1, <1>3, <1>4, <1>5, AnnounceMetadataEffect

\* receive(ContentAnn)
LEMMA ReceiveEffect ==
  ASSUME TypeOK, EveryBlockFetched, NEW m \in net, Receive(m)
  PROVE  /\ TablesTyped' /\ Hears(m)
         /\ fetch' \in [Nodes -> Seq(Blocks)] /\ wanted' \in [Nodes -> SUBSET Hashes]
         /\ requested' \in [Nodes -> SUBSET Blocks] /\ fetching' \in [Nodes -> Timers]
         /\ EveryBlockFetched'
<1>1. PICK items \in SetToSeqs(DOMAIN m.metadata) :
        /\ net' = net \ {m}
        /\ rmt' = [rmt EXCEPT ![m.to] = Learned(m, items).rmt]
        /\ fetch' = [fetch EXCEPT ![m.to] = Learned(m, items).fetch]
        /\ wanted' = [wanted EXCEPT ![m.to] = Learned(m, items).wanted]
        /\ requested' = [requested EXCEPT ![m.to] = Learned(m, items).requested]
        /\ fetching' = [fetching EXCEPT ![m.to] = Learned(m, items).timers]
        /\ UNCHANGED lmt
  BY DEF Receive
<1> DEFINE new == Learned(m, items)
           n   == m.to
<1>2. new \in Tabs /\ Heard(m, new.rmt) /\ Fetches(new)
  BY LearnedKeeps
<1> HIDE DEF new
<1>3. n \in Nodes
  BY MetadataAssumption DEF TypeOK
<1>4. /\ new.rmt \in Tables(Metadata) /\ new.fetch \in Seq(Blocks)
      /\ new.wanted \in SUBSET Hashes /\ new.requested \in SUBSET Blocks
      /\ new.timers \in Timers
  BY <1>2 DEF Tabs
<1>5. /\ rmt \in [Nodes -> Tables(Metadata)] /\ fetch \in [Nodes -> Seq(Blocks)]
      /\ wanted \in [Nodes -> SUBSET Hashes] /\ requested \in [Nodes -> SUBSET Blocks]
      /\ fetching \in [Nodes -> Timers]
  BY DEF TypeOK
<1>6. /\ rmt' = [rmt EXCEPT ![n] = new.rmt]
      /\ fetch' = [fetch EXCEPT ![n] = new.fetch]
      /\ wanted' = [wanted EXCEPT ![n] = new.wanted]
      /\ requested' = [requested EXCEPT ![n] = new.requested]
      /\ fetching' = [fetching EXCEPT ![n] = new.timers]
  BY <1>1 DEF new
<1> HIDE DEF n
<1>7. /\ rmt' \in [Nodes -> Tables(Metadata)] /\ fetch' \in [Nodes -> Seq(Blocks)]
      /\ wanted' \in [Nodes -> SUBSET Hashes] /\ requested' \in [Nodes -> SUBSET Blocks]
      /\ fetching' \in [Nodes -> Timers]
  BY ONLY <1>3, <1>4, <1>5, <1>6
<1>8. /\ rmt'[n] = new.rmt /\ fetch'[n] = new.fetch /\ wanted'[n] = new.wanted
      /\ requested'[n] = new.requested /\ fetching'[n] = new.timers
  BY ONLY <1>3, <1>5, <1>6
<1>9. ASSUME NEW k \in Nodes, k # n
      PROVE  /\ rmt'[k] = rmt[k] /\ fetch'[k] = fetch[k] /\ wanted'[k] = wanted[k]
             /\ requested'[k] = requested[k] /\ fetching'[k] = fetching[k]
  BY ONLY <1>5, <1>6, <1>9
<1>10. TablesTyped'
  BY <1>1, <1>7 DEF TablesTyped, TypeOK
<1>11. Hears(m)
  BY <1>1, <1>2, <1>8, <1>9 DEF Hears, n
<1>12. EveryBlockFetched'
  <2> SUFFICES ASSUME NEW k \in Nodes, NEW h \in wanted'[k] \cap DOMAIN rmt'[k],
                      NEW b \in BlocksOf(h)
               PROVE  \/ b \in requested'[k]
                      \/ b \in ToSet(fetch'[k]) /\ fetching'[k].now + fetching'[k].next > 0
    BY DEF EveryBlockFetched
  <2>1. CASE k = n
    BY <2>1, <1>2, <1>8 DEF Fetches
  <2>2. CASE k # n
    BY <2>2, <1>9 DEF EveryBlockFetched
  <2> QED BY <2>1, <2>2
<1> QED BY <1>7, <1>10, <1>11, <1>12

\* A tick ages every table alike.
LEMMA TickEffect ==
  ASSUME TypeOK, Tick
  PROVE  /\ TablesTyped' /\ Ages
         /\ announcing' \in [Nodes -> Timers] /\ fetching' \in [Nodes -> Timers]
         /\ \A n \in Nodes : fetching'[n].now + fetching'[n].next
                               = fetching[n].now + fetching[n].next
<1>1. ASSUME NEW d \in Nat PROVE Sooner(d) = IF d = 0 THEN 0 ELSE d - 1
  <2>1. Max({d - 1, 0}) = IF d - 1 >= 0 THEN d - 1 ELSE 0
    BY MaxOfTwo
  <2> QED BY <2>1 DEF Sooner
<1>2. ASSUME NEW M \in Nat, NEW d \in 0..M PROVE Sooner(d) \in 0..M
  BY <1>1
<1>3. ASSUME NEW M \in Nat, NEW d \in 0..M PROVE Min({d + 1, M}) \in 0..M
  <2>1. Min({d + 1, M}) = IF d + 1 <= M THEN d + 1 ELSE M
    BY MinOfTwo
  <2> QED BY <2>1
<1>4. TTL \in Nat /\ MaxDelay \in Nat /\ MaxTimers \in Nat
  BY MetadataAssumption
<1>5. lmt' \in Tables(Local)
  <2>1. DOMAIN lmt \subseteq Hashes /\ lmt \in [DOMAIN lmt -> Local]
    BY TableIs DEF TypeOK
  <2>2. ASSUME NEW l \in Local
        PROVE  [left |-> Sooner(l.left), since |-> Min({l.since + 1, MaxDelay}),
                wait |-> Sooner(l.wait)] \in Local
    <3>1. l.left \in 0..TTL /\ l.since \in 0..MaxDelay /\ l.wait \in 0..MaxDelay
      BY DEF Local
    <3> QED BY <3>1, <1>2, <1>3, <1>4 DEF Local
  <2>3. lmt' = [h \in DOMAIN lmt |-> [left  |-> Sooner(lmt[h].left),
                                      since |-> Min({lmt[h].since + 1, MaxDelay}),
                                      wait  |-> Sooner(lmt[h].wait)]]
    BY DEF Tick
  <2>4. lmt' \in [DOMAIN lmt' -> Local] /\ DOMAIN lmt' \subseteq Hashes
    BY <2>1, <2>2, <2>3
  <2>5. \A t : DOMAIN t \subseteq Hashes /\ t \in [DOMAIN t -> Local] => t \in Tables(Local)
    BY TableIs
  <2> QED BY <2>4, <2>5
<1>6. ASSUME NEW e \in Metadata
      PROVE  /\ [e EXCEPT !.left = Sooner(@)] \in Metadata
             /\ [e EXCEPT !.left = Sooner(@)].left = Sooner(e.left)
             /\ [e EXCEPT !.left = Sooner(@)].hops = e.hops
  BY <1>2, <1>4 DEF Metadata
<1> DEFINE Older(t) == [h \in DOMAIN t |-> [t[h] EXCEPT !.left = Sooner(@)]]
<1>7. ASSUME NEW t \in Tables(Metadata)
      PROVE  /\ Older(t) \in Tables(Metadata)
             /\ DOMAIN Older(t) = DOMAIN t
             /\ \A h \in DOMAIN t : /\ Older(t)[h].left = Sooner(t[h].left)
                                    /\ Older(t)[h].hops = t[h].hops
  <2>1. DOMAIN t \subseteq Hashes /\ t \in [DOMAIN t -> Metadata]
    BY TableIs
  <2> DEFINE q == Older(t)
  <2>2. /\ DOMAIN q = DOMAIN t
        /\ q \in [DOMAIN t -> Metadata]
        /\ \A h \in DOMAIN t : q[h].left = Sooner(t[h].left) /\ q[h].hops = t[h].hops
    BY <2>1, <1>6
  <2> HIDE DEF q
  <2>3. q \in Tables(Metadata)
    BY <2>1, <2>2, TableIs
  <2> QED BY <2>2, <2>3 DEF q
<1>8. rmt' = [n \in Nodes |-> Older(rmt[n])]
  BY DEF Tick
<1> HIDE DEF Older
<1>9. \A n \in Nodes : rmt[n] \in Tables(Metadata)
  BY DEF TypeOK
<1>10. rmt' \in [Nodes -> Tables(Metadata)]
  BY <1>7, <1>8, <1>9
<1>11. net' = {} /\ net = {}
  BY DEF Tick
<1>12. TablesTyped'
  BY <1>5, <1>10, <1>11 DEF TablesTyped
<1>13. Ages
  <2>1. DOMAIN lmt' = DOMAIN lmt /\ \A h \in DOMAIN lmt : lmt'[h].left = Sooner(lmt[h].left)
    BY DEF Tick
  <2>2. \A n \in Nodes : rmt'[n] = Older(rmt[n])
    BY <1>8
  <2> QED BY <2>1, <2>2, <1>7, <1>9, <1>11 DEF Ages
<1>14. /\ announcing' = [n \in Nodes |-> NextTick(announcing[n])]
       /\ fetching' = [n \in Nodes |-> NextTick(fetching[n])]
       /\ \A n \in Nodes : fetching[n].now = 0
  BY DEF Tick
<1>15. ASSUME NEW timers \in Timers
       PROVE  /\ NextTick(timers) \in Timers
              /\ timers.now = 0 => NextTick(timers).now + NextTick(timers).next
                                     = timers.now + timers.next
  BY <1>4 DEF Timers, NextTick
<1>16. \A n \in Nodes : announcing[n] \in Timers /\ fetching[n] \in Timers
  BY DEF TypeOK
<1>17. announcing' \in [Nodes -> Timers] /\ fetching' \in [Nodes -> Timers]
  BY <1>14, <1>15, <1>16
<1>18. \A n \in Nodes : fetching'[n] = NextTick(fetching[n])
  BY <1>14
<1>19. \A n \in Nodes : fetching'[n].now + fetching'[n].next
                          = fetching[n].now + fetching[n].next
  BY <1>14, <1>15, <1>16, <1>18
<1> QED BY <1>12, <1>13, <1>17, <1>19

\* metadata() of one node.
LEMMA ReadMetadataEffect ==
  ASSUME TypeOK, NEW n \in Nodes, ReadMetadata(n)
  PROVE  TablesTyped' /\ Announces
<1> DEFINE t == Restrict(rmt[n], Live(n))
<1>1. /\ t \in Tables(Metadata)
      /\ DOMAIN t = Live(n)
      /\ \A h \in Live(n) : t[h] = rmt[n][h]
  <2>1. Live(n) \in SUBSET (DOMAIN rmt[n])
    BY DEF Live
  <2>2. rmt[n] \in Tables(Metadata)
    BY DEF TypeOK
  <2> QED BY ONLY <2>1, <2>2, TableRestricted
<1>2. rmt' = [rmt EXCEPT ![n] = t] /\ lmt' = lmt /\ net' = net
  BY DEF ReadMetadata
<1> HIDE DEF t
<1>3. rmt \in [Nodes -> Tables(Metadata)]
  BY DEF TypeOK
<1>4. TablesTyped'
  BY <1>1, <1>2, <1>3 DEF TablesTyped, TypeOK
<1>5. ASSUME NEW k \in Nodes PROVE Forgets(k)
  <2>1. Live(k) \subseteq DOMAIN rmt[k]
    BY DEF Live
  <2>2. rmt'[k] = IF k = n THEN t ELSE rmt[k]
    BY <1>2, <1>3
  <2> QED BY <2>1, <2>2, <1>1 DEF Forgets
<1> QED BY <1>2, <1>4, <1>5 DEF Announces

\* A batch is fetched: what leaves the queue is requested if it is still known, and
\* whatever stays has a timer.
LEMMA FetchTimerEffect ==
  ASSUME TypeOK, EveryBlockFetched, NEW n \in Nodes, FetchTimer(n)
  PROVE  /\ fetch' \in [Nodes -> Seq(Blocks)]
         /\ requested' \in [Nodes -> SUBSET Blocks]
         /\ fetching' \in [Nodes -> Timers]
         /\ EveryBlockFetched'
<1> DEFINE q      == fetch[n]
           rest   == Popped(q)
           now    == Known(Taken(q), rmt[n])
           timers == Armed(Fired(fetching[n]), Rearms(rest))
<1>1. /\ fetch' = [fetch EXCEPT ![n] = rest]
      /\ requested' = [requested EXCEPT ![n] = @ \cup now]
      /\ fetching' = [fetching EXCEPT ![n] = timers]
      /\ wanted' = wanted /\ rmt' = rmt /\ fetching[n].now > 0
  BY DEF FetchTimer
<1>2. /\ q \in Seq(Blocks) /\ fetching[n] \in Timers /\ requested[n] \in SUBSET Blocks
      /\ fetch \in [Nodes -> Seq(Blocks)] /\ requested \in [Nodes -> SUBSET Blocks]
      /\ fetching \in [Nodes -> Timers]
  BY DEF TypeOK
<1>3. /\ rest \in Seq(Blocks) /\ Taken(q) \in Seq(Blocks)
      /\ ToSet(q) = ToSet(Taken(q)) \cup ToSet(rest)
      /\ Rearms(rest) \in 0..2
      /\ Rearms(rest) = 0 => ToSet(rest) = {}
  BY <1>2, QueueCut
<1>4. timers \in Timers /\ (Rearms(rest) > 0 => timers.next > 0)
  <2>1. Fired(fetching[n]) \in Timers
    BY <1>1, <1>2, TimersFired
  <2> QED BY <2>1, <1>3, TimersArmed
<1>5. now \in SUBSET Blocks
  <2>1. ToSet(Taken(q)) \subseteq Blocks
    BY <1>3 DEF ToSet
  <2> QED BY <2>1 DEF Known
<1>6. \A b \in ToSet(Taken(q)) : b[1] \in DOMAIN rmt[n] => b \in now
  BY DEF Known
<1>7. ToSet(rest) # {} => timers.now + timers.next > 0
  <2>1. timers.now \in Nat /\ timers.next \in Nat
    BY <1>4 DEF Timers
  <2> HIDE DEF timers, rest
  <2> QED BY <2>1, <1>3, <1>4
<1> HIDE DEF q, rest, now, timers
<1>8. /\ fetch' \in [Nodes -> Seq(Blocks)]
      /\ requested' \in [Nodes -> SUBSET Blocks]
      /\ fetching' \in [Nodes -> Timers]
  BY <1>1, <1>2, <1>3, <1>4, <1>5
<1>9. EveryBlockFetched'
  <2> SUFFICES ASSUME NEW k \in Nodes, NEW h \in wanted[k] \cap DOMAIN rmt[k],
                      NEW b \in BlocksOf(h)
               PROVE  \/ b \in requested'[k]
                      \/ b \in ToSet(fetch'[k]) /\ fetching'[k].now + fetching'[k].next > 0
    BY <1>1 DEF EveryBlockFetched
  <2>1. CASE k # n
    <3>1. fetch'[k] = fetch[k] /\ requested'[k] = requested[k] /\ fetching'[k] = fetching[k]
      BY <2>1, <1>1, <1>2
    <3> QED BY <3>1 DEF EveryBlockFetched
  <2>2. CASE k = n
    <3>1. fetch'[k] = rest /\ requested'[k] = requested[k] \cup now /\ fetching'[k] = timers
      BY <2>2, <1>1, <1>2
    <3>2. b \in requested[k] \/ b \in ToSet(q)
      BY <2>2 DEF EveryBlockFetched, q
    <3>3. b[1] \in DOMAIN rmt[k]
      BY DEF BlocksOf
    <3>4. CASE b \in requested[k]
      BY <3>1, <3>4
    <3>5. CASE b \in ToSet(Taken(q))
      BY <3>1, <3>3, <3>5, <1>6, <2>2
    <3>6. CASE b \in ToSet(rest)
      BY <3>1, <3>6, <1>7
    <3> QED BY <3>2, <3>4, <3>5, <3>6, <1>3
  <2> QED BY <2>1, <2>2
<1> QED BY <1>8, <1>9

\* Every step, in terms of the tables and of what is to be fetched.
LEMMA NextEffect ==
  ASSUME TypeOK, EveryBlockFetched, [Next]_vars
  PROVE  TypeOK' /\ TablesStep /\ EveryBlockFetched'
<1> DEFINE Effect == TypeOK' /\ TablesStep /\ EveryBlockFetched'
<1>1. ASSUME lmt' = lmt, rmt' = rmt, net' \subseteq net
      PROVE  TablesTyped' /\ Announces
  BY <1>1 DEF TablesTyped, TypeOK, Announces, Forgets, Live
<1>2. ASSUME TablesTyped', Announces, announcing' \in [Nodes -> Timers],
             scheduled' \subseteq Nodes,
             UNCHANGED <<interested, fetching, fetch, wanted, requested, changes>>
      PROVE  Effect
  <2>1. TypeOK'
    BY <1>2 DEF TypeOK, TablesTyped
  <2>2. EveryBlockFetched'
    <3>1. \A n \in Nodes : DOMAIN rmt'[n] \subseteq DOMAIN rmt[n]
      BY <1>2 DEF Announces, Forgets
    <3> QED BY <3>1, <1>2 DEF EveryBlockFetched
  <2> QED BY <2>1, <2>2, <1>2 DEF TablesStep
<1>3. ASSUME UNCHANGED vars PROVE Effect
  <2>1. TablesTyped' /\ Announces
    BY <1>1, <1>3 DEF vars
  <2>2. /\ announcing' \in [Nodes -> Timers] /\ scheduled' \subseteq Nodes
        /\ UNCHANGED <<interested, fetching, fetch, wanted, requested, changes>>
    BY <1>3 DEF vars, TypeOK
  <2> QED BY <2>1, <2>2, <1>2
<1>4. ASSUME NEW h \in Hashes, Publish(h) PROVE Effect
  <2>1. TablesTyped' /\ Announces /\ announcing' \in [Nodes -> Timers]
    BY <1>4, PublishEffect
  <2>2. /\ scheduled' \subseteq Nodes
        /\ UNCHANGED <<interested, fetching, fetch, wanted, requested, changes>>
    BY <1>4 DEF Publish, TypeOK
  <2> QED BY <2>1, <2>2, <1>2
<1>5. ASSUME NEW n \in Nodes, AnnounceTimer(n) PROVE Effect
  <2>1. announcing[n] \in Timers /\ announcing[n].now > 0 /\ lmt \in Tables(Local)
    BY <1>5 DEF TypeOK, AnnounceTimer
  <2>2. Fired(announcing[n]) \in Timers
    BY <2>1, TimersFired
  <2>3. AnnounceMetadata(lmt, n, Fired(announcing[n]))
    BY <1>5 DEF AnnounceTimer
  <2>4. TablesTyped' /\ Announces /\ announcing' \in [Nodes -> Timers]
    BY <2>1, <2>2, <2>3, AnnounceMetadataEffect
  <2>5. /\ scheduled' \subseteq Nodes
        /\ UNCHANGED <<interested, fetching, fetch, wanted, requested, changes>>
    BY <1>5 DEF AnnounceTimer, TypeOK
  <2> QED BY <2>4, <2>5, <1>2
<1>6. ASSUME NEW n \in Nodes, Schedule(n) PROVE Effect
  <2>1. TablesTyped' /\ Announces /\ announcing' \in [Nodes -> Timers]
    BY <1>6, ScheduleEffect
  <2>2. /\ scheduled' \subseteq Nodes
        /\ UNCHANGED <<interested, fetching, fetch, wanted, requested, changes>>
    BY <1>6 DEF Schedule, TypeOK
  <2> QED BY <2>1, <2>2, <1>2
<1>7. ASSUME NEW n \in Nodes, ReadMetadata(n) PROVE Effect
  <2>1. TablesTyped' /\ Announces
    BY <1>7, ReadMetadataEffect
  <2>2. /\ announcing' \in [Nodes -> Timers] /\ scheduled' \subseteq Nodes
        /\ UNCHANGED <<interested, fetching, fetch, wanted, requested, changes>>
    BY <1>7 DEF ReadMetadata, TypeOK
  <2> QED BY <2>1, <2>2, <1>2
<1>8. ASSUME NEW m \in net, Lose(m) PROVE Effect
  <2>1. TablesTyped' /\ Announces
    BY <1>1, <1>8 DEF Lose
  <2>2. /\ announcing' \in [Nodes -> Timers] /\ scheduled' \subseteq Nodes
        /\ UNCHANGED <<interested, fetching, fetch, wanted, requested, changes>>
    BY <1>8 DEF Lose, TypeOK
  <2> QED BY <2>1, <2>2, <1>2
<1>9. ASSUME NEW n \in Nodes, FetchTimer(n) PROVE Effect
  <2>1. TablesTyped' /\ Announces
    BY <1>1, <1>9 DEF FetchTimer
  <2>2. /\ fetch' \in [Nodes -> Seq(Blocks)]
        /\ requested' \in [Nodes -> SUBSET Blocks]
        /\ fetching' \in [Nodes -> Timers]
        /\ EveryBlockFetched'
    BY <1>9, FetchTimerEffect
  <2>3. UNCHANGED <<interested, announcing, wanted, scheduled, changes>>
    BY <1>9 DEF FetchTimer
  <2>4. TypeOK'
    BY <2>1, <2>2, <2>3 DEF TypeOK, TablesTyped
  <2> QED BY <2>1, <2>2, <2>4 DEF TablesStep
<1>10. ASSUME NEW n \in Nodes, ChangeInterests(n) PROVE Effect
  <2>1. TablesTyped' /\ Announces
    BY <1>1, <1>10 DEF ChangeInterests
  <2>2. /\ UNCHANGED <<rmt, announcing, fetching, fetch, wanted, requested, scheduled>>
        /\ interested' \in [Nodes -> SUBSET Hashes]
        /\ changes' \in 0..MaxChanges
    BY <1>10, MetadataAssumption DEF ChangeInterests, TypeOK
  <2>3. TypeOK'
    BY <2>1, <2>2 DEF TypeOK, TablesTyped
  <2>4. EveryBlockFetched'
    BY <2>2 DEF EveryBlockFetched
  <2> QED BY <2>1, <2>3, <2>4 DEF TablesStep
<1>11. ASSUME NEW m \in net, Receive(m) PROVE Effect
  <2>1. /\ TablesTyped' /\ Hears(m)
        /\ fetch' \in [Nodes -> Seq(Blocks)] /\ wanted' \in [Nodes -> SUBSET Hashes]
        /\ requested' \in [Nodes -> SUBSET Blocks] /\ fetching' \in [Nodes -> Timers]
        /\ EveryBlockFetched'
    BY <1>11, ReceiveEffect
  <2>2. UNCHANGED <<interested, announcing, scheduled, changes>>
    BY <1>11 DEF Receive
  <2>3. TypeOK'
    BY <2>1, <2>2 DEF TypeOK, TablesTyped
  <2> QED BY <2>1, <2>3 DEF TablesStep
<1>12. ASSUME Tick PROVE Effect
  <2>1. /\ TablesTyped' /\ Ages
        /\ announcing' \in [Nodes -> Timers] /\ fetching' \in [Nodes -> Timers]
        /\ \A n \in Nodes : fetching'[n].now + fetching'[n].next
                              = fetching[n].now + fetching[n].next
    BY <1>12, TickEffect
  <2>2. scheduled' = {} /\ UNCHANGED <<interested, fetch, wanted, requested, changes>>
    BY <1>12 DEF Tick
  <2>3. TypeOK'
    BY <2>1, <2>2 DEF TypeOK, TablesTyped
  <2>4. \A n \in Nodes : DOMAIN rmt'[n] = DOMAIN rmt[n]
    BY <2>1 DEF Ages
  <2>5. EveryBlockFetched'
    BY <2>1, <2>2, <2>4 DEF EveryBlockFetched
  <2> QED BY <2>1, <2>3, <2>5 DEF TablesStep
<1> HIDE DEF Effect
<1>13. Effect
  BY <1>3, <1>4, <1>5, <1>6, <1>7, <1>8, <1>9, <1>10, <1>11, <1>12 DEF Next
<1> QED BY <1>13 DEF Effect

-----------------------------------------------------------------------------
(* Own content and expiry *)

LEMMA NoOwnRemoteStep ==
  ASSUME NoOwnRemote, TablesStep
  PROVE  NoOwnRemote'
<1> SUFFICES ASSUME NEW n \in Nodes, NEW h \in DOMAIN rmt'[n] PROVE Publisher[h] # n
  BY DEF NoOwnRemote
<1>1. CASE Announces
  BY <1>1 DEF Announces, Forgets, NoOwnRemote
<1>2. CASE Ages
  BY <1>2 DEF Ages, NoOwnRemote
<1>3. ASSUME NEW m \in net, Hears(m) PROVE Publisher[h] # n
  BY <1>3 DEF Hears, Heard, NoOwnRemote
<1> QED BY <1>1, <1>2, <1>3 DEF TablesStep

LEMMA ExpireAtOnceStep ==
  ASSUME ExpireAtOnce, TablesStep
  PROVE  ExpireAtOnce'
<1>1. CASE Announces
  <2>1. \A h \in DOMAIN lmt : h \in DOMAIN lmt' /\ lmt'[h].left = lmt[h].left
    BY <1>1 DEF Announces
  <2>2. ASSUME NEW n \in Nodes, NEW h \in DOMAIN rmt[n]
        PROVE  h \in DOMAIN lmt' /\ rmt[n][h].left = lmt'[h].left
    BY <2>1 DEF ExpireAtOnce
  <2>3. ASSUME NEW n \in Nodes, NEW h \in DOMAIN rmt'[n]
        PROVE  h \in DOMAIN lmt' /\ rmt'[n][h].left = lmt'[h].left
    BY <1>1, <2>2 DEF Announces, Forgets
  <2>4. ASSUME NEW m \in net', NEW h \in DOMAIN m.metadata
        PROVE  h \in DOMAIN lmt' /\ m.metadata[h].left = lmt'[h].left
    <3>1. CASE m \in net
      BY <3>1, <2>1 DEF ExpireAtOnce
    <3>2. CASE SentNow(m)
      BY <3>2, <2>2 DEF SentNow, Live
    <3> QED BY <3>1, <3>2, <1>1 DEF Announces
  <2> QED BY <2>3, <2>4 DEF ExpireAtOnce
<1>2. CASE Ages
  BY <1>2 DEF Ages, ExpireAtOnce
<1>3. ASSUME NEW m \in net, Hears(m) PROVE ExpireAtOnce'
  <2>1. ASSUME NEW n \in Nodes, NEW h \in DOMAIN rmt'[n]
        PROVE  h \in DOMAIN lmt' /\ rmt'[n][h].left = lmt'[h].left
    <3>1. CASE n # m.to
      BY <3>1, <1>3 DEF Hears, ExpireAtOnce
    <3>2. CASE n = m.to
      BY <3>2, <1>3 DEF Hears, Heard, ExpireAtOnce
    <3> QED BY <3>1, <3>2
  <2>2. ASSUME NEW k \in net', NEW h \in DOMAIN k.metadata
        PROVE  h \in DOMAIN lmt' /\ k.metadata[h].left = lmt'[h].left
    BY <1>3 DEF Hears, ExpireAtOnce
  <2> QED BY <2>1, <2>2 DEF ExpireAtOnce
<1> QED BY <1>1, <1>2, <1>3 DEF TablesStep

IInv == TypeOK /\ NoOwnRemote /\ ExpireAtOnce /\ EveryBlockFetched

LEMMA InitIInv == Init => IInv
<1> SUFFICES ASSUME Init PROVE IInv
  OBVIOUS
<1>1. << >> \in Tables(Local) /\ << >> \in Tables(Metadata)
  <2>1. ASSUME NEW E PROVE << >> \in Tables(E)
    <3> DEFINE t == << >>
    <3>1. DOMAIN t \subseteq Hashes /\ t \in [DOMAIN t -> E]
      OBVIOUS
    <3> HIDE DEF t
    <3>2. t \in Tables(E)
      BY <3>1, TableIs
    <3> QED BY <3>2 DEF t
  <2> QED BY <2>1
<1>2. /\ [now |-> 0, next |-> 0] \in Timers /\ [now |-> 0, next |-> 1] \in Timers
      /\ 0 \in 0..MaxChanges
  BY MetadataAssumption DEF Timers
<1>3. << >> \in Seq(Blocks)
  OBVIOUS
<1>4. TypeOK
  BY <1>1, <1>2, <1>3 DEF Init, TypeOK
<1>5. NoOwnRemote
  BY DEF Init, NoOwnRemote
<1>6. ExpireAtOnce
  BY DEF Init, ExpireAtOnce
<1>7. EveryBlockFetched
  BY DEF Init, EveryBlockFetched
<1> QED BY <1>4, <1>5, <1>6, <1>7 DEF IInv

LEMMA NextIInv == IInv /\ [Next]_vars => IInv'
BY NextEffect, NoOwnRemoteStep, ExpireAtOnceStep DEF IInv

\* The tables and timers of all nodes keep their types, however announcements,
\* timers and users interleave.
THEOREM MetadataTypeCorrect == Spec => []TypeOK
<1>1. IInv => TypeOK
  BY DEF IInv
<1> QED BY <1>1, InitIInv, NextIInv, PTL DEF Spec

\* "Break loops": however its announcements are relayed, no node ever lists its own
\* content as somebody else's (receive(ContentAnn)).
THEOREM OwnIsNeverRemote == Spec => []NoOwnRemote
<1>1. IInv => NoOwnRemote
  BY DEF IInv
<1> QED BY <1>1, InitIInv, NextIInv, PTL DEF Spec

\* "They expire across the entire network at once": every copy of the metadata of a
\* content, in a table or on the air, has what is left of the publisher's own.
THEOREM CopiesExpireAtOnce == Spec => []ExpireAtOnce
<1>1. IInv => ExpireAtOnce
  BY DEF IInv
<1> QED BY <1>1, InitIInv, NextIInv, PTL DEF Spec

\* Every block of a content that interested a node when it learned of it has been
\* requested or waits with a timer pending, as long as the metadata is kept
\* (discover, do_auto_fetch).
THEOREM FetchesEveryBlock == Spec => []EveryBlockFetched
<1>1. IInv => EveryBlockFetched
  BY DEF IInv
<1> QED BY <1>1, InitIInv, NextIInv, PTL DEF Spec

-----------------------------------------------------------------------------
(* Whoever has published goes on announcing.  Either announce_metadata() finds *)
(* own content and arms a timer, or there is none and nothing to show.         *)

\* The timers of the other nodes are theirs, and n has another one or nothing of its own.
LEMMA AnnouncingGoesOn ==
  ASSUME TypeOK, PublisherAnnounces, NEW n \in Nodes, NEW timers \in Timers,
         NEW local, DOMAIN lmt' = DOMAIN local,
         \A k \in Nodes : k # n => Own(local, k) = Own(lmt, k),
         announcing' = [announcing EXCEPT ![n] = timers],
         Own(local, n) # {} => timers.next > 0
  PROVE  PublisherAnnounces'
<1>1. announcing \in [Nodes -> Timers]
  BY DEF TypeOK
<1>2. timers.now \in Nat /\ timers.next \in Nat
  BY MetadataAssumption DEF Timers
<1>3. \A k \in Nodes : Own(lmt', k) = Own(local, k)
  BY DEF Own
<1>4. announcing'[n] = timers /\ \A k \in Nodes : k # n => announcing'[k] = announcing[k]
  BY <1>1
<1>5. ASSUME NEW k \in Nodes, Own(lmt', k) # {}
      PROVE  announcing'[k].now + announcing'[k].next > 0
  <2>1. CASE k = n
    <3>1. timers.now + timers.next > 0
      BY <2>1, <1>2, <1>3, <1>5
    <3> QED BY <3>1, <2>1, <1>4
  <2>2. CASE k # n
    BY <2>2, <1>3, <1>4, <1>5 DEF PublisherAnnounces
  <2> QED BY <2>1, <2>2
<1> QED BY <1>5 DEF PublisherAnnounces

LEMMA AnnounceMetadataGoesOn ==
  ASSUME TypeOK, PublisherAnnounces, NEW n \in Nodes, NEW timers \in Timers,
         NEW local, \A k \in Nodes : k # n => Own(local, k) = Own(lmt, k),
         AnnounceMetadata(local, n, timers)
  PROVE  PublisherAnnounces'
<1>1. CASE Silent(local, n)
  <2>1. lmt' = local /\ announcing' = [announcing EXCEPT ![n] = timers]
    BY <1>1 DEF AnnounceMetadata
  <2>2. Own(local, n) = {}
    BY <1>1 DEF Silent
  <2> QED BY <2>1, <2>2, AnnouncingGoesOn
<1>2. CASE ~Silent(local, n)
  <2> DEFINE t == Armed(timers, 1)
  <2>1. DOMAIN lmt' = DOMAIN local /\ announcing' = [announcing EXCEPT ![n] = t]
    BY <1>2 DEF AnnounceMetadata
  <2>2. t \in Timers /\ t.next > 0
    BY TimersArmed
  <2> HIDE DEF t
  <2> QED BY <2>1, <2>2, AnnouncingGoesOn
<1> QED BY <1>1, <1>2

\* The same content, and as many timers as there were.
LEMMA NothingOfAnnouncing ==
  ASSUME PublisherAnnounces, DOMAIN lmt' = DOMAIN lmt,
         \A n \in Nodes : announcing[n].now + announcing[n].next > 0 =>
                            announcing'[n].now + announcing'[n].next > 0
  PROVE  PublisherAnnounces'
BY DEF PublisherAnnounces, Own

LEMMA AnnouncesStep ==
  ASSUME TypeOK, PublisherAnnounces, [Next]_vars
  PROVE  PublisherAnnounces'
<1>1. ASSUME UNCHANGED <<lmt, announcing>> PROVE PublisherAnnounces'
  BY <1>1, NothingOfAnnouncing
<1>2. ASSUME NEW h \in Hashes, Publish(h) PROVE PublisherAnnounces'
  <2> DEFINE n     == Publisher[h]
             local == Added(lmt, h, [left |-> TTL, since |-> 0, wait |-> 0])
  <2>1. n \in Nodes /\ announcing[n] \in Timers
    BY MetadataAssumption DEF TypeOK
  <2>2. AnnounceMetadata(local, n, announcing[n])
    BY <1>2 DEF Publish
  <2>3. DOMAIN local = DOMAIN lmt \cup {h}
    BY DEF Added
  <2> HIDE DEF local
  <2>4. \A k \in Nodes : k # n => Own(local, k) = Own(lmt, k)
    BY <2>3 DEF Own
  <2> QED BY <2>1, <2>2, <2>4, AnnounceMetadataGoesOn
<1>3. ASSUME NEW n \in Nodes, AnnounceTimer(n) PROVE PublisherAnnounces'
  <2>1. announcing[n] \in Timers /\ announcing[n].now > 0
    BY <1>3 DEF TypeOK, AnnounceTimer
  <2>2. Fired(announcing[n]) \in Timers
    BY <2>1, TimersFired
  <2>3. AnnounceMetadata(lmt, n, Fired(announcing[n]))
    BY <1>3 DEF AnnounceTimer
  <2> QED BY <2>2, <2>3, AnnounceMetadataGoesOn
<1>4. ASSUME NEW n \in Nodes, Schedule(n) PROVE PublisherAnnounces'
  <2>1. CASE Silent(lmt, n)
    BY <2>1, <1>1, <1>4 DEF Schedule
  <2>2. CASE ~Silent(lmt, n)
    <3> DEFINE c == IF Own(lmt, n) # {} \/ Live(n) # {} THEN 2 ELSE 1
               t == Armed(announcing[n], c)
    <3>1. DOMAIN lmt' = DOMAIN lmt /\ announcing' = [announcing EXCEPT ![n] = t]
      BY <2>2, <1>4 DEF Schedule
    <3>2. announcing[n] \in Timers /\ c \in 0..2 /\ c > 0
      BY DEF TypeOK
    <3> HIDE DEF c
    <3>3. t \in Timers /\ t.next > 0
      BY <3>2, TimersArmed
    <3> HIDE DEF t
    <3> QED BY <3>1, <3>3, AnnouncingGoesOn
  <2> QED BY <2>1, <2>2
<1>5. ASSUME Tick PROVE PublisherAnnounces'
  <2>1. /\ announcing' = [n \in Nodes |-> NextTick(announcing[n])]
        /\ \A n \in Nodes : announcing[n].now = 0
        /\ DOMAIN lmt' = DOMAIN lmt
    BY <1>5 DEF Tick
  <2>2. \A n \in Nodes : announcing'[n].now = announcing[n].next /\ announcing'[n].next = 0
    BY <2>1 DEF NextTick
  <2>3. \A n \in Nodes : announcing[n].next \in Nat
    BY MetadataAssumption DEF TypeOK, Timers
  <2>4. \A n \in Nodes : announcing'[n].now + announcing'[n].next
                           = announcing[n].now + announcing[n].next
    BY <2>1, <2>2, <2>3
  <2> QED BY <2>1, <2>4, NothingOfAnnouncing
<1>6. \/ UNCHANGED <<lmt, announcing>>
      \/ \E h \in Hashes : Publish(h)
      \/ \E n \in Nodes : AnnounceTimer(n) \/ Schedule(n)
      \/ Tick
  BY DEF Next, vars, FetchTimer, ReadMetadata, ChangeInterests, Receive, Lose
<1> QED BY <1>1, <1>2, <1>3, <1>4, <1>5, <1>6

\* Whoever has published has an announce timer pending, although the chain that the
\* constructor starts dies while there is nothing to announce (announce_metadata).
THEOREM PublishersAnnounce == Spec => []PublisherAnnounces
<1>1. Init => PublisherAnnounces
  BY DEF Init, PublisherAnnounces, Own
<1>2. IInv /\ PublisherAnnounces /\ [Next]_vars => PublisherAnnounces'
  BY AnnouncesStep DEF IInv
<1> QED BY <1>1, <1>2, InitIInv, NextIInv, PTL DEF Spec

-----------------------------------------------------------------------------
(* Hops.  As long as a content has not expired nobody forgets it, and whoever *)
(* is k hops away has at least k nodes, itself among them, that are no        *)
(* farther.  The publisher is not one of them.                                *)

Closer(tables, h, k) == {n \in Nodes : h \in DOMAIN tables[n] /\ tables[n][h].hops <= k}

NoFarther ==
  \A h \in DOMAIN lmt :
    IF lmt[h].left > 0
    THEN /\ \A n \in Nodes :
              h \in DOMAIN rmt[n] =>
                rmt[n][h].hops <= Cardinality(Closer(rmt, h, rmt[n][h].hops))
         /\ \A m \in net :
              h \in DOMAIN m.metadata =>
                m.metadata[h].hops <= Cardinality(Closer(rmt, h, m.metadata[h].hops))
    ELSE \A m \in net : h \in DOMAIN m.metadata => m.metadata[h].hops = 0

\* The wrapping of the 8-bit hops does not matter.
FewNodes == IsFiniteSet(Nodes) /\ Cardinality(Nodes) < HopRange

LEMMA CloserFinite ==
  ASSUME FewNodes, NEW T, NEW h \in Hashes, NEW k
  PROVE  /\ Cardinality(Nodes) \in Nat \ {0}
         /\ IsFiniteSet(Closer(T, h, k))
         /\ Cardinality(Closer(T, h, k)) \in Nat
         /\ (\A n \in Nodes : h \in DOMAIN T[n] => Publisher[h] # n)
              => Cardinality(Closer(T, h, k)) <= Cardinality(Nodes) - 1
<1> DEFINE C == Closer(T, h, k)
           p == Publisher[h]
<1>1. C \in SUBSET Nodes /\ p \in Nodes
  BY MetadataAssumption DEF Closer
<1>2. (\A n \in Nodes : h \in DOMAIN T[n] => p # n) => C \in SUBSET (Nodes \ {p})
  BY DEF Closer
<1> HIDE DEF C, p
<1>3. IsFiniteSet(C) /\ Cardinality(C) \in Nat /\ Cardinality(Nodes) \in Nat
  BY <1>1, FS_Subset, FS_CardinalityType DEF FewNodes
<1>4. /\ IsFiniteSet(Nodes \ {p})
      /\ Cardinality(Nodes \ {p}) = Cardinality(Nodes) - 1
      /\ Cardinality(Nodes \ {p}) \in Nat
  BY <1>1, FS_RemoveElement, FS_CardinalityType DEF FewNodes
<1>5. C \in SUBSET (Nodes \ {p}) => Cardinality(C) <= Cardinality(Nodes) - 1
  BY <1>4, FS_Subset
<1> QED BY <1>2, <1>3, <1>4, <1>5 DEF C, p

\* Whoever was close enough still is, and perhaps one more.
LEMMA CloserGrows ==
  ASSUME FewNodes, NEW T, NEW U, NEW h \in Hashes, NEW k \in Nat,
         Closer(T, h, k) \subseteq Closer(U, h, k)
  PROVE  Cardinality(Closer(T, h, k)) <= Cardinality(Closer(U, h, k))
<1>1. IsFiniteSet(Closer(U, h, k))
  BY CloserFinite
<1> QED BY <1>1, FS_Subset

LEMMA OneMoreCloser ==
  ASSUME FewNodes, NEW T, NEW U, NEW h \in Hashes, NEW k \in Nat, NEW n \in Nodes,
         n \notin Closer(T, h, k),
         Closer(T, h, k) \cup {n} \subseteq Closer(U, h, k + 1)
  PROVE  Cardinality(Closer(T, h, k)) + 1 <= Cardinality(Closer(U, h, k + 1))
<1> DEFINE C == Closer(T, h, k)
           D == Closer(U, h, k + 1)
<1>1. IsFiniteSet(C) /\ IsFiniteSet(D)
  BY CloserFinite
<1>2. Cardinality(C \cup {n}) = Cardinality(C) + 1
  BY <1>1, FS_AddElement
<1>3. C \cup {n} \in SUBSET D
  OBVIOUS
<1> HIDE DEF C, D
<1>4. Cardinality(C \cup {n}) <= Cardinality(D)
  BY <1>1, <1>3, FS_Subset
<1> QED BY <1>2, <1>4 DEF C, D

\* The receiver of an announcement of a live content.
LEMMA HearsNoFarther ==
  ASSUME FewNodes, TypeOK, TablesTyped', NoOwnRemote, ExpireAtOnce, NoFarther, HopsOfAPath,
         NEW m \in net, Hears(m), NEW h \in DOMAIN lmt, lmt[h].left > 0
  PROVE  /\ \A k \in Nat : Closer(rmt, h, k) \subseteq Closer(rmt', h, k)
         /\ h \in DOMAIN rmt'[m.to] =>
              /\ rmt'[m.to][h].hops >= 1
              /\ rmt'[m.to][h].hops <= Cardinality(Closer(rmt', h, rmt'[m.to][h].hops))
<1> DEFINE n == m.to
<1>1. /\ n \in Nodes /\ h \in Hashes
      /\ \A j \in Nodes : \A g \in DOMAIN rmt[j] : rmt[j][g].hops \in Nat
      /\ \A j \in Nodes : \A g \in DOMAIN rmt'[j] : rmt'[j][g].hops \in Nat
      /\ \A g \in DOMAIN m.metadata : m.metadata[g].hops \in Nat
  <2>1. n \in Nodes
    BY MetadataAssumption DEF TypeOK
  <2>2. h \in Hashes
    BY TableIs DEF TypeOK
  <2>3. ASSUME NEW t \in Tables(Metadata), NEW g \in DOMAIN t PROVE t[g].hops \in Nat
    BY TableIs, MetadataFields, MetadataAssumption
  <2>4. \A j \in Nodes : rmt[j] \in Tables(Metadata) /\ rmt'[j] \in Tables(Metadata)
    BY DEF TypeOK, TablesTyped
  <2>5. m.metadata \in Tables(Metadata)
    BY DEF TypeOK
  <2> QED BY <2>1, <2>2, <2>3, <2>4, <2>5
<1>2. /\ \A j \in Nodes : j # n => rmt'[j] = rmt[j]
      /\ DOMAIN rmt[n] \subseteq DOMAIN rmt'[n]
  BY DEF Hears, Heard
<1>3. ASSUME h \in DOMAIN rmt[n]
      PROVE  h \in DOMAIN rmt'[n] /\ rmt'[n][h].hops <= rmt[n][h].hops
  BY <1>1, <1>2, <1>3 DEF Hears, Heard
<1>4. ASSUME NEW k \in Nat PROVE Closer(rmt, h, k) \subseteq Closer(rmt', h, k)
  <2> SUFFICES ASSUME NEW j \in Closer(rmt, h, k) PROVE j \in Closer(rmt', h, k)
    OBVIOUS
  <2>1. j \in Nodes /\ h \in DOMAIN rmt[j] /\ rmt[j][h].hops <= k
    BY DEF Closer
  <2>2. CASE j # n
    BY <2>1, <2>2, <1>2 DEF Closer
  <2>3. CASE j = n
    <3>1. h \in DOMAIN rmt'[j] /\ rmt'[j][h].hops <= k
      BY <2>1, <2>3, <1>1, <1>3
    <3> QED BY <2>1, <3>1 DEF Closer
  <2> QED BY <2>2, <2>3
<1>5. ASSUME h \in DOMAIN rmt'[n]
      PROVE  /\ rmt'[n][h].hops >= 1
             /\ rmt'[n][h].hops <= Cardinality(Closer(rmt', h, rmt'[n][h].hops))
  <2> DEFINE v == rmt'[n][h].hops
             Far == v >= 1 /\ v <= Cardinality(Closer(rmt', h, v))
  <2>1. CASE h \in DOMAIN rmt[n] /\ rmt'[n][h] = rmt[n][h]
    <3>1. /\ rmt[n][h].hops <= Cardinality(Closer(rmt, h, rmt[n][h].hops))
          /\ rmt[n][h].hops \in 1..Cardinality(Nodes) - 1
      BY <2>1, <1>1 DEF NoFarther, HopsOfAPath
    <3>2. /\ Cardinality(Closer(rmt, h, v)) <= Cardinality(Closer(rmt', h, v))
          /\ Cardinality(Closer(rmt, h, v)) \in Nat /\ Cardinality(Closer(rmt', h, v)) \in Nat
      BY <1>1, <1>4, <1>5, CloserGrows, CloserFinite
    <3>3. v = rmt[n][h].hops /\ v \in Nat
      BY <2>1, <1>1, <1>5
    <3>4. v >= 1
      BY <3>1, <3>3, CloserFinite, <1>1
    <3> HIDE DEF v
    <3>5. Far
      BY <3>1, <3>2, <3>3, <3>4
    <3> QED BY <3>5 DEF v
  <2>2. CASE /\ h \in DOMAIN m.metadata
             /\ Publisher[h] # n
             /\ v = Farther(m.metadata[h].hops)
             /\ h \in DOMAIN rmt[n] => v <= rmt[n][h].hops
    <3> DEFINE k == m.metadata[h].hops
               c == Cardinality(Closer(rmt, h, k))
    <3>1. k \in Nat /\ k <= c
      BY <2>2, <1>1 DEF NoFarther
    <3>2. c \in Nat /\ c <= Cardinality(Nodes) - 1 /\ Cardinality(Nodes) \in Nat
      <4>1. \A j \in Nodes : h \in DOMAIN rmt[j] => Publisher[h] # j
        BY DEF NoOwnRemote
      <4> QED BY <4>1, <1>1, CloserFinite
    <3>3. k + 1 < HopRange /\ HopRange \in Nat
      BY <3>1, <3>2, MetadataAssumption DEF FewNodes
    <3> HIDE DEF k
    <3>4. v = k + 1
      BY <2>2, <3>1, <3>3 DEF Farther, k
    <3>5. n \notin Closer(rmt, h, k)
      <4> SUFFICES ASSUME n \in Closer(rmt, h, k) PROVE FALSE
        OBVIOUS
      <4>1. h \in DOMAIN rmt[n] /\ rmt[n][h].hops <= k /\ rmt[n][h].hops \in Nat
        BY <1>1 DEF Closer
      <4> HIDE DEF v
      <4> QED BY <4>1, <2>2, <3>1, <3>4
    <3>6. Closer(rmt, h, k) \cup {n} \subseteq Closer(rmt', h, k + 1)
      <4>1. n \in Closer(rmt', h, k + 1)
        BY <3>1, <3>4, <1>1, <1>5 DEF Closer
      <4>2. Closer(rmt', h, k) \subseteq Closer(rmt', h, k + 1)
        BY <3>1, <1>1 DEF Closer
      <4> QED BY <4>1, <4>2, <1>4, <3>1
    <3>7. c + 1 <= Cardinality(Closer(rmt', h, k + 1))
      BY <1>1, <3>1, <3>5, <3>6, OneMoreCloser
    <3>8. Cardinality(Closer(rmt', h, k + 1)) \in Nat
      BY <1>1, CloserFinite
    <3> HIDE DEF c, v
    <3>9. Far
      BY <3>1, <3>2, <3>4, <3>7, <3>8
    <3> QED BY <3>9 DEF v
  <2>3. \/ h \in DOMAIN rmt[n] /\ rmt'[n][h] = rmt[n][h]
        \/ /\ h \in DOMAIN m.metadata
           /\ Publisher[h] # n
           /\ v = Farther(m.metadata[h].hops)
           /\ h \in DOMAIN rmt[n] => v <= rmt[n][h].hops
    BY <1>5 DEF Hears, Heard
  <2> QED BY <2>1, <2>2, <2>3
<1> QED BY <1>4, <1>5

TypedHops ==
  /\ DOMAIN lmt \subseteq Hashes
  /\ \A h \in DOMAIN lmt : lmt[h].left \in Nat
  /\ \A n \in Nodes : \A h \in DOMAIN rmt[n] : h \in Hashes /\ rmt[n][h].hops \in Nat
  /\ \A m \in net : \A h \in DOMAIN m.metadata : m.metadata[h].hops \in Nat

LEMMA TableHops == TablesTyped => TypedHops
<1> SUFFICES ASSUME TablesTyped PROVE TypedHops
  OBVIOUS
<1>1. ASSUME NEW t \in Tables(Metadata), NEW h \in DOMAIN t PROVE h \in Hashes /\ t[h].hops \in Nat
  BY TableIs, MetadataFields, MetadataAssumption
<1>2. ASSUME NEW h \in DOMAIN lmt PROVE lmt[h].left \in Nat
  <2>1. lmt[h] \in Local
    BY TableIs DEF TablesTyped
  <2> QED BY <2>1, MetadataAssumption DEF Local
<1>3. DOMAIN lmt \subseteq Hashes
  BY TableIs DEF TablesTyped
<1>4. \A n \in Nodes : rmt[n] \in Tables(Metadata)
  BY DEF TablesTyped
<1>5. \A m \in net : m.metadata \in Tables(Metadata)
  BY DEF TablesTyped
<1> QED BY <1>1, <1>2, <1>3, <1>4, <1>5 DEF TypedHops

LEMMA NextHops == TablesTyped' => TypedHops'
BY TableHops, PTL

\* Announcing: of what is live nobody forgets anything, and what is sent is what
\* somebody knows.
LEMMA AnnouncesNoFarther ==
  ASSUME FewNodes, TablesTyped, TablesTyped', ExpireAtOnce, NoFarther, Announces
  PROVE  NoFarther'
<1> SUFFICES ASSUME NEW h \in DOMAIN lmt'
             PROVE  IF lmt'[h].left > 0
                    THEN /\ \A n \in Nodes :
                              h \in DOMAIN rmt'[n] =>
                                rmt'[n][h].hops <= Cardinality(Closer(rmt', h, rmt'[n][h].hops))
                         /\ \A m \in net' :
                              h \in DOMAIN m.metadata =>
                                m.metadata[h].hops <= Cardinality(Closer(rmt', h, m.metadata[h].hops))
                    ELSE \A m \in net' : h \in DOMAIN m.metadata => m.metadata[h].hops = 0
  BY DEF NoFarther
<1>1. h \in Hashes /\ lmt'[h].left \in Nat
  BY NextHops DEF TypedHops
<1>2. ASSUME NEW T, NEW k \in Nat, k = 0 PROVE k <= Cardinality(Closer(T, h, k))
  <2>1. Cardinality(Closer(T, h, k)) \in Nat
    BY <1>1, CloserFinite
  <2> QED BY <2>1, <1>2
<1>3. CASE h \notin DOMAIN lmt
  <2>1. \A n \in Nodes : h \notin DOMAIN rmt[n] /\ h \notin DOMAIN rmt'[n]
    BY <1>3 DEF ExpireAtOnce, Announces, Forgets
  <2>2. \A m \in net' : h \in DOMAIN m.metadata => m.metadata[h].hops = 0
    BY <1>3, <2>1 DEF ExpireAtOnce, Announces, SentNow, Live
  <2>3. \A m \in net' :
          h \in DOMAIN m.metadata =>
            m.metadata[h].hops <= Cardinality(Closer(rmt', h, m.metadata[h].hops))
    BY <2>2, <1>2
  <2> QED BY <2>1, <2>2, <2>3
<1>4. CASE h \in DOMAIN lmt /\ lmt'[h].left = 0
  <2>1. lmt[h].left = 0
    BY <1>4 DEF Announces
  <2>2. \A m \in net : h \in DOMAIN m.metadata => m.metadata[h].hops = 0
    BY <1>4, <2>1 DEF NoFarther
  <2>3. \A n \in Nodes : h \notin Live(n)
    BY <2>1 DEF ExpireAtOnce, Live
  <2>4. \A m \in net' : h \in DOMAIN m.metadata => m.metadata[h].hops = 0
    BY <2>2, <2>3 DEF Announces, SentNow
  <2> QED BY <2>4, <1>4
<1>5. CASE h \in DOMAIN lmt /\ lmt'[h].left > 0
  <2>1. lmt[h].left > 0
    BY <1>5 DEF Announces
  <2>2. ASSUME NEW n \in Nodes
        PROVE  /\ h \in DOMAIN rmt'[n] <=> h \in DOMAIN rmt[n]
               /\ h \in DOMAIN rmt[n] => rmt'[n][h] = rmt[n][h]
    <3>1. h \in DOMAIN rmt[n] => h \in Live(n)
      BY <2>1 DEF ExpireAtOnce, Live
    <3> QED BY <3>1 DEF Announces, Forgets
  <2>3. \A k : Closer(rmt', h, k) = Closer(rmt, h, k)
    BY <2>2 DEF Closer
  <2>4. ASSUME NEW n \in Nodes, h \in DOMAIN rmt[n]
        PROVE  rmt[n][h].hops <= Cardinality(Closer(rmt', h, rmt[n][h].hops))
    BY <2>1, <2>3, <2>4, <1>5 DEF NoFarther
  <2>5. ASSUME NEW m \in net', h \in DOMAIN m.metadata
        PROVE  m.metadata[h].hops <= Cardinality(Closer(rmt', h, m.metadata[h].hops))
    <3>1. CASE m \in net
      BY <3>1, <2>1, <2>3, <2>5, <1>5 DEF NoFarther
    <3>2. CASE m.metadata[h].hops = 0
      BY <3>2, <1>2
    <3>3. CASE \E n \in Nodes : h \in Live(n) /\ m.metadata[h] = rmt[n][h]
      BY <3>3, <2>4 DEF Live
    <3> QED BY <3>1, <3>2, <3>3, <2>5 DEF Announces, SentNow
  <2>6. \A n \in Nodes :
          h \in DOMAIN rmt'[n] =>
            rmt'[n][h].hops <= Cardinality(Closer(rmt', h, rmt'[n][h].hops))
    BY <2>2, <2>4
  <2> QED BY <2>5, <2>6, <1>5
<1> QED BY <1>1, <1>3, <1>4, <1>5

\* Time: hops stay what they are, and there is nothing on the air.
LEMMA AgesNoFarther ==
  ASSUME FewNodes, TablesTyped, TablesTyped', NoFarther, Ages
  PROVE  NoFarther'
<1> SUFFICES ASSUME NEW h \in DOMAIN lmt', lmt'[h].left > 0, NEW n \in Nodes,
                    h \in DOMAIN rmt'[n]
             PROVE  rmt'[n][h].hops <= Cardinality(Closer(rmt', h, rmt'[n][h].hops))
  BY DEF NoFarther, Ages
<1>1. h \in DOMAIN lmt /\ lmt'[h].left = Sooner(lmt[h].left) /\ lmt[h].left \in Nat
  BY TableHops DEF Ages, TypedHops
<1>2. lmt[h].left > 0
  <2>1. Sooner(0) = 0
    <3>1. Max({0 - 1, 0}) = 0
      BY MaxOfTwo
    <3> QED BY <3>1 DEF Sooner
  <2> QED BY <1>1, <2>1
<1>3. \A j \in Nodes : /\ DOMAIN rmt'[j] = DOMAIN rmt[j]
                       /\ h \in DOMAIN rmt[j] => rmt'[j][h].hops = rmt[j][h].hops
  BY DEF Ages
<1>4. \A k : Closer(rmt', h, k) = Closer(rmt, h, k)
  BY <1>3 DEF Closer
<1> QED BY <1>1, <1>2, <1>3, <1>4 DEF NoFarther

LEMMA HearsKeepsNoFarther ==
  ASSUME FewNodes, TypeOK, TablesTyped', NoOwnRemote, ExpireAtOnce, NoFarther, HopsOfAPath,
         NEW m \in net, Hears(m)
  PROVE  NoFarther'
<1>1. lmt' = lmt /\ net' \subseteq net /\ (\A j \in Nodes : j # m.to => rmt'[j] = rmt[j])
  BY DEF Hears
<1>2. TablesTyped
  BY DEF TypeOK, TablesTyped
<1>3. ASSUME NEW h \in DOMAIN lmt, lmt[h].left > 0
      PROVE  /\ \A n \in Nodes :
                  h \in DOMAIN rmt'[n] =>
                    rmt'[n][h].hops <= Cardinality(Closer(rmt', h, rmt'[n][h].hops))
             /\ \A a \in net' :
                  h \in DOMAIN a.metadata =>
                    a.metadata[h].hops <= Cardinality(Closer(rmt', h, a.metadata[h].hops))
  <2>1. h \in Hashes
    BY <1>2, TableHops DEF TypedHops
  <2>2. /\ \A k \in Nat : Closer(rmt, h, k) \subseteq Closer(rmt', h, k)
        /\ h \in DOMAIN rmt'[m.to] =>
             rmt'[m.to][h].hops <= Cardinality(Closer(rmt', h, rmt'[m.to][h].hops))
    BY <1>3, HearsNoFarther
  <2>3. ASSUME NEW k \in Nat, k <= Cardinality(Closer(rmt, h, k))
        PROVE  k <= Cardinality(Closer(rmt', h, k))
    <3>1. Cardinality(Closer(rmt, h, k)) <= Cardinality(Closer(rmt', h, k))
      BY <2>1, <2>2, CloserGrows
    <3>2. Cardinality(Closer(rmt, h, k)) \in Nat /\ Cardinality(Closer(rmt', h, k)) \in Nat
      BY <2>1, CloserFinite
    <3> QED BY <3>1, <3>2, <2>3
  <2>4. ASSUME NEW n \in Nodes, h \in DOMAIN rmt'[n]
        PROVE  rmt'[n][h].hops <= Cardinality(Closer(rmt', h, rmt'[n][h].hops))
    <3>1. CASE n = m.to
      BY <3>1, <2>2, <2>4
    <3>2. CASE n # m.to
      <4>1. rmt'[n] = rmt[n] /\ h \in DOMAIN rmt[n]
        BY <3>2, <1>1, <2>4
      <4>2. rmt[n][h].hops \in Nat /\ rmt[n][h].hops <= Cardinality(Closer(rmt, h, rmt[n][h].hops))
        BY <4>1, <1>2, <1>3, TableHops DEF NoFarther, TypedHops
      <4> QED BY <4>1, <4>2, <2>3
    <3> QED BY <3>1, <3>2
  <2>5. ASSUME NEW a \in net', h \in DOMAIN a.metadata
        PROVE  a.metadata[h].hops <= Cardinality(Closer(rmt', h, a.metadata[h].hops))
    <3>1. a \in net
      BY <1>1
    <3>2. a.metadata[h].hops \in Nat /\ a.metadata[h].hops <= Cardinality(Closer(rmt, h, a.metadata[h].hops))
      BY <3>1, <1>2, <1>3, <2>5, TableHops DEF NoFarther, TypedHops
    <3> QED BY <3>2, <2>3
  <2> QED BY <2>4, <2>5
<1>4. ASSUME NEW h \in DOMAIN lmt, ~(lmt[h].left > 0)
      PROVE  \A a \in net' : h \in DOMAIN a.metadata => a.metadata[h].hops = 0
  BY <1>1, <1>4 DEF NoFarther
<1> QED BY <1>1, <1>3, <1>4 DEF NoFarther

LEMMA HopsStep ==
  ASSUME FewNodes, TypeOK, NoOwnRemote, NoOwnRemote', ExpireAtOnce, NoFarther, HopsOfAPath,
         TablesStep
  PROVE  NoFarther' /\ HopsOfAPath'
<1>1. TablesTyped /\ TablesTyped'
  BY DEF TypeOK, TablesTyped, TablesStep
<1>2. CASE Announces
  <2>1. NoFarther'
    BY <1>1, <1>2, AnnouncesNoFarther
  <2>2. HopsOfAPath'
    BY <1>2 DEF Announces, Forgets, HopsOfAPath
  <2> QED BY <2>1, <2>2
<1>3. CASE Ages
  <2>1. NoFarther'
    BY <1>1, <1>3, AgesNoFarther
  <2>2. HopsOfAPath'
    BY <1>3 DEF Ages, HopsOfAPath
  <2> QED BY <2>1, <2>2
<1>4. ASSUME NEW m \in net, Hears(m) PROVE NoFarther' /\ HopsOfAPath'
  <2>1. NoFarther'
    BY <1>1, <1>4, HearsKeepsNoFarther
  <2>2. /\ m.to \in Nodes
        /\ \A j \in Nodes : j # m.to => rmt'[j] = rmt[j]
        /\ lmt' = lmt
    BY <1>4, MetadataAssumption DEF Hears, TypeOK
  <2>3. ASSUME NEW h \in DOMAIN rmt'[m.to] PROVE rmt'[m.to][h].hops \in 1..Cardinality(Nodes) - 1
    <3> DEFINE v == rmt'[m.to][h].hops
    <3>1. h \in Hashes /\ v \in Nat
      <4>1. \A n \in Nodes : \A g \in DOMAIN rmt'[n] : g \in Hashes /\ rmt'[n][g].hops \in Nat
        BY <1>1, NextHops DEF TypedHops
      <4> QED BY <4>1, <2>2
    <3>2. Cardinality(Nodes) \in Nat
      BY <3>1, CloserFinite
    <3>3. CASE h \in DOMAIN rmt[m.to] /\ rmt'[m.to][h] = rmt[m.to][h]
      BY <3>3, <2>2 DEF HopsOfAPath
    <3>4. CASE /\ h \in DOMAIN m.metadata
               /\ Publisher[h] # m.to
               /\ v = Farther(m.metadata[h].hops)
      <4>1. h \in DOMAIN lmt /\ lmt[h].left \in Nat
        BY <3>4, <1>1, TableHops DEF ExpireAtOnce, TypedHops
      <4>2. CASE lmt[h].left > 0
        <5>1. v >= 1 /\ v <= Cardinality(Closer(rmt', h, v))
          BY <1>1, <1>4, <4>1, <4>2, HearsNoFarther
        <5>2. /\ Cardinality(Closer(rmt', h, v)) <= Cardinality(Nodes) - 1
              /\ Cardinality(Closer(rmt', h, v)) \in Nat
          <6>1. \A n \in Nodes : h \in DOMAIN rmt'[n] => Publisher[h] # n
            BY DEF NoOwnRemote
          <6> QED BY <6>1, <3>1, CloserFinite
        <5> HIDE DEF v
        <5>3. v \in 1..Cardinality(Nodes) - 1
          BY <5>1, <5>2, <3>1, <3>2
        <5> QED BY <5>3 DEF v
      <4>3. CASE lmt[h].left = 0
        <5>1. m.metadata[h].hops = 0
          BY <3>4, <4>1, <4>3 DEF NoFarther
        <5>2. Cardinality(Nodes) >= 2
          <6> DEFINE p == Publisher[h]
                     c == m.to
          <6>1. p \in Nodes /\ c \in Nodes /\ p # c
            BY <3>1, <3>4, <2>2, MetadataAssumption
          <6> HIDE DEF p, c
          <6>2. {p, c} \in SUBSET Nodes
            BY <6>1
          <6>3. Cardinality({p, c}) = 2
            <7>1. IsFiniteSet({p}) /\ Cardinality({p}) = 1
              BY FS_Singleton
            <7> DEFINE S == {p}
            <7>2. c \notin S
              BY <6>1
            <7> HIDE DEF S
            <7>4. Cardinality(S \cup {c}) = Cardinality(S) + 1
              BY <7>1, <7>2, FS_AddElement DEF S
            <7>5. Cardinality(S \cup {c}) = 2
              BY <7>1, <7>4 DEF S
            <7>3. {p, c} = {p} \cup {c}
              OBVIOUS
            <7> QED BY <7>5, <7>3 DEF S
          <6>4. Cardinality({p, c}) <= Cardinality(Nodes)
            BY <6>2, FS_Subset DEF FewNodes
          <6> QED BY <6>3, <6>4, <3>2
        <5>3. v = 1
          BY <3>4, <5>1, <5>2, <3>2, MetadataAssumption DEF Farther, FewNodes
        <5>4. 1 \in 1..Cardinality(Nodes) - 1
          BY <5>2, <3>2
        <5> QED BY <5>3, <5>4
      <4> QED BY <4>1, <4>2, <4>3
    <3> QED BY <3>3, <3>4, <1>4 DEF Hears, Heard
  <2>4. HopsOfAPath'
    <3>1. ASSUME NEW n \in Nodes, NEW h \in DOMAIN rmt'[n]
          PROVE  rmt'[n][h].hops \in 1..Cardinality(Nodes) - 1
      <4>1. CASE n = m.to
        BY <4>1, <2>3
      <4>2. CASE n # m.to
        BY <4>2, <2>2 DEF HopsOfAPath
      <4> QED BY <4>1, <4>2
    <3> QED BY <3>1 DEF HopsOfAPath
  <2> QED BY <2>1, <2>4
<1> QED BY <1>2, <1>3, <1>4 DEF TablesStep

\* Hops do not count to infinity, however nodes hear, forget and learn again from
\* each other, in any network of fewer nodes than the 8 bits of the hops count.
THEOREM HopsAreThoseOfAPath ==
  ASSUME FewNodes
  PROVE  Spec => []HopsOfAPath
<1> DEFINE I == IInv /\ NoFarther /\ HopsOfAPath
<1>1. Init => I
  <2> SUFFICES ASSUME Init PROVE NoFarther /\ HopsOfAPath
    BY InitIInv
  <2> QED BY DEF Init, NoFarther, HopsOfAPath
<1>2. I /\ [Next]_vars => I'
  <2> SUFFICES ASSUME I, [Next]_vars PROVE NoFarther' /\ HopsOfAPath'
    BY NextIInv
  <2>1. IInv' /\ IInv
    BY NextIInv
  <2>2. TablesStep
    BY <2>1, NextEffect DEF IInv
  <2> QED BY <2>1, <2>2, HopsStep DEF IInv
<1>3. I => HopsOfAPath
  OBVIOUS
<1> QED BY <1>1, <1>2, <1>3, PTL DEF Spec
===============================================================================
