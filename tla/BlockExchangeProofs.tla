------------------------- MODULE BlockExchangeProofs -------------------------
(***************************************************************************)
(* Theorems about BlockExchange: which blocks may be mixed up or stored    *)
(* twice, and that the wish to keep a block is not forgotten, in any       *)
(* network.                                                                *)
(***************************************************************************)
EXTENDS BlockExchange, ListsProofs

\* What a cache or store may hold of content h: an entry found under an index above
\* 0 is that block.
Lists(h) ==
  {list \in Seq(Entry) :
     \A k \in DOMAIN list : list[k].index > 0 => list[k].block = <<h, list[k].index>>}

ListsOf(c) == c = [h \in Hashes |-> c[h]] /\ \A h \in Hashes : c[h] \in Lists(h)

Response ==
  [kind : {"response"}, from : Nodes, to : Nodes, ref : Blocks, bytes : Blocks]

Intact(m) == m \in Response /\ (m.ref[2] > 0 => m.bytes = m.ref)

HeldIntact ==
  /\ network \in Networks
  /\ cache = [n \in Nodes |-> cache[n]]
  /\ store = [n \in Nodes |-> store[n]]
  /\ \A n \in Nodes : ListsOf(cache[n]) /\ ListsOf(store[n])
  /\ schedule \in [Nodes -> SUBSET Blocks]
  /\ \A m \in net : m.kind = "response" => Intact(m) /\ m.to \in DOMAIN network.reach

USE ExchangeAssumption

-----------------------------------------------------------------------------
(* Blocks and lists *)

\* A block reference names a content and an index.
LEMMA BlockParts ==
  ASSUME NEW b \in Blocks
  PROVE  b[1] \in Hashes /\ b[2] \in Nat /\ b = <<b[1], b[2]>>
BY BlockAssumption DEF Blocks, BlocksOf

\* find() stops at the first entry with the index.
LEMMA FoundMatches ==
  ASSUME NEW list \in Seq(Entry), NEW i, Finds(list, i)
  PROVE  \E k \in DOMAIN list : list[k].index = i /\ Found(list, i) = list[k].block
<1> DEFINE M == Matches(list, i)
<1>1. M \in SUBSET Nat /\ M # {}
  BY DEF Finds, Matches
<1>2. \E k \in M : \A j \in M : k <= j
  BY <1>1, SmallestOfNats
<1> DEFINE f == CHOOSE k \in M : \A j \in M : k <= j
<1>3. f \in M
  BY <1>2
<1>4. Found(list, i) = list[f].block
  BY DEF Found
<1> HIDE DEF f
<1> QED BY <1>3, <1>4 DEF Matches

LEMMA FoundIntact ==
  ASSUME NEW h \in Hashes, NEW list \in Lists(h), NEW i \in Nat, Finds(list, i)
  PROVE  Found(list, i) \in Blocks /\ (i > 0 => Found(list, i) = <<h, i>>)
<1>1. list \in Seq(Entry)
  BY DEF Lists
<1>2. PICK k \in DOMAIN list : list[k].index = i /\ Found(list, i) = list[k].block
  BY <1>1, FoundMatches
<1>3. list[k] \in Entry
  BY <1>1
<1>4. list[k].block \in Blocks
  BY <1>3 DEF Entry
<1>5. i > 0 => list[k].block = <<h, i>>
  BY <1>2 DEF Lists
<1> QED BY <1>2, <1>4, <1>5

\* A received block is added with index 0.
LEMMA WithBlockLists ==
  ASSUME NEW h \in Hashes, NEW list \in Lists(h), NEW ref, NEW bytes \in Blocks
  PROVE  WithBlock(list, ref, bytes) \in Lists(h)
<1> DEFINE e == [index |-> 0, block |-> bytes]
<1>1. list \in Seq(Entry) /\ e \in Entry /\ e.index = 0
  BY DEF Lists, Entry
<1> HIDE DEF e
<1>2. Append(list, e) \in Lists(h)
  <2>1. Append(list, e) \in Seq(Entry)
    BY <1>1
  <2>2. ASSUME NEW k \in DOMAIN Append(list, e), Append(list, e)[k].index > 0
        PROVE  Append(list, e)[k].block = <<h, Append(list, e)[k].index>>
    <3>1. k \in 1..Len(list) + 1 /\ Len(list) \in Nat
      BY <1>1, <2>2
    <3>2. CASE k = Len(list) + 1
      <4>1. Append(list, e)[k] = e
        BY <1>1, <3>2
      <4> QED BY <4>1, <1>1, <2>2
    <3>3. CASE k # Len(list) + 1
      <4>1. k \in DOMAIN list /\ Append(list, e)[k] = list[k]
        BY <1>1, <3>1, <3>3
      <4> QED BY <4>1, <2>2 DEF Lists
    <3> QED BY <3>2, <3>3
  <2> QED BY <2>1, <2>2 DEF Lists
<1> QED BY <1>2 DEF WithBlock, e

\* A published content is divided in order.
LEMMA DividedLists == \A h \in Hashes : Divided(h) \in Lists(h)
<1> SUFFICES ASSUME NEW h \in Hashes PROVE Divided(h) \in Lists(h)
  OBVIOUS
<1>1. BlockCount[h] \in Nat
  BY BlockAssumption
<1>2. \A k \in 1..BlockCount[h] : <<h, k - 1>> \in Blocks /\ k - 1 \in Nat
  BY <1>1 DEF Blocks, BlocksOf
<1>3. \A k \in 1..BlockCount[h] : [index |-> k - 1, block |-> <<h, k - 1>>] \in Entry
  BY <1>2 DEF Entry
<1>4. Divided(h) \in [1..BlockCount[h] -> Entry]
  BY <1>3 DEF Divided
<1>5. Divided(h) \in Seq(Entry)
  BY <1>1, <1>4
<1> QED BY <1>5 DEF Lists, Divided

\* What broadcast() sends under an index above 0 is that block.
LEMMA BroadcastIntact ==
  ASSUME network \in Networks, NEW n \in Peers, NEW c, NEW s, ListsOf(c), ListsOf(s),
         NEW bs \in SUBSET Blocks, NEW m \in Broadcast(n, c, s, bs)
  PROVE  Intact(m) /\ m.to \in DOMAIN network.reach
<1>1. Peers \subseteq Nodes /\ Reach(n) \subseteq Peers
  BY DEF Peers, Reach
<1>2. PICK b \in bs :
        \E r \in Reach(n), x \in Sources(c, s, b) :
          m = [kind |-> "response", from |-> n, to |-> r, ref |-> b, bytes |-> x]
  BY DEF Broadcast
<1>3. PICK r \in Reach(n), x \in Sources(c, s, b) :
        m = [kind |-> "response", from |-> n, to |-> r, ref |-> b, bytes |-> x]
  BY <1>2
<1>4. b \in Blocks /\ b[1] \in Hashes /\ b[2] \in Nat /\ b = <<b[1], b[2]>>
  BY BlockParts
<1>5. c[b[1]] \in Lists(b[1]) /\ s[b[1]] \in Lists(b[1])
  BY <1>4 DEF ListsOf
<1>6. x \in Blocks /\ (b[2] > 0 => x = b)
  BY <1>3, <1>4, <1>5, FoundIntact DEF Sources
<1>7. m \in Response
  BY <1>1, <1>3, <1>4, <1>6 DEF Response
<1> QED BY <1>1, <1>3, <1>6, <1>7 DEF Intact, Peers
-----------------------------------------------------------------------------
(* Steps *)

LEMMA InitHeld == Init => HeldIntact
<1> SUFFICES ASSUME Init PROVE HeldIntact
  OBVIOUS
<1>1. ListsOf(Nothing)
  <2>1. \A h \in Hashes : << >> \in Lists(h)
    BY DEF Lists
  <2> QED BY <2>1 DEF ListsOf, Nothing
<1> QED BY <1>1 DEF Init, HeldIntact

\* Asking and forwarding send requests only.
LEMMA AskedRequests ==
  ASSUME NEW n, NEW requests, NEW m \in Asked(n, requests)
  PROVE  m.kind = "request"
BY DEF Asked

LEMMA NextHeld == HeldIntact /\ [Next]_vars => HeldIntact'
<1> SUFFICES ASSUME HeldIntact, [Next]_vars PROVE HeldIntact'
  OBVIOUS
<1>0. Peers \subseteq Nodes
  BY DEF HeldIntact, Peers
<1>1. ASSUME NEW h \in Hashes, Publish(h) PROVE HeldIntact'
  <2> DEFINE n == Publisher[h]
  <2>1. CASE UNCHANGED <<network, cache, store, schedule, net>>
    BY <2>1 DEF HeldIntact
  <2>2. CASE /\ cache' = [cache EXCEPT ![n][h] = Divided(h)]
             /\ UNCHANGED <<network, store, schedule, net>>
    <3>1. n \in Nodes
      OBVIOUS
    <3>2. ListsOf([cache[n] EXCEPT ![h] = Divided(h)])
      BY <3>1, DividedLists DEF HeldIntact, ListsOf
    <3>3. /\ cache' = [k \in Nodes |-> cache'[k]]
          /\ \A k \in Nodes : ListsOf(cache'[k])
      BY <2>2, <3>1, <3>2 DEF HeldIntact
    <3> QED BY <2>2, <3>3 DEF HeldIntact
  <2> QED BY <1>1, <2>1, <2>2 DEF Publish, Stop
<1>2. ASSUME NEW n \in Peers, NEW h \in Hashes, NEW ttl, NEW keep, Ask(n, h, ttl, keep)
      PROVE  HeldIntact'
  <2>1. /\ UNCHANGED <<network, cache, store>>
        /\ net' = net \cup Asked(n, AllBlocks(h, ttl))
        /\ schedule' = [schedule EXCEPT ![n] = @ \cup Had(n, AllBlocks(h, ttl))]
    BY <1>2 DEF Ask
  <2>2. schedule' \in [Nodes -> SUBSET Blocks]
    BY <2>1 DEF HeldIntact, Had
  <2>3. \A m \in net' : m.kind = "response" => Intact(m) /\ m.to \in DOMAIN network.reach
    BY <2>1, AskedRequests DEF HeldIntact
  <2> QED BY <2>1, <2>2, <2>3 DEF HeldIntact
<1>3. ASSUME NEW n \in Peers, Schedule(n) PROVE HeldIntact'
  <2> DEFINE ready == schedule[n] \cup Had(n, Forwardable(n))
  <2>1. PICK sent \in SUBSET ready :
          /\ UNCHANGED <<network, cache, store>>
          /\ schedule' = [schedule EXCEPT ![n] = ready \ sent]
          /\ net' = net \cup Asked(n, Forwardable(n))
                        \cup Broadcast(n, cache[n], store[n], sent)
    BY <1>3 DEF Schedule
  <2>2. ready \subseteq Blocks
    BY <1>0 DEF HeldIntact, Had
  <2>3. schedule' \in [Nodes -> SUBSET Blocks]
    BY <2>1, <2>2 DEF HeldIntact
  <2>4. \A m \in Broadcast(n, cache[n], store[n], sent) : Intact(m) /\ m.to \in DOMAIN network.reach
    BY <1>0, <2>1, <2>2, BroadcastIntact DEF HeldIntact
  <2>5. \A m \in net' : m.kind = "response" => Intact(m) /\ m.to \in DOMAIN network.reach
    BY <2>1, <2>4, AskedRequests DEF HeldIntact
  <2> QED BY <2>1, <2>3, <2>5 DEF HeldIntact
<1>4. ASSUME NEW m \in net, ReceiveRequest(m) \/ Lose(m) PROVE HeldIntact'
  BY <1>4 DEF ReceiveRequest, Lose, HeldIntact
<1>5. ASSUME NEW m \in net, ReceiveResponse(m) PROVE HeldIntact'
  <2> DEFINE n == m.to
             h == m.ref[1]
             c == [cache[n] EXCEPT ![h] = CacheAfter(m)]
             s == [store[n] EXCEPT ![h] = StoreAfter(m)]
  <2>0. n \in Peers
    BY <1>5 DEF ReceiveResponse, HeldIntact, Peers
  <2>1. m \in Response /\ n \in Nodes /\ m.ref \in Blocks /\ m.bytes \in Blocks /\ h \in Hashes
    <3>1. m \in Response
      BY <1>5 DEF ReceiveResponse, HeldIntact, Intact
    <3>2. n \in Nodes /\ m.ref \in Blocks /\ m.bytes \in Blocks
      BY <3>1 DEF Response
    <3> QED BY <3>1, <3>2, BlockParts
  <2>2. ListsOf(cache[n]) /\ ListsOf(store[n])
    BY <2>1 DEF HeldIntact
  <2>3. CacheAfter(m) \in Lists(h) /\ StoreAfter(m) \in Lists(h)
    BY <2>1, <2>2, WithBlockLists DEF ListsOf, CacheAfter, StoreAfter
  <2>4. ListsOf(c) /\ ListsOf(s)
    BY <2>1, <2>2, <2>3 DEF ListsOf
  <2>5. /\ cache' = [cache EXCEPT ![n] = c]
        /\ store' = [store EXCEPT ![n] = s]
        /\ schedule' = [schedule EXCEPT ![n] = @ \cup {m.ref}]
        /\ net' = (net \ {m}) \cup
                    IF Awaited(n, m.ref) THEN Broadcast(n, c, s, {m.ref}) ELSE {}
        /\ UNCHANGED network
    BY <1>5 DEF ReceiveResponse
  <2> HIDE DEF c, s
  <2>6. /\ cache' = [k \in Nodes |-> cache'[k]] /\ store' = [k \in Nodes |-> store'[k]]
        /\ \A k \in Nodes : ListsOf(cache'[k]) /\ ListsOf(store'[k])
    BY <2>1, <2>4, <2>5 DEF HeldIntact
  <2>7. schedule' \in [Nodes -> SUBSET Blocks]
    BY <2>1, <2>5 DEF HeldIntact
  <2>8. \A x \in Broadcast(n, c, s, {m.ref}) : Intact(x) /\ x.to \in DOMAIN network.reach
    BY <2>0, <2>1, <2>4, BroadcastIntact DEF HeldIntact
  <2>9. \A x \in net' : x.kind = "response" => Intact(x) /\ x.to \in DOMAIN network.reach
    BY <2>5, <2>8 DEF HeldIntact
  <2> QED BY <2>5, <2>6, <2>7, <2>9 DEF HeldIntact
<1>6. ASSUME UNCHANGED <<network, cache, store, schedule, net>> PROVE HeldIntact'
  BY <1>6 DEF HeldIntact
<1> QED
  BY <1>1, <1>2, <1>3, <1>4, <1>5, <1>6
     DEF Next, AutoFetch, BehaveRequest, ScheduleHangs, CheckPendingRequests,
         ResponseAborts, Stop, Tick, vars

-----------------------------------------------------------------------------
(* The first block of a content *)

\* A list of content h that has the first block at the front if at all, and that finds
\* something under index 0 unless it is empty.
Single(h) ==
  {list \in Seq(Entry) :
     /\ \A k \in DOMAIN list : list[k].block = <<h, 0>> => k = 1
     /\ list # << >> => list[1].index = 0}

FirstHeld ==
  \A n \in Nodes, h \in Hashes : cache[n][h] \in Single(h) /\ store[n][h] \in Single(h)

\* What is received comes behind others only if it is asked for under an index above 0,
\* as find() takes whatever is at the front for the first block.
LEMMA WithBlockSingle ==
  ASSUME NEW h \in Hashes, NEW list \in Single(h), NEW ref \in Blocks, NEW bytes \in Blocks,
         ref[2] > 0 => bytes = ref
  PROVE  WithBlock(list, ref, bytes) \in Single(h)
<1> DEFINE e == [index |-> 0, block |-> bytes]
<1>1. list \in Seq(Entry) /\ e \in Entry /\ e.index = 0 /\ e.block = bytes
  BY DEF Single, Entry
<1>2. ref = <<ref[1], ref[2]>> /\ ref[2] \in Nat
  BY BlockParts
<1> HIDE DEF e
<1>3. CASE Finds(list, ref[2])
  BY <1>3 DEF WithBlock
<1>4. CASE ~Finds(list, ref[2])
  <2> DEFINE t == Append(list, e)
  <2>1. /\ t \in Seq(Entry) /\ Len(list) \in Nat
        /\ DOMAIN t = 1..Len(list) + 1 /\ DOMAIN list = 1..Len(list)
        /\ t[Len(list) + 1] = e
        /\ \A k \in 1..Len(list) : t[k] = list[k]
    BY <1>1
  <2>2. list = << >> \/ (Len(list) >= 1 /\ ref[2] > 0)
    <3> SUFFICES ASSUME list # << >> PROVE Len(list) >= 1 /\ ref[2] > 0
      OBVIOUS
    <3>1. Len(list) >= 1
      BY <1>1
    <3>2. 1 \in Matches(list, 0)
      BY <2>1, <3>1 DEF Matches, Single
    <3> QED BY <1>2, <1>4, <3>1, <3>2 DEF Finds
  <2> HIDE DEF t
  <2>3. t[1].index = 0
    BY <1>1, <2>1, <2>2 DEF Single
  <2>4. ASSUME NEW k \in DOMAIN t, t[k].block = <<h, 0>> PROVE k = 1
    <3>1. CASE k = Len(list) + 1
      <4>1. bytes = <<h, 0>>
        BY <1>1, <2>1, <2>4, <3>1
      <4>2. ~(ref[2] > 0)
        BY <1>2, <4>1
      <4> QED BY <2>2, <3>1, <4>2
    <3>2. CASE k \in 1..Len(list)
      BY <2>1, <2>4, <3>2 DEF Single
    <3> QED BY <2>1, <3>1, <3>2
  <2>5. t \in Single(h)
    BY <2>1, <2>3, <2>4 DEF Single
  <2> QED BY <1>4, <2>5 DEF WithBlock, t, e
<1> QED BY <1>3, <1>4

LEMMA DividedSingle == \A h \in Hashes : Divided(h) \in Single(h)
<1> SUFFICES ASSUME NEW h \in Hashes PROVE Divided(h) \in Single(h)
  OBVIOUS
<1>1. BlockCount[h] \in Nat \ {0}
  BY BlockAssumption
<1>2. Divided(h) \in Seq(Entry)
  BY DividedLists DEF Lists
<1>3. /\ DOMAIN Divided(h) = 1..BlockCount[h]
      /\ \A k \in 1..BlockCount[h] : /\ Divided(h)[k].index = k - 1
                                     /\ Divided(h)[k].block = <<h, k - 1>>
  BY DEF Divided
<1>4. \A k \in DOMAIN Divided(h) : Divided(h)[k].block = <<h, 0>> => k = 1
  BY <1>1, <1>3
<1>5. Divided(h)[1].index = 0
  BY <1>1, <1>3
<1> QED BY <1>2, <1>4, <1>5 DEF Single

LEMMA InitFirst == Init => FirstHeld
<1>1. \A h \in Hashes : << >> \in Single(h)
  BY DEF Single
<1> QED BY <1>1 DEF Init, Nothing, FirstHeld

LEMMA NextFirst == HeldIntact /\ FirstHeld /\ [Next]_vars => FirstHeld'
<1> SUFFICES ASSUME HeldIntact, FirstHeld, [Next]_vars PROVE FirstHeld'
  OBVIOUS
<1>1. ASSUME UNCHANGED <<cache, store>> PROVE FirstHeld'
  BY <1>1 DEF FirstHeld
<1>2. ASSUME NEW h \in Hashes, Publish(h) PROVE FirstHeld'
  <2>1. CASE UNCHANGED <<cache, store>>
    BY <2>1, <1>1
  <2>2. CASE cache' = [cache EXCEPT ![Publisher[h]][h] = Divided(h)] /\ UNCHANGED store
    <3>1. \A n \in Nodes, g \in Hashes : cache'[n][g] \in {cache[n][g]} \/
                                         (g = h /\ cache'[n][g] = Divided(h))
      BY <2>2 DEF HeldIntact, ListsOf
    <3> QED BY <2>2, <3>1, DividedSingle DEF FirstHeld
  <2> QED BY <1>2, <2>1, <2>2 DEF Publish, Stop
<1>3. ASSUME NEW m \in net, ReceiveResponse(m) PROVE FirstHeld'
  <2> DEFINE n == m.to
             h == m.ref[1]
  <2>1. Intact(m) /\ n \in Nodes /\ m.ref \in Blocks /\ m.bytes \in Blocks /\ h \in Hashes
    <3>1. Intact(m)
      BY <1>3 DEF ReceiveResponse, HeldIntact
    <3>2. n \in Nodes /\ m.ref \in Blocks /\ m.bytes \in Blocks
      BY <3>1 DEF Intact, Response
    <3> QED BY <3>1, <3>2, BlockParts
  <2>2. cache[n][h] \in Single(h) /\ store[n][h] \in Single(h)
    BY <2>1 DEF FirstHeld
  <2>3. CacheAfter(m) \in Single(h) /\ StoreAfter(m) \in Single(h)
    BY <2>1, <2>2, WithBlockSingle DEF CacheAfter, StoreAfter, Intact
  <2>4. /\ cache' = [cache EXCEPT ![n] = [cache[n] EXCEPT ![h] = CacheAfter(m)]]
        /\ store' = [store EXCEPT ![n] = [store[n] EXCEPT ![h] = StoreAfter(m)]]
    BY <1>3 DEF ReceiveResponse
  <2> DEFINE c == CacheAfter(m)
             s == StoreAfter(m)
  <2> HIDE DEF c, s
  <2>5. \A k \in Nodes, g \in Hashes :
          /\ cache'[k][g] = cache[k][g] \/ (g = h /\ cache'[k][g] = c)
          /\ store'[k][g] = store[k][g] \/ (g = h /\ store'[k][g] = s)
    BY <2>1, <2>4 DEF HeldIntact, ListsOf, c, s
  <2> QED BY <2>3, <2>5 DEF FirstHeld, c, s
<1> QED
  BY <1>1, <1>2, <1>3
     DEF Next, AutoFetch, BehaveRequest, Ask, Schedule, ScheduleHangs, CheckPendingRequests,
         ReceiveRequest, ResponseAborts, Lose, Stop, Tick, vars

-----------------------------------------------------------------------------
(* Pending requests *)

\* An entry of the prt, whatever its expiry.
IsPending(p) == p = [left |-> p.left, keep |-> p.keep] /\ p.keep \in BOOLEAN

Tables ==
  /\ prt = [n \in Nodes |-> prt[n]]
  /\ \A n \in Nodes : \A b \in DOMAIN prt[n] : IsPending(prt[n][b])

\* request() leaves entries pending and does not take back a wish to keep a block.
LEMMA PrtAfterKeeps ==
  ASSUME NEW n \in Nodes, NEW requests, NEW keep \in BOOLEAN, Tables,
         NEW a \in DOMAIN PrtAfter(n, requests, keep)
  PROVE  /\ IsPending(PrtAfter(n, requests, keep)[a])
         /\ a \in DOMAIN prt[n] /\ prt[n][a].keep => PrtAfter(n, requests, keep)[a].keep
<1> DEFINE table == Unserved(n, requests)
           asked == {requests[k].block : k \in DOMAIN requests} \ Had(n, requests)
           left(b) == Latest(table, requests, b)
           kept(b) == \/ keep /\ b \in asked
                      \/ b \in DOMAIN table /\ table[b].keep
<1>1. DOMAIN table = DOMAIN prt[n] \ Had(n, requests) /\ \A c \in DOMAIN table : table[c] = prt[n][c]
  BY DEF Unserved, Restrict
<1>2. PrtAfter(n, requests, keep)
        = [b \in DOMAIN table \cup asked |-> [left |-> left(b), keep |-> kept(b)]]
  BY Zenon DEF PrtAfter
<1>3. a \in DOMAIN table \cup asked
  BY <1>2
<1>4. a \in DOMAIN prt[n] => a \in DOMAIN table
  BY <1>1, <1>3
<1>5. kept(a) \in BOOLEAN /\ (a \in DOMAIN prt[n] /\ prt[n][a].keep => kept(a))
  BY <1>1, <1>4
<1> HIDE DEF left, kept, table, asked
<1>6. PrtAfter(n, requests, keep)[a] = [left |-> left(a), keep |-> kept(a)]
  BY <1>2, <1>3
<1> QED BY <1>5, <1>6 DEF IsPending

\* No step forgets a wish to keep a block, and entries stay entries.
LEMMA NextTables ==
  HeldIntact /\ Tables /\ [Next]_vars
    => Tables' /\ \A n \in Nodes : \A b \in DOMAIN prt[n] \cap DOMAIN prt'[n] :
                    prt[n][b].keep => prt'[n][b].keep
<1> SUFFICES ASSUME HeldIntact, Tables, [Next]_vars
             PROVE  /\ prt' = [n \in Nodes |-> prt'[n]]
                    /\ \A n \in Nodes : \A b \in DOMAIN prt'[n] :
                         /\ IsPending(prt'[n][b])
                         /\ b \in DOMAIN prt[n] /\ prt[n][b].keep => prt'[n][b].keep
  BY DEF Tables, IsPending
<1> DEFINE Goal == /\ prt' = [n \in Nodes |-> prt'[n]]
                   /\ \A n \in Nodes : \A b \in DOMAIN prt'[n] :
                        /\ IsPending(prt'[n][b])
                        /\ b \in DOMAIN prt[n] /\ prt[n][b].keep => prt'[n][b].keep
<1>0. Peers \subseteq Nodes
  BY DEF HeldIntact, Peers
<1>1. ASSUME NEW n \in Peers, NEW requests, NEW keep \in BOOLEAN,
             prt' = [prt EXCEPT ![n] = PrtAfter(n, requests, keep)]
      PROVE  Goal
  <2> DEFINE after == PrtAfter(n, requests, keep)
  <2>1. \A b \in DOMAIN after : /\ IsPending(after[b])
                                /\ b \in DOMAIN prt[n] /\ prt[n][b].keep => after[b].keep
    BY <1>0, PrtAfterKeeps
  <2> HIDE DEF after
  <2>2. prt' = [prt EXCEPT ![n] = after]
    BY <1>1 DEF after
  <2> QED BY <1>0, <2>1, <2>2 DEF Tables
<1>2. ASSUME NEW n \in Peers, CheckPendingRequests(n) PROVE Goal
  <2> DEFINE t == Restrict(prt[n], {b \in DOMAIN prt[n] : prt[n][b].left > 0})
  <2>1. \A b \in DOMAIN t : b \in DOMAIN prt[n] /\ t[b] = prt[n][b]
    BY DEF Restrict
  <2> HIDE DEF t
  <2>2. prt' = [prt EXCEPT ![n] = t]
    BY <1>0, <1>2 DEF CheckPendingRequests, Tables, t
  <2> QED BY <1>0, <2>1, <2>2 DEF Tables
<1>3. ASSUME Tick PROVE Goal
  <2>1. prt' = [n \in Nodes |-> [b \in DOMAIN prt[n] |-> [prt[n][b] EXCEPT !.left = @ - 1]]]
    BY <1>3 DEF Tick
  <2>2. \A p : IsPending(p) => /\ IsPending([p EXCEPT !.left = @ - 1])
                               /\ [p EXCEPT !.left = @ - 1].keep = p.keep
    BY DEF IsPending
  <2> QED BY <2>1, <2>2 DEF Tables
<1>4. ASSUME UNCHANGED prt PROVE Goal
  BY <1>4 DEF Tables
<1>5. \A n, h : AutoFetch(n, h) => prt' = [prt EXCEPT ![n] = PrtAfter(n, AllBlocks(h, FetchTTL), TRUE)]
  BY DEF AutoFetch, Ask
<1>6. \A n, h : BehaveRequest(n, h) => prt' = [prt EXCEPT ![n] = PrtAfter(n, AllBlocks(h, BehaveTTL), FALSE)]
  BY DEF BehaveRequest, Ask
<1>7. \A n : Schedule(n) => prt' = [prt EXCEPT ![n] = PrtAfter(n, Forwardable(n), FALSE)]
  BY DEF Schedule
<1>8. \A h : Publish(h) => UNCHANGED prt
  BY DEF Publish, Stop
<1>9. \A m : ReceiveRequest(m) \/ ReceiveResponse(m) \/ ResponseAborts(m) \/ Lose(m) => UNCHANGED prt
  BY DEF ReceiveRequest, ReceiveResponse, ResponseAborts, Lose, Stop
<1>10. \A n : ScheduleHangs(n) => UNCHANGED prt
  BY DEF ScheduleHangs, Stop
<1>11. UNCHANGED vars => UNCHANGED prt
  BY DEF vars
<1> HIDE DEF Goal
<1>12. Goal
  BY <1>1, <1>2, <1>3, <1>4, <1>5, <1>6, <1>7, <1>8, <1>9, <1>10, <1>11 DEF Next
<1> QED BY <1>12 DEF Goal

-----------------------------------------------------------------------------
(* Expiries: what a request changes in the pending requests and their checks *)

LEMMA TTLs ==
  /\ MaxTTL \in Nat \ {0} /\ FetchTTL \in Nat \ {0} /\ BehaveTTL \in Nat \ {0}
  /\ FetchTTL <= MaxTTL /\ BehaveTTL <= MaxTTL
<1>1. MaxTTL = IF FetchTTL >= BehaveTTL THEN FetchTTL ELSE BehaveTTL
  BY MaxOfTwo DEF MaxTTL
<1> QED BY <1>1

LEMMA WantedFields ==
  ASSUME NEW r \in Wanted
  PROVE  r.block \in Blocks /\ r.left \in -1..MaxTTL /\ r.left \in Int
BY TTLs DEF Wanted

\* What a request asks for, and what it asks others for.
LEMMA RequestEntries ==
  ASSUME NEW requests \in Seq(Wanted)
  PROVE  \A k \in DOMAIN requests : requests[k] \in Wanted /\ requests[k].block \in Blocks
BY WantedFields

LEMMA OpenIs ==
  ASSUME NEW n, NEW requests \in Seq(Wanted)
  PROVE  /\ Open(n, requests) \in Seq(Wanted)
         /\ \A k \in DOMAIN Open(n, requests) :
              \E j \in DOMAIN requests : requests[j] = Open(n, requests)[k]
         /\ \A j \in DOMAIN requests :
              requests[j].block \notin Had(n, requests) =>
                \E k \in DOMAIN Open(n, requests) : Open(n, requests)[k] = requests[j]
<1> DEFINE S == {r \in ToSet(requests) : r.block \notin Had(n, requests)}
           q == Open(n, requests)
<1>1. q = Only(requests, S)
  BY DEF Open
<1>2. ToSet(requests) = Range(requests)
  BY DEF ToSet, Range
<1>3. \A r : r \in S <=> r \in Range(requests) /\ r.block \notin Had(n, requests)
  BY <1>2
<1> HIDE DEF S, q
<1>4. q \in Seq(Wanted) /\ Range(q) = Range(requests) \cap S
  BY <1>1, OnlyKeeps
<1>5. \A k \in DOMAIN q : q[k] \in Range(requests)
  BY <1>4 DEF Range
<1>6. \A j \in DOMAIN requests : requests[j].block \notin Had(n, requests) => requests[j] \in Range(q)
  BY <1>3, <1>4 DEF Range
<1>7. \A k \in DOMAIN q : \E j \in DOMAIN requests : requests[j] = q[k]
  BY <1>5 DEF Range
<1>8. \A j \in DOMAIN requests :
        requests[j].block \notin Had(n, requests) => \E k \in DOMAIN q : q[k] = requests[j]
  BY <1>6 DEF Range
<1> QED BY <1>4, <1>7, <1>8 DEF q

\* The latest of the expiries asked for, now or before.
IsLatest(l, table, requests, b) ==
  /\ b \in DOMAIN table => table[b].left <= l
  /\ \A k \in DOMAIN requests : requests[k].block = b => requests[k].left <= l
  /\ \/ b \in DOMAIN table /\ l = table[b].left
     \/ \E k \in DOMAIN requests : requests[k].block = b /\ l = requests[k].left

LEMMA LatestIs ==
  ASSUME NEW requests \in Seq(Wanted), NEW table, NEW b,
         b \in DOMAIN table => table[b] \in Pending,
         b \in DOMAIN table \/ \E k \in DOMAIN requests : requests[k].block = b
  PROVE  IsLatest(Latest(table, requests, b), table, requests, b)
<1> DEFINE K == {j \in DOMAIN requests : requests[j].block = b}
           L == {requests[k].left : k \in K} \cup {table[c].left : c \in DOMAIN table \cap {b}}
<1>1. Latest(table, requests, b) = Max(L)
  BY DEF Latest
<1>2. \A k \in DOMAIN requests : requests[k].left \in -1..MaxTTL
  BY WantedFields
<1>3. b \in DOMAIN table => table[b].left \in 0..MaxTTL
  BY DEF Pending
<1>4. \A v \in L : v \in Int /\ v <= MaxTTL
  BY <1>2, <1>3, TTLs
<1>5. L # {}
  <2>1. CASE b \in DOMAIN table
    <3>1. table[b].left \in L
      BY <2>1
    <3> QED BY <3>1
  <2>2. ASSUME NEW k \in DOMAIN requests, requests[k].block = b PROVE L # {}
    <3>1. requests[k].left \in L
      BY <2>2
    <3> QED BY <3>1
  <2> QED BY <2>1, <2>2
<1>6. \A v \in L : \/ b \in DOMAIN table /\ v = table[b].left
                   \/ \E k \in DOMAIN requests : requests[k].block = b /\ v = requests[k].left
  OBVIOUS
<1>7. /\ b \in DOMAIN table => table[b].left \in L
      /\ \A k \in DOMAIN requests : requests[k].block = b => requests[k].left \in L
  OBVIOUS
<1> HIDE DEF L
<1>8. Max(L) \in L /\ \A v \in L : v <= Max(L)
  <2>1. L \in SUBSET Int /\ MaxTTL \in Int
    BY <1>4, TTLs
  <2> QED BY <2>1, <1>4, <1>5, MaxIs
<1> QED BY <1>1, <1>6, <1>7, <1>8 DEF IsLatest

Typed(table) == DOMAIN table \subseteq Blocks /\ table \in [DOMAIN table -> Pending]

\* After request() a block is pending that was pending or is asked for, unless it was
\* found, and until the latest expiry asked for.
LEMMA PrtAfterIs ==
  ASSUME NEW n \in Nodes, NEW requests \in Seq(Wanted), NEW keep \in BOOLEAN, Typed(prt[n]),
         \A k \in DOMAIN requests : requests[k].left >= 0,
         NEW a \in DOMAIN PrtAfter(n, requests, keep)
  PROVE  /\ a \in Blocks /\ a \notin Had(n, requests)
         /\ PrtAfter(n, requests, keep)[a] \in Pending
         /\ PrtAfter(n, requests, keep)[a].left = Latest(Unserved(n, requests), requests, a)
         /\ a \in DOMAIN prt[n] => prt[n][a].left <= PrtAfter(n, requests, keep)[a].left
         /\ \A k \in DOMAIN requests :
              requests[k].block = a => requests[k].left <= PrtAfter(n, requests, keep)[a].left
         /\ \/ a \in DOMAIN prt[n] /\ PrtAfter(n, requests, keep)[a].left = prt[n][a].left
            \/ \E k \in DOMAIN requests :
                 /\ requests[k].block = a
                 /\ PrtAfter(n, requests, keep)[a].left = requests[k].left
<1> DEFINE table == Unserved(n, requests)
           asked == {requests[k].block : k \in DOMAIN requests} \ Had(n, requests)
           left(b) == Latest(table, requests, b)
           kept(b) == \/ keep /\ b \in asked
                      \/ b \in DOMAIN table /\ table[b].keep
<1>1. DOMAIN table = DOMAIN prt[n] \ Had(n, requests) /\ \A c \in DOMAIN table : table[c] = prt[n][c]
  BY DEF Unserved, Restrict
<1>2. PrtAfter(n, requests, keep)
        = [b \in DOMAIN table \cup asked |-> [left |-> left(b), keep |-> kept(b)]]
  BY Zenon DEF PrtAfter
<1>3. a \in DOMAIN table \cup asked
  BY <1>2
<1>4. \A b \in DOMAIN prt[n] : b \in Blocks /\ prt[n][b] \in Pending
  BY DEF Typed
<1>5. a \in DOMAIN table => table[a] \in Pending /\ table[a].keep \in BOOLEAN /\ table[a].left \in 0..MaxTTL
  BY <1>1, <1>4 DEF Pending
<1>6. kept(a) \in BOOLEAN
  BY <1>5
<1>7. a \notin DOMAIN table => \E k \in DOMAIN requests : requests[k].block = a
  BY <1>3
<1>8. a \notin Had(n, requests) /\ a \in Blocks
  BY <1>1, <1>3, <1>4, RequestEntries
<1>9. /\ a \in DOMAIN table => table[a].left <= left(a)
      /\ \A k \in DOMAIN requests : requests[k].block = a => requests[k].left <= left(a)
      /\ \/ a \in DOMAIN table /\ left(a) = table[a].left
         \/ \E k \in DOMAIN requests : requests[k].block = a /\ left(a) = requests[k].left
  <2> HIDE DEF table
  <2>1. IsLatest(Latest(table, requests, a), table, requests, a)
    BY <1>5, <1>7, LatestIs
  <2>2. IsLatest(left(a), table, requests, a)
    BY <2>1
  <2> HIDE DEF left
  <2> QED BY ONLY <2>2 DEF IsLatest
<1>10. \A k \in DOMAIN requests : requests[k].left \in 0..MaxTTL
  <2>1. \A k \in DOMAIN requests : requests[k].left \in -1..MaxTTL
    BY WantedFields
  <2> QED BY <2>1, TTLs
<1>11. left(a) \in 0..MaxTTL
  <2> HIDE DEF left, table
  <2> QED BY <1>5, <1>9, <1>10
<1>12. PrtAfter(n, requests, keep)[a] = [left |-> left(a), keep |-> kept(a)]
  <2> HIDE DEF left, kept, table, asked
  <2> QED BY <1>2, <1>3
<1>13. a \in DOMAIN prt[n] => a \in DOMAIN table /\ table[a] = prt[n][a]
  BY <1>1, <1>8
<1>14. a \in DOMAIN table => a \in DOMAIN prt[n] /\ table[a] = prt[n][a]
  BY <1>1
<1> DEFINE after == PrtAfter(n, requests, keep)[a]
<1>15. after.left = Latest(table, requests, a)
  <2> HIDE DEF table, kept
  <2> QED BY <1>12
<1>16. after \in Pending /\ after.left = left(a)
  <2> HIDE DEF left, kept, after
  <2>1. after = [left |-> left(a), keep |-> kept(a)]
    BY <1>12 DEF after
  <2> QED BY <2>1, <1>6, <1>11 DEF Pending
<1> HIDE DEF after, left, table, asked, kept
<1>17. a \in DOMAIN prt[n] => prt[n][a].left <= after.left
  BY <1>9, <1>13, <1>16
<1>18. \/ a \in DOMAIN prt[n] /\ after.left = prt[n][a].left
       \/ \E k \in DOMAIN requests : requests[k].block = a /\ after.left = requests[k].left
  BY <1>9, <1>14, <1>16
<1>19. \A k \in DOMAIN requests : requests[k].block = a => requests[k].left <= after.left
  BY <1>9, <1>16
<1> QED BY <1>8, <1>15, <1>16, <1>17, <1>18, <1>19 DEF after, table

\* A check is due at that expiry: one that was, or that of the first request for it.
LEMMA ChecksAfterIs ==
  ASSUME NEW n \in Nodes, NEW requests \in Seq(Wanted), NEW keep \in BOOLEAN, Typed(prt[n]),
         \A k \in DOMAIN requests : requests[k].left >= 0,
         checks[n] \subseteq 0..MaxTTL,
         \A b \in DOMAIN prt[n] : prt[n][b].left \in checks[n]
  PROVE  /\ ChecksAfter(n, requests) \subseteq 0..MaxTTL
         /\ \A a \in DOMAIN PrtAfter(n, requests, keep) :
              PrtAfter(n, requests, keep)[a].left \in ChecksAfter(n, requests)
<1> DEFINE open  == Open(n, requests)
           table == Unserved(n, requests)
           firsts == {j \in DOMAIN open : Extends(table, open, j)}
<1>1. ChecksAfter(n, requests) = checks[n] \cup {open[k].left : k \in firsts}
  BY Zenon DEF ChecksAfter
<1>2. /\ open \in Seq(Wanted)
      /\ \A k \in DOMAIN open : \E j \in DOMAIN requests : requests[j] = open[k]
      /\ \A j \in DOMAIN requests :
           requests[j].block \notin Had(n, requests) => \E k \in DOMAIN open : open[k] = requests[j]
  BY OpenIs
<1>3. \A k \in DOMAIN open : open[k].left \in 0..MaxTTL
  <2>1. \A j \in DOMAIN requests : requests[j].left \in -1..MaxTTL
    BY WantedFields
  <2>2. \A j \in DOMAIN requests : requests[j].left \in 0..MaxTTL
    BY <2>1, TTLs
  <2> HIDE DEF open
  <2> QED BY <2>2, <1>2
<1>4. DOMAIN table = DOMAIN prt[n] \ Had(n, requests) /\ \A c \in DOMAIN table : table[c] = prt[n][c]
  BY DEF Unserved, Restrict
<1> HIDE DEF open, table
<1>5. ChecksAfter(n, requests) \subseteq 0..MaxTTL
  <2>1. {open[k].left : k \in firsts} \subseteq 0..MaxTTL
    BY <1>3
  <2> HIDE DEF firsts
  <2> QED BY <1>1, <2>1
<1>6. ASSUME NEW a \in DOMAIN PrtAfter(n, requests, keep)
      PROVE  PrtAfter(n, requests, keep)[a].left \in ChecksAfter(n, requests)
  <2> DEFINE v == PrtAfter(n, requests, keep)[a].left
  <2>1. /\ a \notin Had(n, requests)
        /\ PrtAfter(n, requests, keep)[a] \in Pending
        /\ a \in DOMAIN prt[n] => prt[n][a].left <= v
        /\ \A k \in DOMAIN requests : requests[k].block = a => requests[k].left <= v
        /\ \/ a \in DOMAIN prt[n] /\ v = prt[n][a].left
           \/ \E k \in DOMAIN requests : requests[k].block = a /\ v = requests[k].left
    BY PrtAfterIs
  <2>2. v \in Int
    <3>1. v \in 0..MaxTTL
      BY <2>1 DEF Pending
    <3> QED BY <3>1, TTLs
  <2> HIDE DEF v
  <2>3. CASE a \in DOMAIN prt[n] /\ v = prt[n][a].left
    BY <2>3, <1>1 DEF v
  <2>4. CASE ~(a \in DOMAIN prt[n] /\ v = prt[n][a].left)
    <3> DEFINE M == {k \in DOMAIN open : open[k].block = a /\ open[k].left = v}
    <3>1. PICK j \in DOMAIN requests : requests[j].block = a /\ v = requests[j].left
      BY <2>1, <2>4
    <3>2. PICK k0 \in DOMAIN open : open[k0] = requests[j]
      BY <3>1, <2>1, <1>2
    <3>3. M \in SUBSET Nat /\ M # {}
      <4>1. k0 \in M
        BY <3>1, <3>2
      <4>2. DOMAIN open \subseteq Nat
        BY <1>2
      <4> QED BY <4>1, <4>2
    <3>4. PICK k \in M : \A i \in M : k <= i
      <4> HIDE DEF M
      <4> QED BY <3>3, SmallestOfNats
    <3>5. k \in DOMAIN open /\ open[k].block = a /\ open[k].left = v
      OBVIOUS
    <3>6. a \in DOMAIN table => table[a].left < v
      <4>1. a \in DOMAIN table => a \in DOMAIN prt[n] /\ table[a] = prt[n][a]
        BY <1>4
      <4>2. a \in DOMAIN prt[n] => prt[n][a].left \in Int
        <5>1. a \in DOMAIN prt[n] => prt[n][a] \in Pending
          BY DEF Typed
        <5> QED BY <5>1, TTLs DEF Pending
      <4> QED BY <4>1, <4>2, <2>1, <2>2, <2>4
    <3>7. ASSUME NEW i \in 1..k - 1, open[i].block = a PROVE open[i].left < v
      <4>1. k \in 1..Len(open) /\ Len(open) \in Nat /\ DOMAIN open = 1..Len(open)
        BY <1>2, <3>5
      <4>2. i \in DOMAIN open /\ i < k /\ i \in Nat /\ k \in Nat
        BY <4>1
      <4>3. PICK l \in DOMAIN requests : requests[l] = open[i]
        BY <4>2, <1>2
      <4>4. open[i].left <= v /\ open[i].left \in Int
        BY <4>2, <4>3, <3>7, <2>1, <1>3, TTLs
      <4>5. open[i].left # v
        <5> SUFFICES ASSUME open[i].left = v PROVE FALSE
          OBVIOUS
        <5>1. i \in M
          BY <4>2, <3>7
        <5> HIDE DEF M
        <5> QED BY ONLY <5>1, <4>2, <3>4
      <4> QED BY <4>4, <4>5, <2>2
    <3>8. k \in firsts
      BY <3>5, <3>6, <3>7 DEF Extends
    <3>9. v \in {open[i].left : i \in firsts}
      <4> HIDE DEF firsts, M
      <4> QED BY <3>5, <3>8
    <3> HIDE DEF firsts
    <3> QED BY <1>1, <3>9 DEF v
  <2> QED BY <2>3, <2>4
<1> QED BY <1>5, <1>6

-----------------------------------------------------------------------------
(* The invariant of pending requests and of requests on their way *)

\* Nodes outside the network request nothing.
Idle == \A n \in Nodes \ Peers : DOMAIN prt[n] = {} /\ checks[n] = {}

PendingLapse == \A n \in Nodes : \A b \in DOMAIN prt[n] : prt[n][b].left <= lease[b]

Leases == lease \in [Blocks -> -1..MaxTTL]

PendingInv ==
  /\ prt = [n \in Nodes |-> prt[n]] /\ \A n \in Nodes : Typed(prt[n])
  /\ checks \in [Nodes -> SUBSET (0..MaxTTL)]
  /\ Leases /\ Idle /\ PendingWatched /\ PendingLapse

RequestFrame == [kind : {"request"}, from : Nodes, to : Nodes, requests : Seq(Wanted)]

Lapses(requests) == \A k \in DOMAIN requests : requests[k].left <= lease[requests[k].block]

QueueInv ==
  /\ Leases
  /\ queue \in [Nodes -> Seq(Wanted)] /\ \A n \in Nodes : Lapses(queue[n])
  /\ \A m \in net : m.kind = "request" => m \in RequestFrame /\ Lapses(m.requests)

\* Asking and forwarding: what request() does for one node.
LEMMA RequestPends ==
  ASSUME network \in Networks, UNCHANGED network, PendingInv, Leases',
         \A b \in Blocks : lease[b] <= lease'[b],
         NEW n \in Peers, NEW requests \in Seq(Wanted), NEW keep \in BOOLEAN,
         \A k \in DOMAIN requests :
           requests[k].left >= 0 /\ requests[k].left <= lease'[requests[k].block],
         prt' = [prt EXCEPT ![n] = PrtAfter(n, requests, keep)],
         checks' = [checks EXCEPT ![n] = ChecksAfter(n, requests)]
  PROVE  PendingInv'
<1> DEFINE after == PrtAfter(n, requests, keep)
           due   == ChecksAfter(n, requests)
<1>1. n \in Nodes /\ Peers \subseteq Nodes /\ Peers' = Peers
  BY DEF Peers
<1>2. Typed(prt[n]) /\ checks[n] \subseteq 0..MaxTTL /\ \A b \in DOMAIN prt[n] : prt[n][b].left \in checks[n]
  BY <1>1 DEF PendingInv, PendingWatched
<1>3. \A k \in DOMAIN requests : requests[k].left >= 0
  OBVIOUS
<1>4. due \subseteq 0..MaxTTL /\ \A a \in DOMAIN after : after[a].left \in due
  BY <1>1, <1>2, <1>3, ChecksAfterIs
<1>5. ASSUME NEW a \in DOMAIN after
      PROVE  /\ a \in Blocks /\ after[a] \in Pending
             /\ \/ a \in DOMAIN prt[n] /\ after[a].left = prt[n][a].left
                \/ \E k \in DOMAIN requests : requests[k].block = a /\ after[a].left = requests[k].left
  BY <1>1, <1>2, <1>3, <1>5, PrtAfterIs
<1>6. after = [a \in DOMAIN after |-> after[a]]
  BY Zenon DEF PrtAfter
<1> HIDE DEF after, due
<1>7. Typed(after)
  BY <1>5, <1>6 DEF Typed
<1>8. prt' = [prt EXCEPT ![n] = after] /\ checks' = [checks EXCEPT ![n] = due]
  BY DEF after, due
<1>9. /\ prt' = [k \in Nodes |-> prt'[k]]
      /\ prt'[n] = after /\ checks'[n] = due
      /\ \A k \in Nodes : k # n => prt'[k] = prt[k] /\ checks'[k] = checks[k]
  BY <1>1, <1>8 DEF PendingInv
<1>10. checks' \in [Nodes -> SUBSET (0..MaxTTL)]
  <2> DEFINE D == SUBSET (0..MaxTTL)
  <2>1. checks \in [Nodes -> D] /\ due \in D
    BY <1>4 DEF PendingInv
  <2>2. checks' = [checks EXCEPT ![n] = due]
    BY <1>8
  <2> HIDE DEF D
  <2>3. checks' \in [Nodes -> D]
    BY ONLY <2>1, <2>2
  <2> QED BY <2>3 DEF D
<1>11. \A k \in Nodes : Typed(prt'[k])
  BY <1>7, <1>9 DEF PendingInv
<1>12. Idle'
  BY <1>1, <1>9 DEF PendingInv, Idle
<1>13. PendingWatched'
  BY <1>4, <1>9 DEF PendingInv, PendingWatched
<1>14. PendingLapse'
  <2>1. ASSUME NEW a \in DOMAIN after PROVE after[a].left <= lease'[a]
    <3>1. CASE a \in DOMAIN prt[n] /\ after[a].left = prt[n][a].left
      <4>1. prt[n][a].left <= lease[a] /\ a \in Blocks
        BY <3>1, <1>1, <1>5 DEF PendingInv, PendingLapse
      <4>2. prt[n][a].left \in Int /\ lease[a] \in Int /\ lease'[a] \in Int
        <5>1. prt[n][a].left \in 0..MaxTTL
          BY <3>1, <1>2 DEF Typed, Pending
        <5>2. lease[a] \in -1..MaxTTL /\ lease'[a] \in -1..MaxTTL
          BY <4>1 DEF PendingInv, Leases
        <5> QED BY <5>1, <5>2, TTLs
      <4> QED BY <3>1, <4>1, <4>2
    <3>2. CASE \E k \in DOMAIN requests : requests[k].block = a /\ after[a].left = requests[k].left
      BY <3>2
    <3> QED BY <3>1, <3>2, <1>5
  <2>2. ASSUME NEW k \in Nodes, k # n, NEW a \in DOMAIN prt[k] PROVE prt[k][a].left <= lease'[a]
    <3>1. prt[k][a].left <= lease[a] /\ a \in Blocks /\ prt[k][a].left \in 0..MaxTTL
      BY <2>2 DEF PendingInv, PendingLapse, Typed, Pending
    <3>2. lease[a] \in -1..MaxTTL /\ lease'[a] \in -1..MaxTTL
      BY <3>1 DEF PendingInv, Leases
    <3> QED BY <3>1, <3>2, TTLs
  <2> QED BY <2>1, <2>2, <1>9 DEF PendingLapse
<1> QED BY <1>9, <1>10, <1>11, <1>12, <1>13, <1>14 DEF PendingInv

LEMMA AllBlocksAre ==
  ASSUME NEW h \in Hashes, NEW ttl \in 1..MaxTTL
  PROVE  /\ AllBlocks(h, ttl) \in Seq(Wanted)
         /\ \A k \in DOMAIN AllBlocks(h, ttl) :
              /\ AllBlocks(h, ttl)[k].block \in Blocks /\ AllBlocks(h, ttl)[k].block[1] = h
              /\ AllBlocks(h, ttl)[k].left = ttl
<1> DEFINE n == BlockCount[h]
           q == AllBlocks(h, ttl)
<1>1. n \in Nat
  BY BlockAssumption
<1>2. \A k \in 1..n : <<h, k - 1>> \in Blocks
  BY <1>1 DEF Blocks, BlocksOf
<1>3. ttl \in -1..MaxTTL
  BY TTLs
<1>4. q = [k \in 1..n |-> [block |-> <<h, k - 1>>, left |-> ttl]]
  BY DEF AllBlocks
<1>5. \A k \in 1..n : [block |-> <<h, k - 1>>, left |-> ttl] \in Wanted
  BY <1>2, <1>3 DEF Wanted
<1>6. DOMAIN q = 1..n /\ \A k \in 1..n : /\ q[k] \in Wanted /\ q[k].block = <<h, k - 1>>
                                         /\ q[k].left = ttl
  BY <1>4, <1>5
<1>7. q \in Seq(Wanted)
  <2> HIDE DEF q
  <2> QED BY <1>1, <1>4, <1>5, IsASeq
<1> HIDE DEF q
<1>8. \A k \in 1..n : q[k].block \in Blocks /\ q[k].block[1] = h /\ q[k].left = ttl
  <2> SUFFICES ASSUME NEW k \in 1..n
               PROVE  q[k].block \in Blocks /\ q[k].block[1] = h /\ q[k].left = ttl
    OBVIOUS
  <2>1. q[k].block = <<h, k - 1>> /\ q[k].left = ttl
    BY <1>6
  <2>2. <<h, k - 1>>[1] = h
    OBVIOUS
  <2> QED BY <2>1, <2>2, <1>2
<1> QED BY <1>6, <1>7, <1>8 DEF q

\* A user's request is the latest from now on.
LEMMA AskLeases ==
  ASSUME Leases, NEW h \in Hashes, NEW ttl \in 1..MaxTTL,
         lease' = [b \in Blocks |-> IF b[1] = h THEN Max({lease[b], ttl}) ELSE lease[b]]
  PROVE  Leases' /\ \A b \in Blocks : lease[b] <= lease'[b] /\ (b[1] = h => ttl <= lease'[b])
<1>1. ASSUME NEW b \in Blocks
      PROVE  /\ lease'[b] \in -1..MaxTTL
             /\ lease[b] <= lease'[b] /\ (b[1] = h => ttl <= lease'[b])
  <2>1. lease[b] \in -1..MaxTTL /\ lease[b] \in Int /\ ttl \in Int
    BY TTLs DEF Leases
  <2>2. Max({lease[b], ttl}) = IF lease[b] >= ttl THEN lease[b] ELSE ttl
    BY <2>1, MaxOfTwo
  <2>3. lease'[b] = IF b[1] = h THEN Max({lease[b], ttl}) ELSE lease[b]
    OBVIOUS
  <2> HIDE DEF Leases
  <2> QED BY <2>1, <2>2, <2>3, TTLs
<1>2. lease' = [b \in Blocks |-> lease'[b]]
  OBVIOUS
<1> QED BY <1>1, <1>2 DEF Leases

\* Only what has not expired is forwarded.
LEMMA ForwardableIs ==
  ASSUME NEW n \in Nodes, queue[n] \in Seq(Wanted)
  PROVE  /\ Forwardable(n) \in Seq(Wanted)
         /\ \A k \in DOMAIN Forwardable(n) :
              /\ Forwardable(n)[k].left >= 0
              /\ \E j \in DOMAIN queue[n] : queue[n][j] = Forwardable(n)[k]
         /\ SubSeq(queue[n], Min({Batch, Len(queue[n])}) + 1, Len(queue[n])) \in Seq(Wanted)
         /\ \A k \in DOMAIN SubSeq(queue[n], Min({Batch, Len(queue[n])}) + 1, Len(queue[n])) :
              \E j \in DOMAIN queue[n] :
                queue[n][j] = SubSeq(queue[n], Min({Batch, Len(queue[n])}) + 1, Len(queue[n]))[k]
<1> DEFINE q     == queue[n]
           c     == Min({Batch, Len(q)})
           first == SubSeq(q, 1, c)
           rest  == SubSeq(q, c + 1, Len(q))
           S     == {r \in ToSet(first) : r.left >= 0}
           fwd   == Forwardable(n)
<1>1. q \in Seq(Wanted) /\ Len(q) \in Nat /\ DOMAIN q = 1..Len(q)
  OBVIOUS
<1>2. c = IF Batch <= Len(q) THEN Batch ELSE Len(q)
  BY <1>1, MinOfTwo
<1>3. c \in 0..Len(q)
  BY <1>1, <1>2
<1>4. fwd = Only(first, S)
  BY DEF Forwardable
<1> HIDE DEF q, c
<1>5. first \in Seq(Wanted) /\ Len(first) = c /\ \A k \in 1..c : first[k] = q[k]
  BY <1>1, <1>3
<1>6. /\ rest \in Seq(Wanted) /\ Len(rest) = Len(q) - c
      /\ \A k \in 1..Len(q) - c : rest[k] = q[c + k]
  <2> DEFINE l == Len(q)
  <2>1. c + 1 \in 1..l + 1 /\ l \in 0..l /\ c \in Nat
    BY <1>1, <1>3
  <2>4. l \in Nat /\ l = Len(q)
    BY <1>1
  <2> HIDE DEF l
  <2>5. rest = SubSeq(q, c + 1, l)
    BY <2>4
  <2>6. SubSeq(q, c + 1, l) \in Seq(Wanted) /\ Len(SubSeq(q, c + 1, l)) = l - c
    BY ONLY <2>1, <2>4, <1>1, <1>3
  <2>2. rest \in Seq(Wanted) /\ Len(rest) = l - c
    BY <2>5, <2>6
  <2>3. \A k \in 1..l - c : rest[k] = q[c + k]
    BY <2>1, <2>4, <2>5, <1>1, <1>3
  <2> QED BY <2>2, <2>3, <2>4
<1> HIDE DEF first, rest
<1>7. DOMAIN first = 1..c /\ DOMAIN rest = 1..Len(q) - c
  BY <1>1, <1>3, <1>5, <1>6
<1>8. \A r \in Range(first) : \E j \in DOMAIN q : q[j] = r
  <2>1. \A k \in 1..c : k \in DOMAIN q
    BY <1>1, <1>3
  <2> QED BY <2>1, <1>5, <1>7 DEF Range
<1>9. \A k \in DOMAIN rest : \E j \in DOMAIN q : q[j] = rest[k]
  <2>1. \A k \in 1..Len(q) - c : c + k \in DOMAIN q
    BY <1>1, <1>3
  <2> QED BY <2>1, <1>6, <1>7
<1>10. \A r \in S : r.left >= 0
  OBVIOUS
<1> HIDE DEF S, fwd
<1>11. fwd \in Seq(Wanted) /\ Range(fwd) = Range(first) \cap S
  BY <1>4, <1>5, OnlyKeeps
<1>12. \A k \in DOMAIN fwd : fwd[k] \in Range(first) /\ fwd[k] \in S
  BY <1>11 DEF Range
<1>13. \A k \in DOMAIN fwd : fwd[k].left >= 0 /\ \E j \in DOMAIN q : q[j] = fwd[k]
  BY <1>8, <1>10, <1>12
<1> QED BY <1>6, <1>9, <1>11, <1>13 DEF q, c, rest, fwd

\* What is asked of others was asked for.
LEMMA AskedIs ==
  ASSUME network \in Networks, NEW n \in Peers, NEW requests \in Seq(Wanted),
         NEW m \in Asked(n, requests)
  PROVE  /\ m \in RequestFrame
         /\ \A k \in DOMAIN m.requests : \E j \in DOMAIN requests : requests[j] = m.requests[k]
<1> DEFINE open == Open(n, requests)
<1>1. /\ open \in Seq(Wanted)
      /\ \A k \in DOMAIN open : \E j \in DOMAIN requests : requests[j] = open[k]
  BY OpenIs
<1>2. Peers \subseteq Nodes /\ Reach(n) \subseteq Peers
  BY DEF Peers, Reach
<1>3. PICK r \in Reach(n) : m = [kind |-> "request", from |-> n, to |-> r, requests |-> open]
  BY DEF Asked
<1> HIDE DEF open
<1>4. m.requests = open
  BY <1>3
<1> QED BY <1>1, <1>2, <1>3, <1>4 DEF RequestFrame

LEMMA LaterIs ==
  /\ \A d \in -1..MaxTTL : Later(d) \in -1..MaxTTL /\ Later(d) >= d - 1
  /\ \A d, e \in -1..MaxTTL : d <= e => Later(d) <= Later(e)
<1>1. ASSUME NEW d \in Int PROVE Later(d) = IF d - 1 >= -1 THEN d - 1 ELSE -1
  BY MaxOfTwo DEF Later
<1> QED BY <1>1, TTLs

-----------------------------------------------------------------------------
(* Steps of the pending requests and of requests on their way *)

\* Nothing happens to pending requests.
LEMMA PendingKept ==
  ASSUME UNCHANGED <<network, prt, checks, lease>>, PendingInv
  PROVE  PendingInv'
BY DEF PendingInv, Typed, Leases, Idle, PendingWatched, PendingLapse, Peers

\* Nothing happens to queues, and no new request is sent.
LEMMA QueueKept ==
  ASSUME UNCHANGED <<queue, lease>>, QueueInv, \A m \in net' : m.kind = "request" => m \in net
  PROVE  QueueInv'
BY DEF QueueInv, Leases, Lapses

\* Asking and forwarding: queues only get shorter and what is sent was asked for.
LEMMA RequestQueues ==
  ASSUME network \in Networks, QueueInv, Leases',
         \A b \in Blocks : lease[b] <= lease'[b],
         NEW n \in Peers, NEW requests \in Seq(Wanted),
         \A k \in DOMAIN requests : requests[k].left <= lease'[requests[k].block],
         queue' \in [Nodes -> Seq(Wanted)],
         \A i \in Nodes : \A k \in DOMAIN queue'[i] :
           \E j \in DOMAIN queue[i] : queue[i][j] = queue'[i][k],
         \A m \in net' : m.kind = "request" => m \in net \cup Asked(n, requests)
  PROVE  QueueInv'
<1>1. ASSUME NEW r \in Wanted, r.left <= lease[r.block] PROVE r.left <= lease'[r.block]
  <2>1. r.block \in Blocks /\ r.left \in Int
    BY WantedFields
  <2>2. lease[r.block] \in -1..MaxTTL /\ lease'[r.block] \in -1..MaxTTL
    BY <2>1 DEF QueueInv, Leases
  <2>3. lease[r.block] <= lease'[r.block]
    BY <2>1
  <2> QED BY <2>1, <2>2, <2>3, <1>1, TTLs
<1>2. ASSUME NEW i \in Nodes, NEW k \in DOMAIN queue'[i]
      PROVE  queue'[i][k].left <= lease'[queue'[i][k].block]
  <2>1. PICK j \in DOMAIN queue[i] : queue[i][j] = queue'[i][k]
    BY <1>2
  <2>2. queue[i][j] \in Wanted /\ queue[i][j].left <= lease[queue[i][j].block]
    BY DEF QueueInv, Lapses
  <2> QED BY <2>1, <2>2, <1>1
<1>3. ASSUME NEW m \in net', m.kind = "request"
      PROVE  m \in RequestFrame /\ \A k \in DOMAIN m.requests : m.requests[k].left <= lease'[m.requests[k].block]
  <2>1. CASE m \in net
    <3>1. m \in RequestFrame /\ \A k \in DOMAIN m.requests : m.requests[k].left <= lease[m.requests[k].block]
      BY <1>3, <2>1 DEF QueueInv, Lapses
    <3>2. \A k \in DOMAIN m.requests : m.requests[k] \in Wanted
      BY <3>1 DEF RequestFrame
    <3> QED BY <3>1, <3>2, <1>1
  <2>2. CASE m \in Asked(n, requests)
    <3>1. /\ m \in RequestFrame
          /\ \A k \in DOMAIN m.requests : \E j \in DOMAIN requests : requests[j] = m.requests[k]
      BY <2>2, AskedIs
    <3> QED BY <3>1
  <2> QED BY <2>1, <2>2, <1>3
<1> QED BY <1>2, <1>3 DEF QueueInv, Lapses

LEMMA AskInv ==
  ASSUME network \in Networks, PendingInv, QueueInv,
         NEW n \in Peers, NEW h \in Hashes, NEW ttl \in 1..MaxTTL, NEW keep \in BOOLEAN,
         Ask(n, h, ttl, keep)
  PROVE  PendingInv' /\ QueueInv'
<1> DEFINE requests == AllBlocks(h, ttl)
<1>1. /\ prt' = [prt EXCEPT ![n] = PrtAfter(n, requests, keep)]
      /\ checks' = [checks EXCEPT ![n] = ChecksAfter(n, requests)]
      /\ net' = net \cup Asked(n, requests)
      /\ lease' = [b \in Blocks |-> IF b[1] = h THEN Max({lease[b], ttl}) ELSE lease[b]]
      /\ UNCHANGED <<network, queue>>
  BY DEF Ask
<1>2. /\ requests \in Seq(Wanted)
      /\ \A k \in DOMAIN requests : /\ requests[k].block \in Blocks /\ requests[k].block[1] = h
                                    /\ requests[k].left = ttl
  BY AllBlocksAre
<1> HIDE DEF requests
<1>3. Leases' /\ \A b \in Blocks : lease[b] <= lease'[b] /\ (b[1] = h => ttl <= lease'[b])
  <2>1. Leases
    BY DEF PendingInv
  <2> QED BY <1>1, <2>1, AskLeases
<1>4. \A k \in DOMAIN requests :
        requests[k].left >= 0 /\ requests[k].left <= lease'[requests[k].block]
  BY <1>2, <1>3, TTLs
<1>5. PendingInv'
  BY <1>1, <1>2, <1>3, <1>4, RequestPends
<1>6. queue' \in [Nodes -> Seq(Wanted)] /\ queue' = queue
  BY <1>1 DEF QueueInv
<1>7. QueueInv'
  <2>1. \A i \in Nodes : \A k \in DOMAIN queue'[i] :
          \E j \in DOMAIN queue[i] : queue[i][j] = queue'[i][k]
    BY <1>6
  <2>2. \A m \in net' : m.kind = "request" => m \in net \cup Asked(n, requests)
    BY <1>1
  <2> QED BY <1>2, <1>3, <1>4, <1>6, <2>1, <2>2, RequestQueues
<1> QED BY <1>5, <1>7

LEMMA ScheduleInv ==
  ASSUME network \in Networks, PendingInv, QueueInv, NEW n \in Peers, Schedule(n)
  PROVE  PendingInv' /\ QueueInv'
<1> DEFINE requests == Forwardable(n)
           rest == SubSeq(queue[n], Min({Batch, Len(queue[n])}) + 1, Len(queue[n]))
<1>1. n \in Nodes
  BY DEF Peers
<1>2. queue' = [queue EXCEPT ![n] = rest]
  BY <1>1 DEF Schedule, QueueInv
<1>3. PICK sent :
        /\ prt' = [prt EXCEPT ![n] = PrtAfter(n, requests, FALSE)]
        /\ checks' = [checks EXCEPT ![n] = ChecksAfter(n, requests)]
        /\ net' = net \cup Asked(n, requests) \cup Broadcast(n, cache[n], store[n], sent)
  BY DEF Schedule
<1>4. UNCHANGED <<network, lease>>
  BY DEF Schedule
<1>5. /\ requests \in Seq(Wanted)
      /\ \A k \in DOMAIN requests : /\ requests[k].left >= 0
                                    /\ \E j \in DOMAIN queue[n] : queue[n][j] = requests[k]
      /\ rest \in Seq(Wanted)
      /\ \A k \in DOMAIN rest : \E j \in DOMAIN queue[n] : queue[n][j] = rest[k]
  <2>1. queue[n] \in Seq(Wanted)
    BY <1>1 DEF QueueInv
  <2> QED BY <1>1, <2>1, ForwardableIs
<1> HIDE DEF requests, rest
<1>6. Leases' /\ \A b \in Blocks : lease[b] <= lease'[b]
  <2>1. \A b \in Blocks : lease[b] \in -1..MaxTTL
    BY DEF PendingInv, Leases
  <2> QED BY <1>4, <2>1, TTLs DEF PendingInv, Leases
<1>7. \A k \in DOMAIN requests :
        requests[k].left >= 0 /\ requests[k].left <= lease'[requests[k].block]
  BY <1>1, <1>4, <1>5 DEF QueueInv, Lapses
<1>8. PendingInv'
  BY <1>3, <1>4, <1>5, <1>6, <1>7, RequestPends
<1>9. queue' \in [Nodes -> Seq(Wanted)]
  <2> DEFINE D == Seq(Wanted)
  <2>1. queue \in [Nodes -> D] /\ rest \in D
    BY <1>5 DEF QueueInv
  <2> HIDE DEF D
  <2>2. queue' \in [Nodes -> D]
    BY <2>1, <1>2
  <2> QED BY <2>2 DEF D
<1>10. \A i \in Nodes : \A k \in DOMAIN queue'[i] :
         \E j \in DOMAIN queue[i] : queue[i][j] = queue'[i][k]
  <2>1. queue'[n] = rest /\ \A i \in Nodes : i # n => queue'[i] = queue[i]
    BY <1>1, <1>2 DEF QueueInv
  <2> QED BY <2>1, <1>5
<1>11. \A m \in net' : m.kind = "request" => m \in net \cup Asked(n, requests)
  <2>1. \A m \in Broadcast(n, cache[n], store[n], sent) : m.kind = "response"
    BY DEF Broadcast
  <2> QED BY <2>1, <1>3
<1>12. QueueInv'
  BY <1>5, <1>6, <1>7, <1>9, <1>10, <1>11, RequestQueues
<1> QED BY <1>8, <1>12

\* A check drops what expires now, which no other check is due for.
LEMMA CheckInv ==
  ASSUME network \in Networks, PendingInv, NEW n \in Peers, CheckPendingRequests(n)
  PROVE  PendingInv'
<1> DEFINE t   == Restrict(prt[n], {b \in DOMAIN prt[n] : prt[n][b].left > 0})
           due == checks[n] \ {0}
<1>1. n \in Nodes /\ Peers' = Peers /\ UNCHANGED <<network, lease>>
  BY DEF Peers, CheckPendingRequests
<1>2. prt' = [prt EXCEPT ![n] = t] /\ checks' = [checks EXCEPT ![n] = due]
  BY <1>1 DEF CheckPendingRequests, PendingInv
<1>3. /\ t = [b \in DOMAIN t |-> t[b]]
      /\ \A b \in DOMAIN t : b \in DOMAIN prt[n] /\ t[b] = prt[n][b] /\ t[b].left > 0
  BY DEF Restrict
<1>4. Typed(prt[n]) /\ checks[n] \subseteq 0..MaxTTL
  BY <1>1 DEF PendingInv
<1>5. due \subseteq 0..MaxTTL
  BY <1>4
<1>6. \A b \in DOMAIN t : t[b].left \in due
  BY <1>1, <1>3 DEF PendingInv, PendingWatched
<1> HIDE DEF t, due
<1>7. Typed(t)
  <2>1. \A b \in DOMAIN prt[n] : b \in Blocks /\ prt[n][b] \in Pending
    BY <1>4 DEF Typed
  <2> QED BY <2>1, <1>3 DEF Typed
<1>8. /\ prt' = [k \in Nodes |-> prt'[k]]
      /\ prt'[n] = t /\ checks'[n] = due
      /\ \A k \in Nodes : k # n => prt'[k] = prt[k] /\ checks'[k] = checks[k]
  BY <1>1, <1>2 DEF PendingInv
<1>9. checks' \in [Nodes -> SUBSET (0..MaxTTL)]
  <2> DEFINE D == SUBSET (0..MaxTTL)
  <2>1. checks \in [Nodes -> D] /\ due \in D
    BY <1>5 DEF PendingInv
  <2> HIDE DEF D
  <2>2. checks' \in [Nodes -> D]
    BY <2>1, <1>2
  <2> QED BY <2>2 DEF D
<1>10. \A k \in Nodes : Typed(prt'[k])
  BY <1>7, <1>8 DEF PendingInv
<1>11. Idle'
  BY <1>1, <1>8 DEF PendingInv, Idle
<1>12. PendingWatched'
  BY <1>6, <1>8 DEF PendingInv, PendingWatched
<1>13. PendingLapse'
  BY <1>1, <1>3, <1>8 DEF PendingInv, PendingLapse
<1>14. Leases'
  BY <1>1 DEF PendingInv, Leases
<1> QED BY <1>8, <1>9, <1>10, <1>11, <1>12, <1>13, <1>14 DEF PendingInv

LEMMA ReceiveRequestInv ==
  ASSUME QueueInv, NEW m \in net, ReceiveRequest(m)
  PROVE  QueueInv'
<1> DEFINE n == m.to
           q == queue[n]
           s == m.requests
<1>1. m \in RequestFrame /\ n \in Nodes /\ s \in Seq(Wanted)
  <2>1. m \in RequestFrame
    BY DEF ReceiveRequest, QueueInv
  <2> QED BY <2>1 DEF RequestFrame
<1>2. /\ queue' = [queue EXCEPT ![n] = q \o s]
      /\ net' \subseteq net /\ lease' = lease
  BY <1>1 DEF ReceiveRequest, QueueInv
<1>3. q \in Seq(Wanted) /\ Lapses(q) /\ Lapses(s)
  BY <1>1 DEF QueueInv, ReceiveRequest
<1> HIDE DEF q, s
<1>4. q \o s \in Seq(Wanted)
  BY <1>1, <1>3
<1>5. Lapses(q \o s)
  <2>1. Range(q \o s) = Range(q) \cup Range(s)
    BY <1>1, <1>3, RangeConcatenation
  <2>2. \A r \in Range(q) \cup Range(s) : r.left <= lease[r.block]
    BY <1>3 DEF Lapses, Range
  <2>3. \A k \in DOMAIN (q \o s) : (q \o s)[k] \in Range(q \o s)
    BY DEF Range
  <2> QED BY <2>1, <2>2, <2>3 DEF Lapses
<1> DEFINE t == q \o s
<1>6. t \in Seq(Wanted) /\ Lapses(t) /\ queue' = [queue EXCEPT ![n] = t]
  BY <1>2, <1>4, <1>5
<1> HIDE DEF t, n
<1>7. queue' \in [Nodes -> Seq(Wanted)]
  <2> DEFINE D == Seq(Wanted)
  <2>1. queue \in [Nodes -> D] /\ t \in D
    BY <1>6 DEF QueueInv
  <2> HIDE DEF D
  <2>2. queue' \in [Nodes -> D]
    BY <2>1, <1>6
  <2> QED BY <2>2 DEF D
<1>8. \A i \in Nodes : Lapses(queue'[i])
  <2>1. queue'[n] = t /\ \A i \in Nodes : i # n => queue'[i] = queue[i]
    BY <1>1, <1>6 DEF QueueInv
  <2> QED BY <2>1, <1>6 DEF QueueInv
<1>9. \A x \in net' : x.kind = "request" => x \in RequestFrame /\ Lapses(x.requests)
  BY <1>2 DEF QueueInv
<1> QED BY <1>2, <1>7, <1>8, <1>9 DEF QueueInv, Leases, Lapses

\* A tick: whatever is pending is watched, and no check is due now, so what is
\* pending has something left.
LEMMA TickPending ==
  ASSUME network \in Networks, PendingInv, Tick
  PROVE  PendingInv'
<1>1. Peers' = Peers /\ Peers \subseteq Nodes
  BY DEF Peers, Tick
<1>2. /\ checks' = [n \in Nodes |-> {c - 1 : c \in checks[n]}]
      /\ prt' = [n \in Nodes |-> [b \in DOMAIN prt[n] |-> [prt[n][b] EXCEPT !.left = @ - 1]]]
      /\ lease' = [b \in Blocks |-> Later(lease[b])]
  BY DEF Tick
<1>3. \A n \in Nodes : 0 \notin checks[n]
  BY DEF Tick, PendingInv, Idle
<1>4. ASSUME NEW n \in Nodes, NEW b \in DOMAIN prt[n]
      PROVE  LET p == [prt[n][b] EXCEPT !.left = @ - 1]
             IN  /\ p \in Pending /\ p.left = prt[n][b].left - 1
                 /\ b \in Blocks /\ prt[n][b].left \in 1..MaxTTL
                 /\ prt[n][b].left \in checks[n]
                 /\ p.left <= lease'[b]
  <2> DEFINE e == prt[n][b]
  <2>1. e \in Pending /\ b \in Blocks
    BY DEF PendingInv, Typed
  <2>2. e.left \in checks[n] /\ e.left <= lease[b] /\ e.left # 0
    BY <1>3 DEF PendingInv, PendingWatched, PendingLapse
  <2> HIDE DEF e
  <2>3. e.left \in 0..MaxTTL /\ e.keep \in BOOLEAN /\ e = [left |-> e.left, keep |-> e.keep]
    BY <2>1 DEF Pending
  <2>4. e.left \in 1..MaxTTL /\ e.left - 1 \in 0..MaxTTL
    BY <2>2, <2>3, TTLs
  <2>5. [e EXCEPT !.left = @ - 1] = [left |-> e.left - 1, keep |-> e.keep]
    BY <2>3
  <2>6. lease'[b] \in -1..MaxTTL /\ lease'[b] >= lease[b] - 1 /\ lease[b] \in -1..MaxTTL
    <3>1. lease[b] \in -1..MaxTTL
      BY <2>1 DEF PendingInv, Leases
    <3> QED BY <2>1, <3>1, <1>2, LaterIs
  <2>7. e.left - 1 <= lease'[b]
    BY <2>2, <2>4, <2>6, TTLs
  <2> QED BY <2>1, <2>2, <2>3, <2>4, <2>5, <2>7 DEF e, Pending
<1>5. checks' \in [Nodes -> SUBSET (0..MaxTTL)]
  <2>1. ASSUME NEW n \in Nodes PROVE {c - 1 : c \in checks[n]} \subseteq 0..MaxTTL
    <3>1. checks[n] \subseteq 0..MaxTTL
      BY DEF PendingInv
    <3>2. \A c \in checks[n] : c \in 0..MaxTTL /\ c # 0
      BY <3>1, <1>3
    <3> QED BY <3>2, TTLs
  <2> QED BY <2>1, <1>2
<1>6. \A n \in Nodes : DOMAIN prt'[n] = DOMAIN prt[n]
  BY <1>2
<1>7. ASSUME NEW n \in Nodes, NEW b \in DOMAIN prt[n]
      PROVE  /\ prt'[n][b] \in Pending /\ prt'[n][b].left = prt[n][b].left - 1
             /\ b \in Blocks /\ prt[n][b].left \in checks[n]
             /\ prt'[n][b].left <= lease'[b]
  <2>1. prt'[n][b] = [prt[n][b] EXCEPT !.left = @ - 1]
    BY <1>2
  <2> QED BY <2>1, <1>4
<1>8. prt' = [n \in Nodes |-> prt'[n]]
  BY <1>2
<1>9. ASSUME NEW n \in Nodes PROVE Typed(prt'[n])
  <2> DEFINE t == prt'[n]
  <2>1. t = [b \in DOMAIN prt[n] |-> [prt[n][b] EXCEPT !.left = @ - 1]]
    BY <1>2
  <2>2. t = [b \in DOMAIN t |-> t[b]]
    BY <2>1
  <2>3. \A b \in DOMAIN t : b \in Blocks /\ t[b] \in Pending
    BY <1>6, <1>7
  <2> HIDE DEF t
  <2>4. Typed(t)
    BY <2>2, <2>3 DEF Typed
  <2> QED BY <2>4 DEF t
<1>10. Leases'
  <2>1. \A b \in Blocks : Later(lease[b]) \in -1..MaxTTL
    BY LaterIs DEF PendingInv, Leases
  <2> QED BY <2>1, <1>2 DEF Leases
<1>11. Idle'
  BY <1>1, <1>2, <1>6 DEF PendingInv, Idle
<1>12. PendingWatched'
  <2>1. ASSUME NEW n \in Nodes, NEW b \in DOMAIN prt[n] PROVE prt'[n][b].left \in checks'[n]
    <3>1. prt[n][b].left - 1 \in {c - 1 : c \in checks[n]}
      BY <1>7
    <3> QED BY <3>1, <1>2, <1>7
  <2> QED BY <2>1, <1>6 DEF PendingWatched
<1>13. PendingLapse'
  BY <1>6, <1>7 DEF PendingLapse
<1> QED BY <1>5, <1>8, <1>9, <1>10, <1>11, <1>12, <1>13 DEF PendingInv

LEMMA TickQueue ==
  ASSUME QueueInv, Tick
  PROVE  QueueInv'
<1>1. /\ queue' = [n \in Nodes |->
                     [k \in DOMAIN queue[n] |-> [queue[n][k] EXCEPT !.left = Later(@)]]]
      /\ lease' = [b \in Blocks |-> Later(lease[b])]
      /\ net' = {}
  BY DEF Tick
<1>2. ASSUME NEW r \in Wanted, r.left <= lease[r.block]
      PROVE  LET x == [r EXCEPT !.left = Later(@)]
             IN  x \in Wanted /\ x.left <= lease'[x.block]
  <2> DEFINE l == Later(r.left)
  <2>1. r.block \in Blocks /\ r.left \in -1..MaxTTL /\ r = [block |-> r.block, left |-> r.left]
    BY DEF Wanted
  <2>2. lease[r.block] \in -1..MaxTTL
    BY <2>1 DEF QueueInv, Leases
  <2>3. l \in -1..MaxTTL /\ l <= Later(lease[r.block])
    BY <2>1, <2>2, <1>2, LaterIs
  <2>4. lease'[r.block] = Later(lease[r.block])
    BY <1>1, <2>1
  <2>5. [r EXCEPT !.left = Later(@)] = [r EXCEPT !.left = l]
    OBVIOUS
  <2> HIDE DEF l
  <2>6. [r EXCEPT !.left = l] = [block |-> r.block, left |-> l]
    BY <2>1
  <2> QED BY <2>1, <2>3, <2>4, <2>5, <2>6 DEF Wanted
<1>3. ASSUME NEW n \in Nodes
      PROVE  /\ queue'[n] \in Seq(Wanted)
             /\ \A k \in DOMAIN queue'[n] : queue'[n][k].left <= lease'[queue'[n][k].block]
  <2> DEFINE q == queue[n]
             t == queue'[n]
             l == Len(q)
  <2>1. q \in Seq(Wanted) /\ \A k \in DOMAIN q : q[k].left <= lease[q[k].block]
    BY DEF QueueInv, Lapses
  <2>2. t = [k \in DOMAIN q |-> [q[k] EXCEPT !.left = Later(@)]]
    BY <1>1
  <2> HIDE DEF q, t
  <2>3. DOMAIN q = 1..l /\ l \in Nat /\ \A k \in 1..l : q[k] \in Wanted
    BY <2>1
  <2> HIDE DEF l
  <2>4. \A k \in 1..l : [q[k] EXCEPT !.left = Later(@)] \in Wanted
    BY <1>2, <2>1, <2>3
  <2>5. t = [k \in 1..l |-> [q[k] EXCEPT !.left = Later(@)]]
    BY <2>2, <2>3
  <2>6. DOMAIN t = 1..l /\ \A k \in 1..l : t[k] = [q[k] EXCEPT !.left = Later(@)]
    BY <2>5
  <2>9. t \in [1..l -> Wanted]
    BY <2>4, <2>5
  <2>7. t \in Seq(Wanted)
    BY ONLY <2>3, <2>9
  <2>8. \A k \in 1..l : t[k].left <= lease'[t[k].block]
    BY <1>2, <2>1, <2>3, <2>6
  <2> QED BY <2>6, <2>7, <2>8 DEF t
<1>4. queue' \in [Nodes -> Seq(Wanted)]
  BY <1>1, <1>3
<1>5. Leases'
  <2>1. \A b \in Blocks : Later(lease[b]) \in -1..MaxTTL
    BY LaterIs DEF QueueInv, Leases
  <2> QED BY <2>1, <1>1 DEF Leases
<1> QED BY <1>1, <1>3, <1>4, <1>5 DEF QueueInv, Lapses

LEMMA NextExpiries ==
  HeldIntact /\ PendingInv /\ QueueInv /\ [Next]_vars => PendingInv' /\ QueueInv'
<1> SUFFICES ASSUME HeldIntact, PendingInv, QueueInv, [Next]_vars
             PROVE  PendingInv' /\ QueueInv'
  OBVIOUS
<1> DEFINE Goal == PendingInv' /\ QueueInv'
<1>0. network \in Networks
  BY DEF HeldIntact
<1>1. ASSUME UNCHANGED <<network, prt, checks, queue, lease>>,
             \A m \in net' : m.kind = "request" => m \in net
      PROVE  Goal
  BY <1>1, PendingKept, QueueKept
<1>2. ASSUME NEW h \in Hashes, Publish(h) PROVE Goal
  BY <1>1, <1>2 DEF Publish, Stop
<1>3. ASSUME NEW n \in Peers, NEW h \in Hashes, AutoFetch(n, h) \/ BehaveRequest(n, h) PROVE Goal
  <2>1. FetchTTL \in 1..MaxTTL /\ BehaveTTL \in 1..MaxTTL
    BY TTLs
  <2> QED BY <1>0, <1>3, <2>1, AskInv DEF AutoFetch, BehaveRequest
<1>4. ASSUME NEW n \in Peers, Schedule(n) PROVE Goal
  BY <1>0, <1>4, ScheduleInv
<1>5. ASSUME NEW n \in Peers, ScheduleHangs(n) PROVE Goal
  BY <1>1, <1>5 DEF ScheduleHangs, Stop
<1>6. ASSUME NEW n \in Peers, CheckPendingRequests(n) PROVE Goal
  <2>1. UNCHANGED <<queue, lease, net>>
    BY <1>6 DEF CheckPendingRequests
  <2> QED BY <1>0, <1>6, <2>1, CheckInv, QueueKept
<1>7. ASSUME NEW m \in net, ReceiveRequest(m) PROVE Goal
  <2>1. UNCHANGED <<network, prt, checks, lease>>
    BY <1>7 DEF ReceiveRequest
  <2> QED BY <1>7, <2>1, ReceiveRequestInv, PendingKept
<1>8. ASSUME NEW m \in net, ReceiveResponse(m) PROVE Goal
  <2>1. UNCHANGED <<network, prt, checks, queue, lease>>
    BY <1>8 DEF ReceiveResponse
  <2>2. \A x \in net' : x.kind = "request" => x \in net
    BY <1>8 DEF ReceiveResponse, Broadcast
  <2> QED BY <1>1, <2>1, <2>2
<1>9. ASSUME NEW m \in net, ResponseAborts(m) \/ Lose(m) PROVE Goal
  BY <1>1, <1>9 DEF ResponseAborts, Lose, Stop
<1>10. ASSUME Tick PROVE Goal
  BY <1>0, <1>10, TickPending, TickQueue
<1>11. ASSUME UNCHANGED vars PROVE Goal
  BY <1>1, <1>11 DEF vars
<1> HIDE DEF Goal
<1>12. Goal
  BY <1>2, <1>3, <1>4, <1>5, <1>6, <1>7, <1>8, <1>9, <1>10, <1>11 DEF Next
<1> QED BY <1>12 DEF Goal

\* The other variables.
Bounded ==
  /\ published \subseteq network.contents
  /\ asks \in 0..network.asks
  /\ forwarded \subseteq Peers
  /\ status \in {"ok", "stopped"}
  /\ \A m \in net : m.kind \in {"request", "response"}

LEMMA NextBounded == HeldIntact /\ Bounded /\ [Next]_vars => Bounded'
<1> SUFFICES ASSUME HeldIntact, Bounded, [Next]_vars PROVE Bounded'
  OBVIOUS
<1>0. network \in Networks /\ network.asks \in Nat
  BY DEF HeldIntact
<1>1. ASSUME UNCHANGED <<network, published, asks>>, forwarded' \subseteq Peers, status' \in {"ok", "stopped"},
             \A m \in net' : m \in net \/ m.kind \in {"request", "response"}
      PROVE  Bounded'
  BY <1>1 DEF Bounded, Peers
<1>2. ASSUME NEW h \in Hashes, Publish(h) PROVE Bounded'
  BY <1>2 DEF Publish, Stop, Bounded, Peers
<1>3. ASSUME NEW n \in Peers, NEW h \in Hashes, NEW ttl, NEW keep, Ask(n, h, ttl, keep)
      PROVE  Bounded'
  <2>1. \A m \in net' : m.kind \in {"request", "response"}
    BY <1>3, AskedRequests DEF Ask, Bounded
  <2> QED BY <1>0, <1>3, <2>1 DEF Ask, Bounded, Peers
<1>4. ASSUME NEW n \in Peers, Schedule(n) PROVE Bounded'
  <2>1. \A m \in net' : m \in net \/ m.kind \in {"request", "response"}
    BY <1>4 DEF Schedule, Asked, Broadcast
  <2> QED BY <1>4, <1>1, <2>1 DEF Schedule, Bounded
<1>5. ASSUME NEW n \in Peers, ScheduleHangs(n) PROVE Bounded'
  BY <1>5, <1>1 DEF ScheduleHangs, Stop, Bounded
<1>6. ASSUME NEW n \in Peers, CheckPendingRequests(n) PROVE Bounded'
  BY <1>6, <1>1 DEF CheckPendingRequests, Bounded
<1>7. ASSUME NEW m \in net, ReceiveRequest(m) \/ Lose(m) PROVE Bounded'
  BY <1>7, <1>1 DEF ReceiveRequest, Lose, Bounded
<1>8. ASSUME NEW m \in net, ReceiveResponse(m) PROVE Bounded'
  <2>1. \A x \in net' : x \in net \/ x.kind \in {"request", "response"}
    BY <1>8 DEF ReceiveResponse, Broadcast
  <2> QED BY <1>8, <1>1, <2>1 DEF ReceiveResponse, Bounded
<1>9. ASSUME NEW m \in net, ResponseAborts(m) PROVE Bounded'
  BY <1>9, <1>1 DEF ResponseAborts, Stop, Bounded
<1>10. ASSUME Tick PROVE Bounded'
  BY <1>10, <1>1 DEF Tick, Bounded
<1>11. ASSUME UNCHANGED vars PROVE Bounded'
  BY <1>11, <1>1 DEF vars, Bounded
<1> QED
  BY <1>2, <1>3, <1>4, <1>5, <1>6, <1>7, <1>8, <1>9, <1>10, <1>11
     DEF Next, AutoFetch, BehaveRequest

LEMMA InitExpiries == Init => PendingInv /\ QueueInv /\ Bounded
<1> SUFFICES ASSUME Init PROVE PendingInv /\ QueueInv /\ Bounded
  OBVIOUS
<1>1. network \in Networks /\ network.asks \in Nat
  BY DEF Init
<1>2. Typed(<< >>)
  <2> DEFINE t == << >>
  <2>1. DOMAIN t = {} /\ t \in [DOMAIN t -> Pending]
    OBVIOUS
  <2> HIDE DEF t
  <2>2. Typed(t)
    BY <2>1 DEF Typed
  <2> QED BY <2>2 DEF t
<1>3. Leases
  BY TTLs DEF Init, Leases
<1>4. PendingInv
  BY <1>2, <1>3 DEF Init, PendingInv, Idle, PendingWatched, PendingLapse
<1>5. << >> \in Seq(Wanted) /\ Lapses(<< >>)
  BY DEF Lapses
<1>6. QueueInv
  BY <1>3, <1>5 DEF Init, QueueInv
<1>7. Bounded
  BY <1>1 DEF Init, Bounded
<1> QED BY <1>4, <1>6, <1>7

IInv == HeldIntact /\ PendingInv /\ QueueInv /\ Bounded

LEMMA ExpiriesInvariant == Spec => []IInv
BY InitHeld, NextHeld, InitExpiries, NextExpiries, NextBounded, PTL DEF Spec, IInv

LEMMA InvTypes == IInv => TypeOK
<1> SUFFICES ASSUME IInv PROVE TypeOK
  OBVIOUS
<1>1. \A c : ListsOf(c) => c \in [Hashes -> Seq(Entry)]
  BY DEF ListsOf, Lists
<1>2. cache \in [Nodes -> [Hashes -> Seq(Entry)]] /\ store \in [Nodes -> [Hashes -> Seq(Entry)]]
  <2> DEFINE D == [Hashes -> Seq(Entry)]
  <2>1. \A n \in Nodes : cache[n] \in D /\ store[n] \in D
    BY <1>1 DEF IInv, HeldIntact
  <2> HIDE DEF D
  <2>2. cache \in [Nodes -> D] /\ store \in [Nodes -> D]
    BY <2>1 DEF IInv, HeldIntact
  <2> QED BY <2>2 DEF D
<1>3. net \subseteq Frame
  <2> SUFFICES ASSUME NEW m \in net PROVE m \in Frame
    OBVIOUS
  <2>1. m.kind = "request" => m \in RequestFrame
    BY DEF IInv, QueueInv
  <2>2. m.kind = "response" => m \in Response
    BY DEF IInv, HeldIntact, Intact
  <2>3. m.kind \in {"request", "response"}
    BY DEF IInv, Bounded
  <2>4. m \in RequestFrame => m \in Frame
    BY DEF RequestFrame, Frame
  <2>5. m \in Response => m \in Frame
    BY DEF Response, Frame
  <2> QED BY <2>1, <2>2, <2>3, <2>4, <2>5
<1>4. \A n \in Nodes : DOMAIN prt[n] \subseteq Blocks /\ prt[n] \in [DOMAIN prt[n] -> Pending]
  BY DEF IInv, PendingInv, Typed
<1>5. /\ checks \in [Nodes -> SUBSET (0..MaxTTL)] /\ lease \in [Blocks -> -1..MaxTTL]
      /\ queue \in [Nodes -> Seq(Wanted)]
  BY DEF IInv, PendingInv, QueueInv, Leases
<1>6. network \in Networks /\ schedule \in [Nodes -> SUBSET Blocks]
  BY DEF IInv, HeldIntact
<1>7. /\ published \subseteq network.contents /\ asks \in 0..network.asks
      /\ forwarded \subseteq Peers /\ status \in {"ok", "stopped"}
  BY DEF IInv, Bounded
<1> HIDE DEF IInv
<1> QED BY <1>2, <1>3, <1>4, <1>5, <1>6, <1>7 DEF TypeOK

-----------------------------------------------------------------------------
(* Theorems *)

LEMMA Invariant == Spec => [](HeldIntact /\ Tables)
<1>1. Init => Tables
  BY DEF Init, Tables
<1> QED BY <1>1, InitHeld, NextHeld, NextTables, PTL DEF Spec

\* In any network, whatever is lost, cached or relayed, what is sent as a block with
\* an index above 0 is that block: only the first block of a content can be mixed up.
THEOREM HigherBlocksStayIntact == Spec => []HigherBlocksIntact
<1>1. HeldIntact => HigherBlocksIntact
  BY DEF HeldIntact, HigherBlocksIntact, Intact
<1> QED BY <1>1, Invariant, PTL

\* In any network, in whatever order blocks arrive and however often, no node stores the
\* first block of a content twice or behind another.
THEOREM FirstBlockOnce == Spec => []FirstBlockFirst
<1>1. FirstHeld => FirstBlockFirst
  <2> SUFFICES ASSUME FirstHeld, NEW n \in Nodes, NEW h \in Hashes,
                      NEW list \in {cache[n][h], store[n][h]}
               PROVE  \A k \in DOMAIN list : list[k].block = <<h, 0>> => k = 1
    BY DEF FirstBlockFirst
  <2>1. list \in Single(h)
    BY DEF FirstHeld
  <2> QED BY <2>1 DEF Single
<1>2. Init => HeldIntact /\ FirstHeld
  BY InitHeld, InitFirst
<1>3. HeldIntact /\ FirstHeld /\ [Next]_vars => (HeldIntact /\ FirstHeld)'
  BY NextHeld, NextFirst
<1> QED BY <1>1, <1>2, <1>3, PTL DEF Spec

\* In any network, forwarding the requests of others never takes back a wish to keep
\* a pending block (request).
THEOREM WishesStick == Spec => KeepSticks
<1>1. HeldIntact /\ Tables /\ [Next]_vars
        => [\A n \in Nodes : \A b \in DOMAIN prt[n] \cap DOMAIN prt'[n] :
              prt[n][b].keep => prt'[n][b].keep]_vars
  BY NextTables
<1> QED BY <1>1, Invariant, PTL DEF Spec, KeepSticks

\* In any network, the tables of all nodes keep their types; in particular no time
\* left and no check goes below zero, and only frames are on the air.
THEOREM ExchangeTypeCorrect == Spec => []TypeOK
BY ExpiriesInvariant, InvTypes, PTL

\* In any network and however often a request is repeated, extended or forwarded, a
\* check is due when it expires (request, check_pending_requests).
THEOREM PendingIsWatched == Spec => []PendingWatched
<1>1. IInv => PendingWatched
  BY DEF IInv, PendingInv
<1> QED BY <1>1, ExpiriesInvariant, PTL

\* In any network, though requests are forwarded to and fro and extended by each other,
\* nothing pending, queued or on the air outlives the latest request of a user.
THEOREM RequestsDoLapse == Spec => []RequestsLapse
<1>1. IInv => RequestsLapse
  <2> SUFFICES ASSUME IInv PROVE RequestsLapse
    OBVIOUS
  <2>1. \A s : Lapses(s) => \A r \in ToSet(s) : r.left <= lease[r.block]
    BY DEF Lapses, ToSet
  <2>2. \A n \in Nodes : \A b \in DOMAIN prt[n] : prt[n][b].left <= lease[b]
    BY DEF IInv, PendingInv, PendingLapse
  <2>3. \A n \in Nodes : Lapses(queue[n])
    BY DEF IInv, QueueInv
  <2>4. \A m \in net : m.kind = "request" => Lapses(m.requests)
    BY DEF IInv, QueueInv
  <2> QED BY <2>1, <2>2, <2>3, <2>4 DEF RequestsLapse
<1> QED BY <1>1, ExpiriesInvariant, PTL
===============================================================================
