------------------------ MODULE NeighborHelperProofs ------------------------
(***************************************************************************)
(* Theorems about NeighborHelper: tracking of the nodes in range, silence  *)
(* after a stop and the rings of positions, for any number of nodes, any   *)
(* places, any longest delay between beacons and any depth of the rings.   *)
(***************************************************************************)
EXTENDS NeighborHelper, TLAPS

\* The type invariant, with the tables and histories as functions.
Types ==
  /\ TypeOK
  /\ neighbors = [n \in Nodes |-> neighbors[n]]
  /\ heard \in [Nodes -> [Nodes -> Seq(Places)]]
  /\ close \in [Nodes -> [Nodes -> 0..LongAgo]]

\* No timer outlives the first stop, and until then everybody runs and has one.
Timers ==
  IF purged THEN \A n \in Nodes : wait[n] = NoTimer
            ELSE running = Nodes /\ \A n \in Nodes : wait[n] # NoTimer

\* n has a beacon of m before it.
OnTheAir(m, n) == \E x \in net : x.from = m /\ x.to = n

\* Whoever has been close for longer than the time since m's last beacon has got
\* that beacon: it is on the air, or the record is as old as it.
Heard ==
  ~purged => \A n \in Nodes : \A m \in Nodes \ {n} :
    close[n][m] + wait[m] > MaxDelay
      => \/ OnTheAir(m, n)
         \/ m \in Known(n) /\ neighbors[n][m].age + wait[m] <= MaxDelay

\* Beacons are never answered, so that none on the air is a response.
NoResponses == \A x \in net : x.is_response = FALSE

IInv == Types /\ Timers /\ Heard /\ NoResponses /\ FreshWhileInRange

USE NeighborAssumption

-----------------------------------------------------------------------------

LEMMA InitIInv == Init => IInv
<1> SUFFICES ASSUME Init PROVE IInv
  OBVIOUS
<1> USE DEF Init, NoTimer, LongAgo, Known
<1>1. \A n \in Nodes : Known(n) = {}
  <2>1. << >> \in Seq({}) /\ Len(<< >>) = 0
    OBVIOUS
  <2>2. DOMAIN << >> = {}
    BY <2>1
  <2> QED BY <2>2
<1>2. Types
  <2>1. neighbors = [n \in Nodes |-> neighbors[n]] /\ DOMAIN neighbors = Nodes
    OBVIOUS
  <2>2. heard \in [Nodes -> [Nodes -> Seq(Places)]]
    OBVIOUS
  <2>3. close \in [Nodes -> [Nodes -> 0..LongAgo]]
    OBVIOUS
  <2>4. wait \in [Nodes -> {NoTimer} \cup (0..MaxDelay)]
    OBVIOUS
  <2>5. \A n \in Nodes : neighbors[n] \in [Known(n) -> NeighborRecord]
    <3>1. << >> \in [{} -> NeighborRecord]
      OBVIOUS
    <3> QED BY <1>1, <3>1
  <2>6. \A n, m \in Nodes : heard[n][m] \in Seq(Places) /\ close[n][m] \in 0..MaxDelay + 1
    BY <2>2, <2>3
  <2>7. net \subseteq Beacon /\ moves \in 0..MaxMoves
    OBVIOUS
  <2> QED BY <1>1, <2>1, <2>2, <2>3, <2>4, <2>5, <2>6, <2>7 DEF Types, TypeOK
<1>3. Timers /\ NoResponses
  BY DEF Timers, NoResponses
<1>4. Heard /\ FreshWhileInRange
  BY DEF Heard, FreshWhileInRange
<1> QED BY <1>2, <1>3, <1>4 DEF IInv

-----------------------------------------------------------------------------
(* Records *)

LEMMA Mod ==
  ASSUME NEW a \in Nat
  PROVE  a % Depth \in 0..Depth - 1
OBVIOUS

\* push_back() makes a record of a record, and leaves its age alone.
LEMMA PushedRecord ==
  ASSUME NEW r \in NeighborRecord, NEW p \in Places
  PROVE  Pushed(r, p) \in NeighborRecord
<1> USE DEF NeighborRecord, LongAgo
<1>0. r.i \in 0..2 * Depth - 1 /\ r.sz \in 0..Depth /\ r.first \in 0..Depth - 1
  OBVIOUS
<1>1. r.i % Depth \in 0..Depth - 1 /\ (r.i + 1) % Depth \in 0..Depth - 1
  <2>1. r.i \in Nat /\ r.i + 1 \in Nat
    BY <1>0
  <2> HIDE DEF NeighborRecord
  <2> QED BY <2>1, Mod
<1>2. [r.v EXCEPT ![r.i % Depth] = p] \in [0..Depth - 1 -> Places \cup {NoPlace}]
  BY <1>1
<1>3. (IF r.i + 1 = 2 * Depth THEN Depth ELSE r.i + 1) \in 0..2 * Depth - 1
  BY <1>0
<1>4. (IF r.sz < Depth THEN r.sz + 1 ELSE r.sz) \in 0..Depth
  BY <1>0
<1>5. (IF r.i >= Depth THEN (r.i + 1) % Depth ELSE r.first) \in 0..Depth - 1
  BY <1>0, <1>1
<1> QED BY <1>2, <1>3, <1>4, <1>5 DEF Pushed

LEMMA AgeSet ==
  ASSUME NEW r \in NeighborRecord, NEW a \in 0..LongAgo
  PROVE  LET s == [r EXCEPT !.age = a] IN s \in NeighborRecord /\ s.age = a
BY DEF NeighborRecord

LEMMA NewRecordType == NewRecord \in NeighborRecord
BY DEF NewRecord, NeighborRecord, LongAgo

\* The records of nodes seen in this tick.
JustSeen == {r \in NeighborRecord : r.age = 0}

\* What saw() makes of a table: the record of m is there, as new.
LEMMA SawRecord ==
  ASSUME NEW known, NEW m, NEW p \in Places,
         known \in [DOMAIN known -> NeighborRecord]
  PROVE  /\ Saw(known, m, p) \in [{m} \cup DOMAIN known -> NeighborRecord]
         /\ Saw(known, m, p)[m] \in JustSeen
<1> DEFINE r == IF m \in DOMAIN known THEN known[m] ELSE NewRecord
           q == [Pushed(r, p) EXCEPT !.age = 0]
<1>1. r \in NeighborRecord
  BY NewRecordType
<1> HIDE DEF r
<1>2. Pushed(r, p) \in NeighborRecord
  BY <1>1, PushedRecord
<1>3. q \in NeighborRecord /\ q.age = 0
  BY <1>2, AgeSet DEF LongAgo
<1>4. q \in JustSeen
  BY <1>3 DEF JustSeen
<1>5. Saw(known, m, p) = [x \in {m} \cup DOMAIN known |-> IF x = m THEN q ELSE known[x]]
  BY DEF Saw, r
<1> HIDE DEF q
<1> QED BY <1>3, <1>4, <1>5

\* The other records stay as they are.
LEMMA SawOthers ==
  ASSUME NEW known, NEW m, NEW p, NEW k \in DOMAIN known, k # m
  PROVE  k \in DOMAIN Saw(known, m, p) /\ Saw(known, m, p)[k] = known[k]
BY DEF Saw

-----------------------------------------------------------------------------
(* Steps *)

LEMMA BeaconsType ==
  ASSUME NEW n \in Nodes, NEW reached \in SUBSET Nodes, NEW response \in BOOLEAN,
         place[n] \in Places
  PROVE  Beacons(n, reached, response) \subseteq Beacon
<1> SUFFICES ASSUME NEW m \in reached \cup {n}
             PROVE  [from |-> n, to |-> m, position |-> place[n], is_response |-> response]
                      \in Beacon
  BY DEF Beacons
<1> QED BY DEF Beacon

LEMMA LastOfType ==
  ASSUME NEW s \in Seq(Places), NEW p \in Places
  PROVE  LastOf(Append(s, p)) \in Seq(Places)
<1>1. Append(s, p) \in Seq(Places) /\ Len(Append(s, p)) = Len(s) + 1
  OBVIOUS
<1>2. Append(s, p) # << >>
  BY <1>1
<1>3. Tail(Append(s, p)) \in Seq(Places)
  BY <1>1, <1>2
<1> QED BY <1>1, <1>3 DEF LastOf

LEMMA NextTypes == Types /\ [Next]_vars => Types'
<1> SUFFICES ASSUME Types, [Next]_vars PROVE Types'
  OBVIOUS
<1> USE DEF Types, TypeOK, Known, NoTimer, LongAgo
<1>1. ASSUME NEW n \in Nodes, SendBeacon(n) PROVE Types'
  <2>1. PICK reached \in SUBSET Others(n), delay \in Delays :
          /\ net' = net \cup Beacons(n, reached, FALSE)
          /\ close' = [m \in Nodes |->
                         [close[m] EXCEPT ![n] = IF m \in reached THEN @ ELSE 0]]
          /\ wait' = [wait EXCEPT ![n] = Armed(delay)]
    BY <1>1 DEF SendBeacon
  <2>2. Beacons(n, reached, FALSE) \subseteq Beacon
    BY BeaconsType DEF Others
  <2>3. close' \in [Nodes -> [Nodes -> 0..LongAgo]]
    BY <2>1
  <2>4. wait' \in [Nodes -> {NoTimer} \cup (0..MaxDelay)]
    BY <2>1 DEF Armed, Delays
  <2>5. UNCHANGED <<place, running, purged, neighbors, moves, heard>>
    BY <1>1 DEF SendBeacon
  <2>6. net' \subseteq Beacon
    BY <2>1, <2>2
  <2>7. \A a, b \in Nodes : close'[a][b] \in 0..LongAgo
    BY <2>3
  <2> QED BY <2>3, <2>4, <2>5, <2>6, <2>7, SMTT(20)
<1>2. ASSUME NEW x \in net, Receive(x) PROVE Types'
  <2> DEFINE saw == Saw(neighbors[x.to], x.from, x.position)
  <2>1. /\ x.from \in Nodes /\ x.to \in Nodes /\ x.position \in Places /\ x.from # x.to
        /\ x \in Beacon
    BY <1>2 DEF Beacon, Receive, Accepted
  <2>2. neighbors[x.to] \in [DOMAIN neighbors[x.to] -> NeighborRecord]
    BY <2>1
  <2>3. saw \in [{x.from} \cup Known(x.to) -> NeighborRecord]
    BY ONLY <2>1, <2>2, SawRecord DEF Known
  <2>4. neighbors' = [neighbors EXCEPT ![x.to] = saw]
    BY <1>2 DEF Receive
  <2>5. heard' \in [Nodes -> [Nodes -> Seq(Places)]]
    <3>1. heard' = [heard EXCEPT ![x.to][x.from]
                      = LastOf(Append(heard[x.to][x.from], x.position))]
      BY <1>2 DEF Receive
    <3>2. \A s \in Seq(Places) : LastOf(Append(s, x.position)) \in Seq(Places)
      BY <2>1, LastOfType
    <3> QED BY <2>1, <3>1, <3>2
  <2>6. net' \subseteq Beacon
    <3>1. PICK reached \in SUBSET Others(x.to) :
            net' = (net \ {x}) \cup
                     (IF ReadBack(x.is_response) THEN {} ELSE Beacons(x.to, reached, TRUE))
      BY <1>2 DEF Receive
    <3>2. Beacons(x.to, reached, TRUE) \subseteq Beacon
      BY <2>1, BeaconsType DEF Others
    <3> QED BY <3>1, <3>2
  <2>7. UNCHANGED <<place, running, purged, wait, moves, close>>
    BY <1>2 DEF Receive
  <2> HIDE DEF saw
  <2>8. /\ neighbors' = [n \in Nodes |-> neighbors'[n]] /\ DOMAIN neighbors' = Nodes
        /\ \A n \in Nodes : n # x.to => neighbors'[n] = neighbors[n]
        /\ neighbors'[x.to] = saw
    <3>1. neighbors = [n \in Nodes |-> neighbors[n]]
      OBVIOUS
    <3> QED BY ONLY <2>1, <2>4, <3>1
  <2>9. \A n \in Nodes : /\ Known(n)' \subseteq Nodes \ {n}
                         /\ neighbors'[n] \in [Known(n)' -> NeighborRecord]
    BY <2>1, <2>3, <2>8
  <2> QED BY <2>5, <2>6, <2>7, <2>8, <2>9, SMTT(20)
<1>3. ASSUME NEW x \in net, Reject(x) PROVE Types'
  BY <1>3 DEF Reject
<1>4. ASSUME Tick PROVE Types'
  <2> DEFINE Older(a) == IF a < LongAgo THEN a + 1 ELSE a
  <2>1. /\ neighbors' = [n \in Nodes |-> [m \in Known(n) |->
                            [neighbors[n][m] EXCEPT !.age = Older(@)]]]
        /\ wait' = [n \in Nodes |-> IF wait[n] = NoTimer THEN NoTimer ELSE wait[n] - 1]
        /\ close' = [n \in Nodes |->
                       [m \in Nodes |-> IF InRange(n, m) /\ close[n][m] < LongAgo
                                        THEN close[n][m] + 1 ELSE close[n][m]]]
        /\ UNCHANGED <<place, running, purged, net, moves, heard>>
        /\ \A n \in Nodes : wait[n] # 0
    BY <1>4 DEF Tick
  <2>2. \A n \in Nodes : /\ Known(n)' = Known(n)
                         /\ neighbors'[n] \in [Known(n) -> NeighborRecord]
    <3>1. \A a \in 0..LongAgo : Older(a) \in 0..LongAgo
      OBVIOUS
    <3>2. \A r \in NeighborRecord : [r EXCEPT !.age = Older(@)] \in NeighborRecord
      <4>1. \A r \in NeighborRecord : r.age \in 0..LongAgo
        BY DEF NeighborRecord
      <4> QED BY <3>1, <4>1, AgeSet
    <3> QED BY <2>1, <3>2
  <2>3. wait' \in [Nodes -> {NoTimer} \cup (0..MaxDelay)]
    BY <2>1
  <2>4. close' \in [Nodes -> [Nodes -> 0..LongAgo]]
    BY <2>1, SMTT(20)
  <2>5. neighbors' = [n \in Nodes |-> neighbors'[n]] /\ DOMAIN neighbors' = Nodes
    BY <2>1
  <2> QED BY <2>1, <2>2, <2>3, <2>4, <2>5
<1>5. ASSUME NEW n \in Nodes, NEW p \in Places, Move(n, p) PROVE Types'
  <2>1. /\ place' \in [Nodes -> Places] /\ moves' \in 0..MaxMoves
        /\ UNCHANGED <<running, purged, wait, neighbors, net, heard>>
    BY <1>5 DEF Move
  <2>2. close' \in [Nodes -> [Nodes -> 0..LongAgo]]
    <3>1. close' = [a \in Nodes |-> [b \in Nodes |->
                     IF <<place'[a], place'[b]>> \in Near THEN close[a][b] ELSE 0]]
      BY <1>5 DEF Move, InRange
    <3>2. \A a, b \in Nodes : close[a][b] \in 0..LongAgo
      OBVIOUS
    <3>3. 0 \in 0..LongAgo
      OBVIOUS
    <3> HIDE DEF Types, TypeOK, LongAgo
    <3> QED BY ONLY <3>1, <3>2, <3>3
  <2>3. \A a, b \in Nodes : close'[a][b] \in 0..LongAgo
    BY <2>2
  <2>4. /\ neighbors' = [a \in Nodes |-> neighbors'[a]] /\ DOMAIN neighbors' = Nodes
        /\ \A a \in Nodes : /\ Known(a)' \subseteq Nodes \ {a}
                            /\ neighbors'[a] \in [Known(a)' -> NeighborRecord]
    BY <2>1
  <2>5. /\ running' \subseteq Nodes /\ purged' \in BOOLEAN /\ net' \subseteq Beacon
        /\ wait' \in [Nodes -> {NoTimer} \cup (0..MaxDelay)]
        /\ heard' \in [Nodes -> [Nodes -> Seq(Places)]]
        /\ \A a, b \in Nodes : heard'[a][b] \in Seq(Places)
    BY <2>1
  <2> QED BY <2>1, <2>2, <2>3, <2>4, <2>5
<1>6. ASSUME NEW n \in Nodes, Stop(n) PROVE Types'
  BY <1>6 DEF Stop, Cancelled
<1>7. ASSUME UNCHANGED vars PROVE Types'
  BY <1>7 DEF vars
<1> QED BY <1>1, <1>2, <1>3, <1>4, <1>5, <1>6, <1>7 DEF Next

\* Reading inverted, every beacon is taken for a response.
LEMMA NextNoResponses == Types /\ NoResponses /\ [Next]_vars => NoResponses'
<1> SUFFICES ASSUME Types, NoResponses, [Next]_vars PROVE NoResponses'
  OBVIOUS
<1> USE DEF NoResponses
<1>1. ASSUME NEW n \in Nodes, SendBeacon(n) PROVE NoResponses'
  BY <1>1 DEF SendBeacon, Beacons
<1>2. ASSUME NEW x \in net, Receive(x) PROVE NoResponses'
  BY <1>2 DEF Receive, ReadBack
<1>3. ASSUME NEW x \in net, Reject(x) PROVE NoResponses'
  BY <1>3 DEF Reject
<1>4. ASSUME UNCHANGED net PROVE NoResponses'
  BY <1>4
<1> QED
  BY <1>1, <1>2, <1>3, <1>4 DEF Next, Tick, Move, Stop, vars

LEMMA NextTimers == Types /\ Timers /\ [Next]_vars => Timers'
<1> SUFFICES ASSUME Types, Timers, [Next]_vars PROVE Timers'
  OBVIOUS
<1> USE DEF Timers, Types, TypeOK, NoTimer
<1>1. ASSUME NEW n \in Nodes, SendBeacon(n) PROVE Timers'
  BY <1>1 DEF SendBeacon, Armed, Delays
<1>2. ASSUME Tick PROVE Timers'
  BY <1>2 DEF Tick
<1>3. ASSUME NEW n \in Nodes, Stop(n) PROVE Timers'
  BY <1>3 DEF Stop, Cancelled
<1>4. ASSUME UNCHANGED <<running, purged, wait>> PROVE Timers'
  BY <1>4
<1> QED
  BY <1>1, <1>2, <1>3, <1>4 DEF Next, Receive, Reject, Move, vars

LEMMA NextHeard ==
  Types /\ Timers /\ NoResponses /\ Heard /\ [Next]_vars => Heard'
<1> SUFFICES ASSUME Types, Timers, NoResponses, Heard, [Next]_vars, ~purged',
                    NEW n \in Nodes, NEW m \in Nodes \ {n},
                    (close[n][m] + wait[m])' > MaxDelay
             PROVE  \/ OnTheAir(m, n)'
                    \/ m \in Known(n)' /\ (neighbors[n][m].age + wait[m])' <= MaxDelay
  BY DEF Heard
<1> DEFINE Now  == close[n][m] + wait[m] > MaxDelay
           Good == m \in Known(n) /\ neighbors[n][m].age + wait[m] <= MaxDelay
<1>0. /\ wait[m] \in {NoTimer} \cup (0..MaxDelay)
      /\ close[n][m] \in 0..LongAgo
      /\ m \in Known(n) => neighbors[n][m].age \in 0..LongAgo
  BY DEF Types, TypeOK, NeighborRecord
<1>1. ~purged => running = Nodes /\ wait[m] # NoTimer
  BY DEF Timers
<1>2. ~purged /\ Now => OnTheAir(m, n) \/ Good
  BY DEF Heard
<1>3. ASSUME NEW k \in Nodes, SendBeacon(k)
      PROVE  OnTheAir(m, n)' \/ Good'
  <2>1. PICK reached \in SUBSET Others(k), delay \in Delays :
          /\ net' = net \cup Beacons(k, reached, FALSE)
          /\ close' = [x \in Nodes |->
                         [close[x] EXCEPT ![k] = IF x \in reached THEN @ ELSE 0]]
          /\ wait' = [wait EXCEPT ![k] = Armed(delay)]
          /\ UNCHANGED <<purged, neighbors>>
    BY <1>3 DEF SendBeacon
  <2>2. close'[n][m] = IF m = k /\ n \notin reached THEN 0 ELSE close[n][m]
    BY <2>1 DEF Types
  <2>3. CASE m # k
    <3>1. wait'[m] = wait[m] /\ close'[n][m] = close[n][m]
      BY <2>1, <2>2, <2>3 DEF Types, TypeOK
    <3> QED BY <3>1, <2>1, <1>2 DEF OnTheAir, Known
  <2>4. CASE m = k /\ n \in reached
    <3> DEFINE b == [from |-> m, to |-> n, position |-> place[m], is_response |-> FALSE]
    <3>1. b \in net'
      BY <2>1, <2>4 DEF Beacons
    <3>2. b.from = m /\ b.to = n
      OBVIOUS
    <3> HIDE DEF b
    <3>3. \E x \in net' : x.from = m /\ x.to = n
      BY <3>1, <3>2
    <3> QED BY <3>3 DEF OnTheAir
  <2>5. CASE m = k /\ n \notin reached
    <3>1. wait'[m] = delay /\ delay \in 1..MaxDelay
      BY <2>1, <2>5 DEF Types, TypeOK, Armed, Delays
    <3> QED BY ONLY <3>1, <2>2, <2>5, NeighborAssumption,
                    (close[n][m] + wait[m])' > MaxDelay DEF NeighborAssumption
  <2> QED BY <2>3, <2>4, <2>5
<1>4. ASSUME NEW x \in net, Receive(x)
      PROVE  OnTheAir(m, n)' \/ Good'
  <2>1. /\ ~purged
        /\ UNCHANGED <<wait, close>>
        /\ net \ {x} \subseteq net'
        /\ neighbors' = [neighbors EXCEPT ![x.to] = Saw(neighbors[x.to], x.from, x.position)]
    BY <1>4 DEF Receive
  <2>2. x.from \in Nodes /\ x.to \in Nodes /\ x.position \in Places
    BY DEF Types, TypeOK, Beacon
  <2>3. \A k \in Nodes : neighbors[k] \in [DOMAIN neighbors[k] -> NeighborRecord]
    BY DEF Types, TypeOK, Known
  <2>4. CASE x.from = m /\ x.to = n
    <3>1. neighbors'[n] = Saw(neighbors[n], m, x.position)
      BY <2>1, <2>4 DEF Types
    <3>2. neighbors[n] \in [DOMAIN neighbors[n] -> NeighborRecord]
      BY <2>3
    <3>3. m \in DOMAIN neighbors'[n] /\ neighbors'[n][m].age = 0
      <4> DEFINE s == Saw(neighbors[n], m, x.position)
      <4>1. s \in [{m} \cup DOMAIN neighbors[n] -> NeighborRecord] /\ s[m] \in JustSeen
        BY ONLY <3>2, <2>2, SawRecord
      <4> HIDE DEF s
      <4>2. m \in DOMAIN s
        BY <4>1
      <4> QED BY <4>1, <4>2, <3>1 DEF s, JustSeen
    <3> QED BY <3>3, <2>1, <1>0, <1>1 DEF Known, NoTimer
  <2>5. CASE ~(x.from = m /\ x.to = n)
    <3>1. OnTheAir(m, n) => OnTheAir(m, n)'
      BY <2>1, <2>5 DEF OnTheAir
    <3>2. CASE x.to = n
      <4>1. neighbors'[n] = Saw(neighbors[n], x.from, x.position)
        BY <2>1, <3>2 DEF Types
      <4>2. m \in Known(n) => m \in Known(n)' /\ neighbors'[n][m] = neighbors[n][m]
        <5>1. m # x.from
          BY <2>5, <3>2
        <5> DEFINE s == Saw(neighbors[n], x.from, x.position)
        <5>2. m \in DOMAIN neighbors[n] => m \in DOMAIN s /\ s[m] = neighbors[n][m]
          BY ONLY <5>1, SawOthers
        <5>3. neighbors'[n] = s
          BY <4>1
        <5> HIDE DEF s
        <5> QED BY ONLY <5>2, <5>3 DEF Known
      <4> QED BY <4>2, <3>1, <2>1, <1>2
    <3>3. CASE x.to # n
      <4>1. neighbors'[n] = neighbors[n]
        BY <2>1, <3>3 DEF Types
      <4> QED BY <4>1, <3>1, <2>1, <1>2 DEF Known
    <3> QED BY <3>2, <3>3
  <2> QED BY <2>4, <2>5
<1>5. ASSUME NEW x \in net, Reject(x)
      PROVE  OnTheAir(m, n)' \/ Good'
  <2>1. ~purged /\ UNCHANGED <<wait, close, neighbors>> /\ net' = net \ {x}
    BY <1>5 DEF Reject
  <2>2. x.to = x.from
    BY <1>5, <1>1, <2>1 DEF Reject, Accepted, Types, TypeOK, Beacon
  <2>3. OnTheAir(m, n) => OnTheAir(m, n)'
    BY <2>1, <2>2 DEF OnTheAir
  <2> QED BY <2>1, <2>3, <1>2 DEF Known
<1>6. ASSUME Tick
      PROVE  OnTheAir(m, n)' \/ Good'
  <2>1. /\ ~purged /\ net = {}
        /\ wait[m] # 0 /\ wait'[m] = wait[m] - 1
        /\ close'[n][m] <= close[n][m] + 1
    BY <1>6, <1>0, <1>1 DEF Tick
  <2>2. Now /\ ~OnTheAir(m, n)
    <3>1. close'[n][m] \in Int
      BY NextTypes DEF Types, LongAgo
    <3> QED BY <2>1, <3>1, <1>0, <1>1 DEF OnTheAir, NoTimer, LongAgo
  <2>3. Good
    BY <2>1, <2>2, <1>2
  <2>4. /\ m \in Known(n)' /\ neighbors'[n][m].age \in Int
        /\ neighbors'[n][m].age <= neighbors[n][m].age + 1
    <3>1. /\ m \in Known(n) /\ DOMAIN neighbors'[n] = Known(n)
          /\ neighbors'[n][m] = [neighbors[n][m] EXCEPT !.age = IF @ < LongAgo THEN @ + 1 ELSE @]
      BY <1>6, <2>3 DEF Tick
    <3>2. neighbors[n][m] \in NeighborRecord
      BY <3>1 DEF Types, TypeOK
    <3> QED BY <3>1, <3>2 DEF Known, NeighborRecord, LongAgo
  <2> QED BY <2>1, <2>3, <2>4, <1>0, <1>1 DEF NoTimer, LongAgo
<1>7. ASSUME NEW k \in Nodes, NEW p \in Places, Move(k, p)
      PROVE  OnTheAir(m, n)' \/ Good'
  <2>1. /\ UNCHANGED <<wait, purged, neighbors, net>>
        /\ close'[n][m] = close[n][m] \/ close'[n][m] = 0
    BY <1>7 DEF Move, InRange
  <2>2. ~purged /\ Now
    BY <2>1, <1>0, <1>1 DEF NoTimer
  <2> QED BY <2>1, <2>2, <1>2 DEF OnTheAir, Known
<1>8. ASSUME NEW k \in Nodes, Stop(k) PROVE FALSE
  BY <1>8 DEF Stop
<1>9. ASSUME UNCHANGED vars
      PROVE  OnTheAir(m, n)' \/ Good'
  BY <1>9, <1>2 DEF vars, OnTheAir, Known
<1> QED
  BY <1>3, <1>4, <1>5, <1>6, <1>7, <1>8, <1>9 DEF Next

LEMMA NextFresh ==
  Types /\ Timers /\ Heard /\ FreshWhileInRange /\ [Next]_vars => FreshWhileInRange'
<1> SUFFICES ASSUME Types, Timers, Heard, FreshWhileInRange, [Next]_vars, ~purged',
                    NEW n \in Nodes, NEW m \in Nodes \ {n}, close'[n][m] = LongAgo
             PROVE  m \in Known(n)' /\ neighbors'[n][m].age <= MaxDelay
  BY DEF FreshWhileInRange, LongAgo
<1>0. /\ wait[m] \in {NoTimer} \cup (0..MaxDelay)
      /\ close[n][m] \in 0..LongAgo
      /\ m \in Known(n) => neighbors[n][m].age \in 0..LongAgo
  BY DEF Types, TypeOK, NeighborRecord
<1>1. close[n][m] = LongAgo /\ ~purged => m \in Known(n) /\ neighbors[n][m].age <= MaxDelay
  BY DEF FreshWhileInRange
<1>2. ASSUME NEW k \in Nodes, SendBeacon(k)
      PROVE  m \in Known(n)' /\ neighbors'[n][m].age <= MaxDelay
  <2>1. UNCHANGED <<purged, neighbors>> /\ close'[n][m] \in {0, close[n][m]}
    BY <1>2 DEF SendBeacon, Types
  <2> QED BY <2>1, <1>1 DEF Known, LongAgo
<1>3. ASSUME NEW x \in net, Receive(x)
      PROVE  m \in Known(n)' /\ neighbors'[n][m].age <= MaxDelay
  <2>1. /\ ~purged /\ UNCHANGED close
        /\ neighbors' = [neighbors EXCEPT ![x.to] = Saw(neighbors[x.to], x.from, x.position)]
    BY <1>3 DEF Receive
  <2>2. m \in Known(n) /\ neighbors[n][m].age <= MaxDelay
    BY <1>1, <2>1
  <2>3. x.from \in Nodes /\ x.to \in Nodes /\ x.position \in Places
    BY DEF Types, TypeOK, Beacon
  <2>4. neighbors[n] \in [DOMAIN neighbors[n] -> NeighborRecord]
    BY DEF Types, TypeOK, Known
  <2>5. CASE x.to = n
    <3> DEFINE s == Saw(neighbors[n], x.from, x.position)
    <3>1. neighbors'[n] = s
      BY <2>1, <2>5 DEF Types
    <3>2. m \in DOMAIN neighbors[n]
      BY <2>2 DEF Known
    <3>3. CASE x.from = m
      <4>1. s \in [{x.from} \cup DOMAIN neighbors[n] -> NeighborRecord] /\ s[x.from] \in JustSeen
        BY ONLY <2>3, <2>4, SawRecord
      <4> HIDE DEF s
      <4>2. m \in DOMAIN s /\ s[m].age = 0
        BY <4>1, <3>3 DEF JustSeen
      <4> QED BY ONLY <3>1, <4>2, NeighborAssumption DEF Known, NeighborAssumption
    <3>4. CASE x.from # m
      <4>1. m \in DOMAIN s /\ s[m] = neighbors[n][m]
        BY ONLY <3>2, <3>4, SawOthers
      <4> HIDE DEF s
      <4> QED BY <3>1, <4>1, <2>2 DEF Known
    <3> QED BY <3>3, <3>4
  <2>6. CASE x.to # n
    <3>1. neighbors'[n] = neighbors[n]
      BY <2>1, <2>6 DEF Types
    <3> QED BY <3>1, <2>2 DEF Known
  <2> QED BY <2>5, <2>6
<1>4. ASSUME Tick
      PROVE  m \in Known(n)' /\ neighbors'[n][m].age <= MaxDelay
  <2>1. /\ ~purged /\ net = {} /\ wait[m] # 0
        /\ close'[n][m] <= close[n][m] + 1
    BY <1>4, <1>0 DEF Tick
  <2>2. wait[m] \in 1..MaxDelay
    BY <2>1, <1>0 DEF Timers
  <2>3. close[n][m] + wait[m] > MaxDelay
    BY <2>1, <2>2, <1>0 DEF LongAgo
  <2>4. m \in Known(n) /\ neighbors[n][m].age + wait[m] <= MaxDelay
    BY <2>1, <2>3 DEF Heard, OnTheAir
  <2>5. /\ DOMAIN neighbors'[n] = Known(n)
        /\ neighbors'[n][m] = [neighbors[n][m] EXCEPT !.age = IF @ < LongAgo THEN @ + 1 ELSE @]
    BY <1>4, <2>4 DEF Tick
  <2>6. neighbors[n][m] \in NeighborRecord
    BY <2>4 DEF Types, TypeOK
  <2> DEFINE a == neighbors[n][m].age
  <2>7. neighbors'[n][m].age = IF a < LongAgo THEN a + 1 ELSE a
    BY ONLY <2>5, <2>6 DEF NeighborRecord
  <2>8. a \in 0..LongAgo
    BY <1>0, <2>4
  <2>9. a + wait[m] <= MaxDelay
    BY <2>4
  <2> HIDE DEF a
  <2>10. neighbors'[n][m].age <= MaxDelay
    BY ONLY <2>2, <2>7, <2>8, <2>9, NeighborAssumption DEF LongAgo
  <2> QED BY <2>4, <2>5, <2>10 DEF Known
<1>5. ASSUME NEW k \in Nodes, NEW p \in Places, Move(k, p)
      PROVE  m \in Known(n)' /\ neighbors'[n][m].age <= MaxDelay
  <2>1. UNCHANGED <<purged, neighbors>> /\ close'[n][m] \in {0, close[n][m]}
    BY <1>5 DEF Move, InRange
  <2> QED BY <2>1, <1>1 DEF Known, LongAgo
<1>6. ASSUME UNCHANGED <<purged, neighbors, close>>
      PROVE  m \in Known(n)' /\ neighbors'[n][m].age <= MaxDelay
  BY <1>6, <1>1 DEF Known
<1> QED
  BY <1>2, <1>3, <1>4, <1>5, <1>6 DEF Next, Reject, Stop, vars

\* The inductive invariant holds in every behaviour.
LEMMA Invariant == Spec => []IInv
<1>1. IInv /\ [Next]_vars => IInv'
  BY NextTypes, NextTimers, NextHeard, NextNoResponses, NextFresh DEF IInv
<1> QED BY <1>1, InitIInv, PTL DEF Spec

-----------------------------------------------------------------------------
(* The ring of positions *)

\* Indices of the ring.
Wrapped(a) == a % Depth

LEMMA WrappedIs ==
  ASSUME NEW a \in Nat, a <= 2 * Depth
  PROVE  Wrapped(a) = IF a < Depth THEN a ELSE IF a < 2 * Depth THEN a - Depth ELSE 0
<1>0. PICK n \in Nat \ {0} : n = Depth
  BY NeighborAssumption
<1> DEFINE k == a \div n
           r == a % n
<1>1. a = n * k + r /\ r \in 0..n - 1 /\ k \in Int
  OBVIOUS
<1>2. r = Wrapped(a)
  BY <1>0 DEF Wrapped
<1> HIDE DEF k, r
<1>3. k = 0 \/ k = 1 \/ k = 2
  <2>1. n * k <= 2 * n /\ n * k > -n
    BY <1>0, <1>1
  <2>2. ~(k >= 3)
    <3> SUFFICES ASSUME k >= 3 PROVE n * k >= n * 3
      BY <1>1, <2>1
    <3> QED BY <1>1
  <2>3. ~(k <= -1)
    <3> SUFFICES ASSUME k <= -1 PROVE n * k <= n * (-1)
      BY <1>1, <2>1
    <3> QED BY <1>1
  <2> QED BY <1>1, <2>2, <2>3
<1>4. CASE k = 0
  <2>1. n * k = 0
    BY <1>4
  <2> QED BY <1>0, <1>1, <1>2, <2>1
<1>5. CASE k = 1
  <2>1. n * k = n
    BY <1>5
  <2> QED BY <1>0, <1>1, <1>2, <2>1
<1>6. CASE k = 2
  <2>1. n * k = 2 * n
    BY <1>6
  <2> QED BY <1>0, <1>1, <1>2, <2>1
<1> QED BY <1>3, <1>4, <1>5, <1>6

\* How far the ring is filled, and where its oldest position is.
Filled(r) ==
  IF r.i < Depth THEN r.sz = r.i /\ r.first = 0
                 ELSE r.sz = Depth /\ r.first = r.i - Depth

\* The ring r holds the positions s, oldest first.
Holds(r, s) == Len(s) = r.sz /\ \A k \in 1..r.sz : s[k] = At(r, k - 1)

\* The fields of the ring after push_back().
LEMMA PushedFields ==
  ASSUME NEW r \in NeighborRecord, NEW p \in Places
  PROVE  /\ Pushed(r, p).v = [r.v EXCEPT ![Wrapped(r.i)] = p]
         /\ Pushed(r, p).first = (IF r.i >= Depth THEN Wrapped(r.i + 1) ELSE r.first)
         /\ Pushed(r, p).i = (IF r.i + 1 = 2 * Depth THEN Depth ELSE r.i + 1)
         /\ Pushed(r, p).sz = (IF r.sz < Depth THEN r.sz + 1 ELSE r.sz)
BY DEF Pushed, NeighborRecord, Wrapped

\* push_back() forgets the oldest position of a full ring, and nothing else.
LEMMA PushedHolds ==
  ASSUME NEW r \in NeighborRecord, NEW s \in Seq(Places), NEW p \in Places,
         Filled(r), Holds(r, s)
  PROVE  Filled(Pushed(r, p)) /\ Holds(Pushed(r, p), LastOf(Append(s, p)))
<1>1. PICK q : q = Pushed(r, p)
  OBVIOUS
<1>2. PICK d \in Nat \ {0} : d = Depth
  BY NeighborAssumption
<1>3. PICK i \in Nat, f \in Nat, z \in Nat, v \in [0..d - 1 -> Places \cup {NoPlace}] :
        i = r.i /\ f = r.first /\ z = r.sz /\ v = r.v /\ i < 2 * d
  BY <1>2 DEF NeighborRecord
<1>4. /\ q.v = [v EXCEPT ![Wrapped(i)] = p]
      /\ q.first = (IF i >= d THEN Wrapped(i + 1) ELSE f)
      /\ q.i = (IF i + 1 = 2 * d THEN d ELSE i + 1)
      /\ q.sz = (IF z < d THEN z + 1 ELSE z)
  BY <1>1, <1>2, <1>3, PushedFields
<1>5. IF i < d THEN z = i /\ f = 0 ELSE z = d /\ f = i - d
  BY <1>2, <1>3 DEF Filled
<1>6. Len(s) = z /\ \A k \in 1..z : s[k] = v[Wrapped(f + (k - 1))]
  BY <1>2, <1>3 DEF Holds, At, Wrapped
<1> DEFINE t == LastOf(Append(s, p))
<1>7. /\ Append(s, p) \in Seq(Places) /\ Len(Append(s, p)) = z + 1
      /\ \A k \in 1..z : Append(s, p)[k] = s[k]
      /\ Append(s, p)[z + 1] = p
  BY <1>6
<1>8. \A a \in 0..2 * d : Wrapped(a) = IF a < d THEN a ELSE IF a < 2 * d THEN a - d ELSE 0
  BY <1>2, WrappedIs
<1>9. CASE i < d
  <2>1. z = i /\ f = 0 /\ Wrapped(i) = i /\ i \in 0..d - 1
    BY <1>5, <1>8, <1>9
  <2>2. q.v = [v EXCEPT ![i] = p] /\ q.first = 0 /\ q.sz = i + 1
    BY <1>4, <1>9, <2>1
  <2>3. q.i = i + 1
    BY <1>4, <1>9
  <2>4. t = Append(s, p)
    BY <1>2, <1>7, <1>9, <2>1 DEF LastOf
  <2>5. Filled(q)
    BY <1>2, <1>9, <2>2, <2>3 DEF Filled
  <2>6. ASSUME NEW k \in 1..i + 1 PROVE t[k] = q.v[Wrapped(0 + (k - 1))]
    <3>1. Wrapped(0 + (k - 1)) = k - 1 /\ k - 1 \in 0..d - 1
      BY <1>8, <1>9
    <3>2. CASE k = i + 1
      BY <1>7, <2>1, <2>2, <2>4, <3>1, <3>2
    <3>3. CASE k # i + 1
      <4>1. k \in 1..z
        BY <2>1, <3>3
      <4>2. q.v[k - 1] = v[k - 1]
        BY <2>1, <2>2, <3>1, <3>3
      <4>3. t[k] = v[Wrapped(f + (k - 1))]
        BY <1>6, <1>7, <2>4, <4>1
      <4> QED BY <2>1, <3>1, <4>2, <4>3
    <3> QED BY <3>2, <3>3
  <2>7. Holds(q, t)
    <3>1. Len(t) = q.sz
      BY <1>7, <2>1, <2>2, <2>4
    <3> HIDE DEF t
    <3> QED BY <1>2, <2>2, <2>6, <3>1 DEF Holds, At, Wrapped
  <2> QED BY <1>1, <2>5, <2>7
<1>10. CASE i >= d
  <2> DEFINE g == IF f + 1 = d THEN 0 ELSE f + 1
  <2>1. z = d /\ f = i - d /\ f \in 0..d - 1 /\ Wrapped(i) = f
    BY <1>3, <1>5, <1>8, <1>10
  <2>2. Wrapped(i + 1) = g
    BY <1>3, <1>8, <1>10, <2>1, SMTT(20)
  <2>3. q.v = [v EXCEPT ![f] = p] /\ q.first = g /\ q.sz = d
    BY <1>4, <1>10, <2>1, <2>2
  <2>4. q.i \in Nat /\ q.i >= d /\ g = q.i - d
    <3>1. i + 1 = 2 * d <=> f + 1 = d
      BY <2>1
    <3>2. CASE f + 1 = d
      BY <1>4, <3>1, <3>2
    <3>3. CASE f + 1 # d
      BY <1>4, <1>10, <2>1, <3>1, <3>3
    <3> QED BY <3>2, <3>3
  <2> HIDE DEF g
  <2>5. Filled(q)
    BY <1>2, <2>3, <2>4 DEF Filled
  <2>6. /\ t = Tail(Append(s, p)) /\ Len(t) = d
        /\ \A k \in 1..d : t[k] = Append(s, p)[k + 1]
    <3>1. t = Tail(Append(s, p))
      BY <1>2, <1>7, <2>1 DEF LastOf
    <3>2. PICK a : a = Append(s, p)
      OBVIOUS
    <3>3. a \in Seq(Places) /\ Len(a) = d + 1
      BY <1>7, <2>1, <3>2
    <3>4. Len(Tail(a)) = d /\ \A k \in 1..d : Tail(a)[k] = a[k + 1]
      BY <3>3
    <3> QED BY <3>1, <3>2, <3>4
  <2>7. ASSUME NEW k \in 1..d PROVE t[k] = q.v[Wrapped(g + (k - 1))]
    <3> HIDE DEF t
    <3>1. CASE k = d
      <4>1. t[k] = p
        BY <1>7, <2>1, <2>6, <3>1
      <4>2. Wrapped(g + (k - 1)) = f
        BY <1>8, <2>1, <3>1 DEF g
      <4> QED BY <2>1, <2>3, <4>1, <4>2
    <3>2. CASE k # d
      <4>1. k + 1 \in 1..z
        BY <2>1, <3>2
      <4>2. t[k] = v[Wrapped(f + k)]
        <5>1. t[k] = s[k + 1]
          BY <1>7, <2>6, <4>1
        <5>2. s[k + 1] = v[Wrapped(f + ((k + 1) - 1))]
          BY <1>6, <4>1
        <5>3. f + ((k + 1) - 1) = f + k
          OBVIOUS
        <5> QED BY <5>1, <5>2, <5>3
      <4>3. Wrapped(g + (k - 1)) = Wrapped(f + k) /\ Wrapped(f + k) \in 0..d - 1
            /\ Wrapped(f + k) # f
        <5>1. Wrapped(f + k) = IF f + k < d THEN f + k ELSE f + k - d
          BY <1>8, <2>1, <3>2
        <5>2. Wrapped(g + (k - 1)) = IF g + (k - 1) < d THEN g + (k - 1) ELSE g + (k - 1) - d
          BY <1>8, <2>1, <3>2 DEF g
        <5> QED BY <5>1, <5>2, <2>1, <3>2 DEF g
      <4> QED BY <2>1, <2>3, <4>2, <4>3
    <3> QED BY <3>1, <3>2
  <2>8. Holds(q, t)
    <3> HIDE DEF t
    <3> QED BY <1>2, <2>3, <2>6, <2>7 DEF Holds, At, Wrapped
  <2> QED BY <1>1, <2>5, <2>8
<1> QED BY <1>3, <1>9, <1>10

\* The time since a node was seen is no part of the ring.
LEMMA AgeHolds ==
  ASSUME NEW r \in NeighborRecord, NEW a, NEW s, Filled(r), Holds(r, s)
  PROVE  LET q == [r EXCEPT !.age = a] IN Filled(q) /\ Holds(q, s)
<1>1. PICK q : q = [r EXCEPT !.age = a]
  OBVIOUS
<1>2. q.v = r.v /\ q.i = r.i /\ q.sz = r.sz /\ q.first = r.first
  BY <1>1 DEF NeighborRecord
<1>3. Filled(q)
  BY <1>2 DEF Filled
<1>4. Holds(q, s)
  BY <1>2 DEF Holds, At
<1> QED BY <1>1, <1>3, <1>4

\* A table holds s as the positions of m.
Told(known, m, s) ==
  IF m \in DOMAIN known THEN Filled(known[m]) /\ Holds(known[m], s) ELSE s = << >>

\* saw() adds the position to those of the sender.
LEMMA SawHolds ==
  ASSUME NEW known, known \in [DOMAIN known -> NeighborRecord], NEW m, NEW p \in Places,
         NEW s \in Seq(Places), Told(known, m, s)
  PROVE  Told(Saw(known, m, p), m, LastOf(Append(s, p)))
<1> DEFINE r == IF m \in DOMAIN known THEN known[m] ELSE NewRecord
           q == [Pushed(r, p) EXCEPT !.age = 0]
<1>1. r \in NeighborRecord
  BY NewRecordType
<1>2. Filled(r) /\ Holds(r, s)
  <2>1. CASE m \in DOMAIN known
    BY <2>1 DEF Told
  <2>2. CASE m \notin DOMAIN known
    <3>1. s = << >> /\ Len(s) = 0
      BY <2>2 DEF Told
    <3>2. r.i = 0 /\ r.sz = 0 /\ r.first = 0
      BY <2>2 DEF NewRecord
    <3> QED BY <3>1, <3>2 DEF Filled, Holds
  <2> QED BY <2>1, <2>2
<1>3. Saw(known, m, p) = [x \in {m} \cup DOMAIN known |-> IF x = m THEN q ELSE known[x]]
  BY DEF Saw
<1> HIDE DEF r
<1>4. PICK a : a = Pushed(r, p)
  OBVIOUS
<1>5. a \in NeighborRecord /\ Filled(a) /\ Holds(a, LastOf(Append(s, p)))
  BY <1>1, <1>2, <1>4, PushedRecord, PushedHolds
<1>6. Filled(q) /\ Holds(q, LastOf(Append(s, p)))
  BY <1>4, <1>5, AgeHolds
<1> HIDE DEF q
<1>7. m \in DOMAIN Saw(known, m, p) /\ Saw(known, m, p)[m] = q
  BY <1>3
<1> QED BY <1>6, <1>7 DEF Told

\* Every table holds what its node was told.
AllTold == \A n, m \in Nodes : Told(neighbors[n], m, heard[n][m])

LEMMA InitAllTold == Init => AllTold
<1> SUFFICES ASSUME Init, NEW n \in Nodes, NEW m \in Nodes
             PROVE  Told(neighbors[n], m, heard[n][m])
  BY DEF AllTold
<1>1. neighbors[n] = << >> /\ heard[n][m] = << >>
  BY DEF Init
<1>2. DOMAIN << >> = {}
  OBVIOUS
<1> QED BY <1>1, <1>2 DEF Told

LEMMA NextAllTold == Types /\ AllTold /\ [Next]_vars => AllTold'
<1> SUFFICES ASSUME Types, AllTold, [Next]_vars PROVE AllTold'
  OBVIOUS
<1>0. \A n, m \in Nodes : /\ neighbors[n] \in [DOMAIN neighbors[n] -> NeighborRecord]
                          /\ heard[n][m] \in Seq(Places)
                          /\ Told(neighbors[n], m, heard[n][m])
  BY DEF Types, TypeOK, Known, AllTold
<1>1. ASSUME NEW x \in net, Receive(x) PROVE AllTold'
  <2>1. x.from \in Nodes /\ x.to \in Nodes /\ x.position \in Places
    BY DEF Types, TypeOK, Beacon
  <2>2. /\ neighbors' = [neighbors EXCEPT ![x.to] = Saw(neighbors[x.to], x.from, x.position)]
        /\ heard' = [heard EXCEPT ![x.to][x.from]
                       = LastOf(Append(heard[x.to][x.from], x.position))]
    BY <1>1 DEF Receive
  <2>3. DOMAIN neighbors = Nodes /\ heard \in [Nodes -> [Nodes -> Seq(Places)]]
    BY DEF Types, TypeOK
  <2> SUFFICES ASSUME NEW n \in Nodes, NEW m \in Nodes
               PROVE  Told(neighbors'[n], m, heard'[n][m])
    BY DEF AllTold
  <2>4. CASE n # x.to
    <3>1. neighbors'[n] = neighbors[n] /\ heard'[n][m] = heard[n][m]
      BY <2>2, <2>3, <2>4
    <3> QED BY <1>0, <3>1
  <2>5. CASE n = x.to /\ m = x.from
    <3>1. /\ neighbors'[n] = Saw(neighbors[n], m, x.position)
          /\ heard'[n][m] = LastOf(Append(heard[n][m], x.position))
      BY <2>1, <2>2, <2>3, <2>5
    <3>2. PICK known, s : known = neighbors[n] /\ s = heard[n][m]
      OBVIOUS
    <3>3. /\ known \in [DOMAIN known -> NeighborRecord] /\ s \in Seq(Places)
          /\ Told(known, m, s)
      BY <1>0, <3>2
    <3>4. Told(Saw(known, m, x.position), m, LastOf(Append(s, x.position)))
      BY <2>1, <3>3, SawHolds
    <3> QED BY <3>1, <3>2, <3>4
  <2>6. CASE n = x.to /\ m # x.from
    <3>1. /\ neighbors'[n] = Saw(neighbors[n], x.from, x.position)
          /\ heard'[n][m] = heard[n][m]
      BY <2>1, <2>2, <2>3, <2>6
    <3>2. CASE m \in DOMAIN neighbors[n]
      <4>1. m \in DOMAIN neighbors'[n] /\ neighbors'[n][m] = neighbors[n][m]
        BY <2>6, <3>1, <3>2, SawOthers
      <4> QED BY <1>0, <3>1, <3>2, <4>1 DEF Told
    <3>3. CASE m \notin DOMAIN neighbors[n]
      <4>1. m \notin DOMAIN neighbors'[n]
        BY <2>6, <3>1, <3>3 DEF Saw
      <4> QED BY <1>0, <3>1, <3>3, <4>1 DEF Told
    <3> QED BY <3>2, <3>3
  <2> QED BY <2>4, <2>5, <2>6
<1>2. ASSUME Tick PROVE AllTold'
  <2> DEFINE Older(a) == IF a < LongAgo THEN a + 1 ELSE a
  <2>1. /\ neighbors' = [n \in Nodes |-> [m \in Known(n) |->
                            [neighbors[n][m] EXCEPT !.age = Older(@)]]]
        /\ heard' = heard
    BY <1>2 DEF Tick
  <2> SUFFICES ASSUME NEW n \in Nodes, NEW m \in Nodes
               PROVE  Told(neighbors'[n], m, heard'[n][m])
    BY DEF AllTold
  <2>2. DOMAIN neighbors'[n] = DOMAIN neighbors[n]
    BY <2>1 DEF Known
  <2>3. CASE m \in DOMAIN neighbors[n]
    <3>1. PICK r \in NeighborRecord : r = neighbors[n][m]
      BY <1>0, <2>3
    <3>2. PICK a : a = Older(r.age)
      OBVIOUS
    <3>3. neighbors'[n][m] = [r EXCEPT !.age = a]
      BY <2>1, <2>3, <3>1, <3>2 DEF Known
    <3>4. Filled(r) /\ Holds(r, heard[n][m])
      BY <1>0, <2>3, <3>1 DEF Told
    <3>5. Filled(neighbors'[n][m]) /\ Holds(neighbors'[n][m], heard[n][m])
      BY <3>3, <3>4, AgeHolds
    <3> QED BY <2>1, <2>2, <2>3, <3>5 DEF Told
  <2>4. CASE m \notin DOMAIN neighbors[n]
    BY <1>0, <2>1, <2>2, <2>4 DEF Told
  <2> QED BY <2>3, <2>4
<1>3. ASSUME UNCHANGED <<neighbors, heard>> PROVE AllTold'
  BY <1>3 DEF AllTold
<1> QED BY <1>1, <1>2, <1>3 DEF Next, SendBeacon, Reject, Move, Stop, vars

-----------------------------------------------------------------------------
(* Theorems *)

\* Tables, histories and timers keep their types, the ring of positions its
\* indices, for any depth.
THEOREM NeighborTypeCorrect == Spec => []TypeOK
BY Invariant, PTL DEF IInv, Types

\* Whoever stayed in range of m for MaxDelay + 1 ticks without missing a beacon knows
\* m and has seen it within MaxDelay ticks, however the delays are drawn, the nodes
\* move and frames and timers interleave.
THEOREM TrackedWhileInRange == Spec => []FreshWhileInRange
BY Invariant, PTL DEF IInv

\* From the first StopApplication() on no node sends a beacon, whether its own
\* application was stopped or runs on, whichever timers were armed and beacons on the air.
THEOREM NoBeaconAfterStop == Spec => NoBeaconOnceStopped
<1>1. IInv /\ [Next]_vars => [purged => net' \subseteq net]_vars
  <2> SUFFICES ASSUME IInv, Next, purged PROVE net' \subseteq net
    OBVIOUS
  <2>1. \A n \in Nodes : ~SendBeacon(n)
    <3> SUFFICES ASSUME NEW n \in Nodes, SendBeacon(n) PROVE FALSE
      OBVIOUS
    <3> QED BY DEF IInv, Timers, SendBeacon, NoTimer
  <2>2. \A x \in net : Receive(x) => net' \subseteq net
    BY DEF IInv, NoResponses, Receive, ReadBack
  <2> QED BY <2>1, <2>2 DEF Next, Reject, Tick, Move, Stop
<1> QED BY <1>1, Invariant, PTL DEF Spec, NoBeaconOnceStopped

\* A record holds the last positions its node was told, oldest first, for any depth of
\* the ring and however often it has wrapped.
THEOREM LastPositionsKept == Spec => []PositionsAreTheLast
<1>1. Types /\ AllTold /\ [Next]_vars => AllTold'
  BY NextAllTold
<1>2. IInv /\ AllTold => PositionsAreTheLast
  <2> SUFFICES ASSUME Types, AllTold, NEW n \in Nodes, NEW m \in Nodes
               PROVE  IF m \in Known(n)
                      THEN LET r == neighbors[n][m]
                           IN  heard[n][m] = [k \in 1..r.sz |-> At(r, k - 1)]
                      ELSE heard[n][m] = << >>
    BY DEF IInv, PositionsAreTheLast
  <2>1. Told(neighbors[n], m, heard[n][m]) /\ heard[n][m] \in Seq(Places)
    BY DEF AllTold, Types
  <2>2. CASE m \in Known(n)
    <3>1. PICK s, r : s \in Seq(Places) /\ s = heard[n][m] /\ r = neighbors[n][m]
      BY <2>1
    <3>2. Len(s) = r.sz /\ \A k \in 1..r.sz : s[k] = At(r, k - 1)
      BY <2>1, <2>2, <3>1 DEF Told, Holds, Known
    <3>3. s = [k \in 1..r.sz |-> s[k]]
      BY <3>1, <3>2
    <3>4. s = [k \in 1..r.sz |-> At(r, k - 1)]
      BY ONLY <3>2, <3>3
    <3> QED BY <2>2, <3>1, <3>4
  <2>3. CASE m \notin Known(n)
    BY <2>1, <2>3 DEF Told, Known
  <2> QED BY <2>2, <2>3
<1>3. IInv => Types
  BY DEF IInv
<1> QED BY Invariant, InitAllTold, <1>1, <1>2, <1>3, PTL DEF Spec

=============================================================================
