---------------------------- MODULE NeighborHelper ----------------------------
(***************************************************************************)
(* Neighbour discovery: src/src/neighborhelperimpl.cpp with NeighborRecord *)
(* and CircularBuffer, on nodes that are started and stopped by            *)
(* Ns3NodeContainer, over LinkLayerImpl and Ns3InetLink, with the timers   *)
(* of src/ns3/src/async.cpp.                                               *)
(*                                                                         *)
(* Every node sends a beacon with its position every one to three seconds  *)
(* and keeps a record of every node it hears.  A tick is a second; within  *)
(* it the timers that are due fire and the frames arrive, in any order.    *)
(*                                                                         *)
(* refresh_neighbors() is no action: only schedule_refresh() arms it and   *)
(* only refresh_neighbors() calls schedule_refresh().  What feeds nothing  *)
(* else, the velocity and times_pinged, is left out.                       *)
(***************************************************************************)
EXTENDS Integers, Sequences

CONSTANTS Nodes,      \* the nodes
          Places,     \* positions
          Near,       \* pairs of places within radio range of each other
          NoPlace,    \* a slot of a position history that was never written
          Depth,      \* Capacity of NeighborRecord::positions (4)
          MaxDelay,   \* ticks between two beacons at most
          MaxMoves    \* bound: how often nodes move

ASSUME NeighborAssumption ==
  /\ Near \subseteq Places \X Places
  /\ \A pair \in Near : <<pair[2], pair[1]>> \in Near
  /\ NoPlace \notin Places
  /\ Depth \in Nat \ {0} /\ MaxDelay \in Nat \ {0} /\ MaxMoves \in Nat

VARIABLES place,      \* place[n]: where node n is
          running,    \* the nodes whose application has not been stopped
          purged,     \* Async: no timer is armed any more, in the whole process
          wait,       \* wait[n]: ticks until the beacon timer fires, or NoTimer
          neighbors,  \* neighbors[n]: the records of the nodes n has heard
          net,        \* beacons on the air
          moves,      \* how often nodes moved so far
          heard,      \* history: the last Depth positions n was told by m
          close       \* history: ticks for which n was in range of m and missed
                      \* none of its beacons, up to MaxDelay + 1

vars == <<place, running, purged, wait, neighbors, net, moves, heard, close>>

NoTimer == -1
LongAgo == MaxDelay + 1

\* A circular buffer and the time since the node was last seen, in ticks.  The
\* number i of insertions matters modulo Depth and as i >= Depth, so it is kept
\* below 2 * Depth.
NeighborRecord ==
  [v : [0..Depth - 1 -> Places \cup {NoPlace}], sz : 0..Depth,
   i : 0..2 * Depth - 1, first : 0..Depth - 1, age : 0..LongAgo]

Beacon == [from : Nodes, to : Nodes, position : Places, is_response : BOOLEAN]

Known(n) == DOMAIN neighbors[n]

TypeOK ==
  /\ place \in [Nodes -> Places]
  /\ running \subseteq Nodes
  /\ purged \in BOOLEAN
  /\ wait \in [Nodes -> {NoTimer} \cup (0..MaxDelay)]
  /\ DOMAIN neighbors = Nodes
  /\ \A n \in Nodes : /\ Known(n) \subseteq Nodes \ {n}
                      /\ neighbors[n] \in [Known(n) -> NeighborRecord]
  /\ net \subseteq Beacon
  /\ moves \in 0..MaxMoves
  /\ \A n, m \in Nodes : heard[n][m] \in Seq(Places) /\ close[n][m] \in 0..LongAgo

\* All applications are started at time 0 and arm a first timer below 150 ms.
Init ==
  /\ place \in [Nodes -> Places]
  /\ running = Nodes
  /\ purged = FALSE
  /\ wait = [n \in Nodes |-> 0]
  /\ neighbors = [n \in Nodes |-> << >>]
  /\ net = {}
  /\ moves = 0
  /\ heard = [n \in Nodes |-> [m \in Nodes |-> << >>]]
  /\ close = [n \in Nodes |-> [m \in Nodes |-> 0]]

-----------------------------------------------------------------------------
(* Records *)

\* Mutant: the oldest element is looked for where the newest was put.
MutantPushed(r, p) ==
  [r EXCEPT !.v[r.i % Depth] = p,
            !.first = IF r.i >= Depth THEN r.i % Depth ELSE @,
            !.i = IF r.i + 1 = 2 * Depth THEN Depth ELSE r.i + 1,
            !.sz = IF r.sz < Depth THEN r.sz + 1 ELSE @]

\* CircularBuffer::push_back()
Pushed(r, p) ==
  [r EXCEPT !.v[r.i % Depth] = p,
            !.first = IF r.i >= Depth THEN (r.i + 1) % Depth ELSE @,
            !.i = IF r.i + 1 = 2 * Depth THEN Depth ELSE r.i + 1,
            !.sz = IF r.sz < Depth THEN r.sz + 1 ELSE @]

\* operator[] of the buffer; clast() is the last of them.
At(r, k) == r.v[(r.first + k) % Depth]

NewRecord == [v |-> [k \in 0..Depth - 1 |-> NoPlace], sz |-> 0, i |-> 0, first |-> 0, age |-> 0]

\* Mutant: last_seen is set for a first position only.
MutantSaw(known, m, p) ==
  LET r == IF m \in DOMAIN known THEN known[m] ELSE NewRecord
  IN  [x \in {m} \cup DOMAIN known |-> IF x = m THEN Pushed(r, p) ELSE known[x]]

\* saw(): a first position makes a record, a further one is added to it.
Saw(known, m, p) ==
  LET r == IF m \in DOMAIN known THEN known[m] ELSE NewRecord
  IN  [x \in {m} \cup DOMAIN known |->
         IF x = m THEN [Pushed(r, p) EXCEPT !.age = 0] ELSE known[x]]

-----------------------------------------------------------------------------
(* Frames and timers *)

InRange(n, m) == <<place[n], place[m]>> \in Near

Others(n) == {m \in Nodes \ {n} : InRange(n, m)}

\* enqueue() and write(): a broadcast, which also loops back to its sender.
Beacons(n, reached, response) ==
  {[from |-> n, to |-> m, position |-> place[n], is_response |-> response] :
     m \in reached \cup {n}}

\* A boolean is written as 1 or 0 and read as "is not 1".
ReadBack(flag) == ~flag

\* 1000 ms + rand() % 2000 ms, in ticks.
Delays == 1..MaxDelay

\* Async::schedule()
Armed(delay) == IF purged THEN NoTimer ELSE delay

\* beacon(): a broadcast, lost on some of those in range, and the next timer.
SendBeacon(n) ==
  /\ wait[n] = 0
  /\ \E reached \in SUBSET Others(n), delay \in Delays :
       /\ net' = net \cup Beacons(n, reached, FALSE)
       /\ close' = [m \in Nodes |-> [close[m] EXCEPT ![n] = IF m \in reached THEN @ ELSE 0]]
       /\ wait' = [wait EXCEPT ![n] = Armed(delay)]
  /\ UNCHANGED <<place, running, purged, neighbors, moves, heard>>

LastOf(s) == IF Len(s) > Depth THEN Tail(s) ELSE s

\* Mutant: a node's own broadcast is taken for another's.
MutantAccepted(m) == m.to \in running
\* on_link_readable(): nothing is read once the link layer is stopped, and
\* broadcast loopbacks are rejected.
Accepted(m) == m.to \in running /\ m.from # m.to

\* receive(): the sender is recorded and, unless its beacon reads as a response,
\* answered.
Receive(m) ==
  /\ m \in net
  /\ Accepted(m)
  /\ neighbors' = [neighbors EXCEPT ![m.to] = Saw(@, m.from, m.position)]
  /\ heard' = [heard EXCEPT ![m.to][m.from] = LastOf(Append(@, m.position))]
  /\ \E reached \in SUBSET Others(m.to) :
       net' = (net \ {m}) \cup
              (IF ReadBack(m.is_response) THEN {} ELSE Beacons(m.to, reached, TRUE))
  /\ UNCHANGED <<place, running, purged, wait, moves, close>>

Reject(m) ==
  /\ m \in net
  /\ ~Accepted(m)
  /\ net' = net \ {m}
  /\ UNCHANGED <<place, running, purged, wait, neighbors, moves, heard, close>>

-----------------------------------------------------------------------------
(* Time, movement and the end *)

\* Applications are stopped at the same time: none runs on while another has
\* been stopped.
Tick ==
  /\ running \in {Nodes, {}}
  /\ net = {}
  /\ \A n \in Nodes : wait[n] # 0
  /\ wait' = [n \in Nodes |-> IF wait[n] = NoTimer THEN NoTimer ELSE wait[n] - 1]
  /\ neighbors' = [n \in Nodes |->
                     [m \in Known(n) |->
                        [neighbors[n][m] EXCEPT !.age = IF @ < LongAgo THEN @ + 1 ELSE @]]]
  /\ close' = [n \in Nodes |->
                 [m \in Nodes |-> IF InRange(n, m) /\ close[n][m] < LongAgo
                                  THEN close[n][m] + 1 ELSE close[n][m]]]
  /\ UNCHANGED <<place, running, purged, net, moves, heard>>

Move(n, p) ==
  /\ moves < MaxMoves
  /\ p # place[n]
  /\ place' = [place EXCEPT ![n] = p]
  /\ close' = [a \in Nodes |-> [b \in Nodes |-> IF InRange(a, b)' THEN close[a][b] ELSE 0]]
  /\ moves' = moves + 1
  /\ UNCHANGED <<running, purged, wait, neighbors, net, heard>>

\* Mutant: timers that are already armed are left to fire.
MutantCancelled == wait
\* Async::purge() cancels every timer of the process, of all nodes.
Cancelled == [n \in Nodes |-> NoTimer]

\* StopApplication()
Stop(n) ==
  /\ n \in running
  /\ running' = running \ {n}
  /\ purged' = TRUE
  /\ wait' = Cancelled
  /\ UNCHANGED <<place, neighbors, net, moves, heard, close>>

Next ==
  \/ \E n \in Nodes : SendBeacon(n)
  \/ \E m \in net : Receive(m)
  \/ \E m \in net : Reject(m)
  \/ Tick
  \/ \E n \in Nodes, p \in Places : Move(n, p)
  \/ \E n \in Nodes : Stop(n)

Spec == Init /\ [][Next]_vars

-----------------------------------------------------------------------------
(* Properties *)

\* Whatever order beacons come in and however often the buffer has wrapped, a
\* record holds the last positions its node was told, oldest first: get() reports
\* the latest, compute_velocity() walks them in order.
PositionsAreTheLast ==
  \A n \in Nodes : \A m \in Nodes :
    IF m \in Known(n)
    THEN LET r == neighbors[n][m]
         IN  heard[n][m] = [k \in 1..r.sz |-> At(r, k - 1)]
    ELSE heard[n][m] = << >>

\* Timers that rearm each other and a random delay are enough to track a node:
\* whoever stayed in range of m for MaxDelay + 1 ticks without missing a beacon
\* knows m, and has seen it within MaxDelay ticks.
FreshWhileInRange ==
  ~purged =>
    \A n \in Nodes : \A m \in Nodes \ {n} :
      close[n][m] = LongAgo => m \in Known(n) /\ neighbors[n][m].age <= MaxDelay

\* StopApplication() of one node purges the timers of all and destroys that node,
\* to which its timers still pointed: from the first stop on no beacon is sent, not
\* by a timer that was armed before, not by one armed since by a node that runs on,
\* and not in answer to a beacon such a node still receives.
NoBeaconOnceStopped == [][purged => net' \subseteq net]_vars

===============================================================================
