---------------------------- MODULE InterestHelper ----------------------------
(***************************************************************************)
(* Interest announcement: src/src/ccn/interesthelperimpl.cpp and Interest  *)
(* (src/include/sma/ccn/interest.hpp) on every node of a network of mobile *)
(* nodes.                                                                  *)
(*                                                                         *)
(* Every node keeps one deque of interests, its own (0 hops) and those it  *)
(* heard of, and announces them every half second or second.  A tick is    *)
(* min_announce_interval (500 ms), the period of the announce timer.       *)
(* Frames take far less than that: within one tick every node's timer      *)
(* fires once and every frame sent is received.  Times are kept relative   *)
(* to the clock: `left` is expiry_time - now and `wait` is                 *)
(* next_announce_time - now, both 0 once they have passed.                 *)
(***************************************************************************)
EXTENDS Integers, Lists, SequencesExt

CONSTANTS Nodes,        \* the nodes
          Types,        \* content types: any set, all that fit into the field too
          Favourite,    \* the type BehaviorHelperImpl re-creates periodically
          TTL,          \* default_initial_ttl, in ticks
          MessageRoom,  \* interests that fit into one announcement
          Garbage,      \* what a receiver can make of bytes nobody wrote
          TTLRange,     \* ttl_ms is an unsigned integer modulo this
          HopRange,     \* hops are unsigned integers modulo this (256)
          CountRange,   \* to_announce is an unsigned integer modulo this
          OldAge,       \* bound: ages of announcements are counted up to here
          MaxChanges    \* bound: how often interests are created and cleared

\* An interest as it is sent, and as it is kept: ttl_ms is only brought up to
\* date when the interest is announced, left is exact.
Item     == [type : Types, ttl : 0..TTLRange - 1, hops : 0..HopRange - 1]
Interest == [type : Types, ttl : 0..TTLRange - 1, hops : 0..HopRange - 1,
             left : 0..TTLRange - 1]

ASSUME InterestAssumption ==
  /\ Favourite \in Types
  /\ TTLRange \in Nat /\ TTL \in 1..TTLRange - 1 /\ MessageRoom \in Nat \ {0}
  /\ HopRange \in Nat \ {0} /\ CountRange \in Nat \ {0}
  /\ OldAge \in Nat /\ OldAge > TTL
  /\ MaxChanges \in Nat
  /\ Garbage \subseteq Item   \* any values that fit into the fields

VARIABLES interests,    \* interests[n]: the deque of node n
          to_announce,  \* to_announce[n]: interests still to be announced
          wait,         \* wait[n]: ticks until next_announce_time
          fired,        \* the nodes whose announce timer fired this tick
          net,          \* announcements on the air: sender, receiver, interests
          changes,      \* how often interests were created and cleared so far
          age           \* history: ticks since an owner of the type announced it

vars == <<interests, to_announce, wait, fired, net, changes, age>>

Local(i) == i.hops = 0
Entries(n) == ToSet(interests[n])
HasLocal(n, t) == \E i \in Entries(n) : i.type = t /\ Local(i)

TypeOK ==
  /\ interests \in [Nodes -> Seq(Interest)]
  /\ to_announce \in [Nodes -> 0..CountRange - 1]
  /\ wait \in [Nodes -> 0..2]
  /\ fired \subseteq Nodes
  /\ \A m \in net : /\ m.from \in Nodes /\ m.to \in Nodes \ {m.from}
                    /\ m.sent \in Seq(Item)
                    /\ m.places \in [DOMAIN m.sent -> 0..Len(m.sent)]
  /\ changes \in 0..MaxChanges
  /\ age \in [Types -> 0..OldAge]

Init ==
  /\ interests = [n \in Nodes |-> << >>]
  /\ to_announce = [n \in Nodes |-> 0]
  /\ wait = [n \in Nodes |-> 0]
  /\ fired = {}
  /\ net = {}
  /\ changes = 0
  /\ age = [t \in Types |-> OldAge]

-----------------------------------------------------------------------------
(* The table of one node: a pair of the deque and to_announce *)

Plus(a, b)  == (a + b) % CountRange
Minus(a, b) == (a + CountRange - b) % CountRange

\* The position of a type in a deque; 0 when it is not there.
At(q, t) ==
  LET there == {k \in DOMAIN q : q[k].type = t}
  IN  IF there = {} THEN 0 ELSE Min(there)

\* create_local(): an own interest stays as it is, a remote one is replaced.
WithLocal(q, todo, t) ==
  LET k     == At(q, t)
      new   == [type |-> t, ttl |-> TTL, hops |-> 0, left |-> TTL]
      freed == IF k # 0 /\ k <= todo THEN Minus(todo, 1) ELSE todo
  IN  IF k # 0 /\ Local(q[k]) THEN <<q, todo>>
      ELSE <<<<new>> \o Only(q, {i \in ToSet(q) : i.type # t}), Plus(freed, 1)>>

\* clear_local(): to_announce is left as it is.
WithoutLocal(q) == Only(q, {i \in ToSet(q) : ~Local(i)})

\* Interest::update_with(): hops and ttl_ms improve separately; expiry_time stays.
Closer(i, known) == i.hops < known.hops
Newer(i, known)  == i.ttl > known.ttl
Updated(known, i) ==
  [known EXCEPT !.hops = IF Closer(i, known) THEN i.hops ELSE @,
                !.ttl  = IF Newer(i, known) THEN i.ttl ELSE @]

\* Mutant: what is heard last replaces what is known.
MutantLearned(q, todo, i) ==
  LET k   == At(q, i.type)
      new == [type |-> i.type, ttl |-> i.ttl, hops |-> i.hops, left |-> i.ttl]
  IN  IF k = 0 THEN <<<<new>> \o q, Plus(todo, 1)>>
      ELSE <<<<new>> \o RemoveAt(q, k), IF k > todo THEN Plus(todo, 1) ELSE todo>>

\* learn_remote(): an improved or new interest goes to the front.
Learned(q, todo, i) ==
  LET k == At(q, i.type)
  IN  IF k = 0
      THEN <<<<[type |-> i.type, ttl |-> i.ttl, hops |-> i.hops, left |-> i.ttl]>> \o q,
             Plus(todo, 1)>>
      ELSE IF Closer(i, q[k]) \/ Newer(i, q[k])
      THEN <<<<Updated(q[k], i)>> \o RemoveAt(q, k),
             IF k > todo THEN Plus(todo, 1) ELSE todo>>
      ELSE <<q, todo>>

\* Mutants: another's ttl_ms is not brought up to date; an interest is expired
\* only below 0.
MutantElapsed(i) == IF Local(i) THEN [i EXCEPT !.left = i.ttl] ELSE i
MutantExpired(i) == i.ttl < 0

\* Interest::elapse_ttl(): an own interest is refreshed, another's ttl_ms is
\* what is left of it.
Elapsed(i) == IF Local(i) THEN [i EXCEPT !.left = i.ttl] ELSE [i EXCEPT !.ttl = i.left]
Expired(i) == i.ttl = 0

-----------------------------------------------------------------------------
(* Announcing *)

\* The loop of announce() over the deque q takes interests off the front until
\* one does not fit: expired ones are dropped, others sent and moved to the back.
Alive(q, k) == {j \in 1..k : ~Expired(Elapsed(q[j]))}
Processed(q) ==
  CHOOSE k \in 0..Len(q) :
    /\ Cardinality(Alive(q, k)) <= MessageRoom
    /\ k < Len(q) => Cardinality(Alive(q, k + 1)) > MessageRoom

Sent(q) ==
  LET seen == [k \in 1..Processed(q) |-> Elapsed(q[k])]
  IN  Only(seen, {i \in ToSet(seen) : ~Expired(i)})

\* The interest that does not fit has been looked at, and stays in front.
Unsent(q) ==
  [k \in 1..Len(q) - Processed(q) |->
     IF k = 1 THEN Elapsed(q[Processed(q) + 1]) ELSE q[Processed(q) + k]]

\* The message takes the first `count` places of the buffer, and the receiver
\* reads them one after the other.  The write position is advanced by the total
\* size instead of the last size, so the k-th interest written (from 0) lands in
\* place k(k+1)/2.  What each place read holds: the number of a sent interest, or
\* 0 where nothing was written.
Place(k) == (k * (k + 1)) \div 2
Dumped(count) ==
  [p \in 1..count |->
     LET there == {k \in 1..count : Place(k - 1) = p - 1}
     IN  IF there = {} THEN 0 ELSE Min(there)]

Wire(q) == [k \in DOMAIN q |-> [type |-> q[k].type, ttl |-> q[k].ttl, hops |-> q[k].hops]]

\* The announce timer of node n before next_announce_time: it is only rearmed.
AnnounceTooEarly(n) ==
  /\ n \notin fired
  /\ wait[n] > 0
  /\ fired' = fired \cup {n}
  /\ UNCHANGED <<interests, to_announce, wait, net, changes, age>>

\* The announce timer of node n: those in range (reached) get the announcement.
\* fuzz is whether the random delay makes the next timer come too early.
Announce(n, reached, fuzz) ==
  LET q    == interests[n]
      sent == Wire(Sent(q))
      todo == Minus(to_announce[n], Processed(q))
      left == Unsent(q) \o Sent(q)
  IN  /\ n \notin fired
      /\ wait[n] = 0
      /\ fired' = fired \cup {n}
      /\ UNCHANGED changes
      /\ interests' = [interests EXCEPT ![n] = left]
      /\ to_announce' = [to_announce EXCEPT ![n] = IF todo = 0 THEN Len(left) % CountRange
                                                        ELSE todo]
      /\ wait' = [wait EXCEPT ![n] = IF todo = 0 THEN 1 + fuzz ELSE 0]
      /\ net' = net \cup {[from |-> n, to |-> r, sent |-> sent, places |-> Dumped(Len(sent))] :
                            r \in IF sent = << >> THEN {} ELSE reached}
      /\ age' = [t \in Types |->
                   IF \E i \in ToSet(sent) : i.type = t /\ Local(i) THEN 0 ELSE age[t]]

\* receive(InterestAnn): every interest is a hop further and learned in turn.
Farther(i) == [i EXCEPT !.hops = (@ + 1) % HopRange]

Received(q, todo, items) ==
  LET tab[k \in 0..Len(items)] ==
        IF k = 0 THEN <<q, todo>>
        ELSE Learned(tab[k - 1][1], tab[k - 1][2], Farther(items[k]))
  IN  tab[Len(items)]

Receive(m) ==
  \E guess \in [{p \in DOMAIN m.sent : m.places[p] = 0} -> Garbage] :
    LET n     == m.to
        items == [p \in DOMAIN m.sent |->
                    IF p \in DOMAIN guess THEN guess[p] ELSE m.sent[m.places[p]]]
        table == Received(interests[n], to_announce[n], items)
    IN  /\ net' = net \ {m}
        /\ UNCHANGED <<wait, fired, changes, age>>
        /\ interests' = [interests EXCEPT ![n] = table[1]]
        /\ to_announce' = [to_announce EXCEPT ![n] = table[2]]

\* A CreateInterestAction of the scenario: create_local().
CreateInterest(n, t) ==
  LET table == WithLocal(interests[n], to_announce[n], t)
  IN  /\ interests' = [interests EXCEPT ![n] = table[1]]
      /\ to_announce' = [to_announce EXCEPT ![n] = table[2]]
      /\ UNCHANGED <<wait, fired, net, age>>
      /\ changes < MaxChanges
      /\ changes' = changes + 1

\* behave_interest(): clear_local() and create_local() of one fixed type.
BehaveInterest(n) ==
  LET table == WithLocal(WithoutLocal(interests[n]), to_announce[n], Favourite)
  IN  /\ interests' = [interests EXCEPT ![n] = table[1]]
      /\ to_announce' = [to_announce EXCEPT ![n] = table[2]]
      /\ UNCHANGED <<wait, fired, net, age>>
      /\ changes < MaxChanges
      /\ changes' = changes + 1

\* Half a second passes once the timers have fired and the frames are in.
MutantSooner(d) == d - 1
Sooner(d) == IF d = 0 THEN 0 ELSE d - 1

Tick ==
  /\ fired = Nodes
  /\ net = {}
  /\ fired' = {}
  /\ interests' = [n \in Nodes |->
                     [k \in DOMAIN interests[n] |->
                        [interests[n][k] EXCEPT !.left = Sooner(@)]]]
  /\ wait' = [n \in Nodes |-> Sooner(wait[n])]
  /\ age' = [t \in Types |-> IF age[t] < OldAge THEN age[t] + 1 ELSE OldAge]
  /\ UNCHANGED <<to_announce, net, changes>>

AnnounceTimer(n) ==
  \/ AnnounceTooEarly(n)
  \/ \E reached \in SUBSET (Nodes \ {n}), fuzz \in {0, 1} : Announce(n, reached, fuzz)

Next ==
  \/ \E n \in Nodes : AnnounceTimer(n)
  \/ \E m \in net : Receive(m)
  \/ Tick
  \/ \E n \in Nodes, t \in Types : CreateInterest(n, t)
  \/ \E n \in Nodes : BehaveInterest(n)

Spec == Init /\ [][Next]_vars

\* Simulated time never stops: a tick consists of finitely many timers and frames,
\* and MaxChanges bounds what users do in it.
FairSpec == Spec /\ []<><<Tick>>_vars

-----------------------------------------------------------------------------
(* Properties *)

\* A node keeps at most one interest per type: create_local(), learn_remote()
\* and the rotation of announce() replace, promote and move, never duplicate.
OnePerType ==
  \A n \in Nodes : \A j, k \in DOMAIN interests[n] :
    interests[n][j].type = interests[n][k].type => j = k

\* However an interest travelled, nobody keeps it, and nobody announces it, beyond
\* TTL after the last time a node that was interested itself announced it:
\* update_with() improves ttl_ms but elapse_ttl() goes back to expiry_time, so
\* neighbours cannot keep each other's entries alive.
RemoteLapses ==
  /\ \A n \in Nodes : \A i \in Entries(n) :
       ~Local(i) /\ i.left > 0 => i.left + age[i.type] <= TTL
  /\ \A m \in net : \A i \in ToSet(m.sent) : i.ttl + age[i.type] <= TTL

\* Only behave_interest() of the node itself takes an own interest away: no
\* announcement, however close or new, turns it into a remote one or drops it.
OwnInterestKept ==
  [][\A n \in Nodes, t \in Types :
       HasLocal(n, t) => HasLocal(n, t)' \/ BehaveInterest(n)]_vars

\* "enforcing that only relevant interests persist in the network" (README.md):
\* a type nobody is interested in any more ends up in nobody's table, although
\* the nodes go on announcing to each other what they have.
IrrelevantDies ==
  \A t \in Types :
    <>[](\A n \in Nodes : ~HasLocal(n, t)) =>
      <>[](\A n \in Nodes : \A i \in Entries(n) : i.type # t)

===============================================================================
