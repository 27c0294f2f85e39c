---------------------------- MODULE BlockExchange ----------------------------
(***************************************************************************)
(* Block requests and responses: ContentHelperImpl (request, receive,      *)
(* broadcast, check_pending_requests, frozen) with the request queue and   *)
(* the response schedule of ForwardSchedulerImpl, which its events drive,  *)
(* on every node of a network.                                             *)
(*                                                                         *)
(* A node's `cache` (bounded) and `store` (unbounded) are seen as in       *)
(* BlockEntries.  A tick is the scheduling interval (1 s).  Times are kept *)
(* relative to the clock: `left` is what remains until an expiry, below 0  *)
(* once it has passed.  Frames take less than a tick.  The simulator runs  *)
(* all nodes in one process, so a failed assertion ends everything.        *)
(***************************************************************************)
EXTENDS BlockEntries, Lists, SequencesExt

CONSTANTS Nodes,        \* the nodes
          Networks,     \* the networks considered: who hears whom, the contents
                        \* published there and how often users ask
          Publisher,    \* Publisher[h]: the node that publishes content h
          CacheSlots,   \* slots of a node's bounded cache
          FetchTTL,     \* ttl of an automatic fetch, in ticks
          BehaveTTL,    \* ttl of a request made by BehaviorHelperImpl, in ticks
          Batch,        \* requests forwarded per interval (10)
          MaxQueue,     \* bound: requests waiting to be forwarded
          MaxStored     \* bound: entries of one content in a store

ASSUME ExchangeAssumption ==
  /\ \A w \in Networks :
       /\ DOMAIN w.reach \subseteq Nodes
       /\ w.contents \subseteq Hashes
       /\ w.asks \in Nat
       /\ \A n \in DOMAIN w.reach : w.reach[n] \subseteq DOMAIN w.reach \ {n}
  /\ Publisher \in [Hashes -> Nodes]
  /\ CacheSlots \in Nat /\ Batch \in Nat \ {0}
  /\ FetchTTL \in Nat \ {0} /\ BehaveTTL \in Nat \ {0}
  /\ MaxQueue \in Nat /\ MaxStored \in Nat

MaxTTL == Max({FetchTTL, BehaveTTL})

Wanted  == [block : Blocks, left : -1..MaxTTL]      \* a request, sent or queued
Pending == [left : 0..MaxTTL, keep : BOOLEAN]       \* an entry of the prt

VARIABLES network,      \* the network, the same for ever
          cache, store, \* the entries of each content, per node
          prt,          \* prt[n]: the pending requests, a function from blocks
          checks,       \* checks[n]: when check_pending_requests() is due
          queue,        \* queue[n]: request_queue
          schedule,     \* schedule[n]: blocks arrived or still to be broadcast
          forwarded,    \* the nodes whose scheduler ran this tick
          net,          \* frames on the air
          published,    \* the contents published so far
          asks,         \* how often users requested content
          lease,        \* history: what is left of the latest request for a block
          status        \* "ok", or "stopped"

vars == <<network, cache, store, prt, checks, queue, schedule, forwarded, net,
          published, asks, lease, status>>

\* The nodes of the network, and those that hear n.
Peers    == DOMAIN network.reach
Reach(n) == network.reach[n]

Frame ==
  [kind : {"request"}, from : Nodes, to : Nodes, requests : Seq(Wanted)] \cup
  [kind : {"response"}, from : Nodes, to : Nodes, ref : Blocks, bytes : Blocks]

TypeOK ==
  /\ network \in Networks
  /\ cache \in [Nodes -> [Hashes -> Seq(Entry)]]
  /\ store \in [Nodes -> [Hashes -> Seq(Entry)]]
  /\ \A n \in Nodes : /\ DOMAIN prt[n] \subseteq Blocks
                      /\ prt[n] \in [DOMAIN prt[n] -> Pending]
  /\ checks \in [Nodes -> SUBSET (0..MaxTTL)]
  /\ queue \in [Nodes -> Seq(Wanted)]
  /\ schedule \in [Nodes -> SUBSET Blocks]
  /\ forwarded \subseteq Peers
  /\ net \subseteq Frame
  /\ published \subseteq network.contents
  /\ asks \in 0..network.asks
  /\ lease \in [Blocks -> -1..MaxTTL]
  /\ status \in {"ok", "stopped"}

Nothing == [h \in Hashes |-> << >>]

Init ==
  /\ network \in Networks
  /\ cache = [n \in Nodes |-> Nothing]
  /\ store = [n \in Nodes |-> Nothing]
  /\ prt = [n \in Nodes |-> << >>]
  /\ checks = [n \in Nodes |-> {}]
  /\ queue = [n \in Nodes |-> << >>]
  /\ schedule = [n \in Nodes |-> {}]
  /\ forwarded = {}
  /\ net = {}
  /\ published = {}
  /\ asks = 0
  /\ lease = [b \in Blocks |-> -1]
  /\ status = "ok"

Running == status = "ok"

-----------------------------------------------------------------------------
(* Cache and store of one node *)

\* A slot is never returned to the free list, so the slots of a cache that are
\* still free are those no content has an entry in.
Used(n) == MapThenSumSet(LAMBDA h : Len(cache[n][h]), Hashes)
Free(n) == CacheSlots - Used(n)

Caches(n, b) == Finds(cache[n][b[1]], b[2])
Stores(n, b) == Finds(store[n][b[1]], b[2])

\* Where broadcast() looks for a block: the bytes it sends, if any.
Sources(c, s, b) ==
  IF Finds(c[b[1]], b[2]) THEN {Found(c[b[1]], b[2])}
  ELSE IF Finds(s[b[1]], b[2]) THEN {Found(s[b[1]], b[2])} ELSE {}

\* broadcast() of the blocks bs by node n with cache c and store s.
Broadcast(n, c, s, bs) ==
  UNION {{[kind |-> "response", from |-> n, to |-> r, ref |-> b, bytes |-> x] :
            r \in Reach(n), x \in Sources(c, s, b)} : b \in bs}

Stop ==
  /\ status' = "stopped"
  /\ UNCHANGED <<network, cache, store, prt, checks, queue, schedule, forwarded,
                 net, published, asks, lease>>

-----------------------------------------------------------------------------
(* Publishing and requesting *)

\* create_new(): the publisher stores the content in its bounded cache, whose
\* assertion fails when it does not fit.
Publish(h) ==
  LET n == Publisher[h]
  IN  /\ Running
      /\ h \in network.contents \ published
      /\ \/ /\ Free(n) >= BlockCount[h]
            /\ cache' = [cache EXCEPT ![n][h] = Divided(h)]
            /\ published' = published \cup {h}
            /\ UNCHANGED <<network, store, prt, checks, queue, schedule,
                           forwarded, net, asks, lease, status>>
         \/ Free(n) < BlockCount[h] /\ Stop

\* Mutant: extending a pending request schedules no check.
MutantExtends(table, requests, k) ==
  LET b == requests[k].block
  IN  /\ b \notin DOMAIN table
      /\ \A j \in 1..k - 1 :
           requests[j].block = b => requests[j].left < requests[k].left

\* The k-th request extends what is pending, or is the first for its block.
Extends(table, requests, k) ==
  LET b == requests[k].block
  IN  /\ b \in DOMAIN table => table[b].left < requests[k].left
      /\ \A j \in 1..k - 1 :
           requests[j].block = b => requests[j].left < requests[k].left

\* request(): blocks that are found are not asked for, they have arrived ...
Had(n, requests) ==
  {b \in Blocks : /\ \E k \in DOMAIN requests : requests[k].block = b
                  /\ Caches(n, b) \/ Stores(n, b)}
Open(n, requests) ==
  Only(requests, {r \in ToSet(requests) : r.block \notin Had(n, requests)})

\* nor pending any more, ...
Unserved(n, requests) == Restrict(prt[n], DOMAIN prt[n] \ Had(n, requests))

\* ... and the others are pending until the latest expiry asked for, now or before,
Latest(table, requests, b) ==
  Max({requests[k].left : k \in {j \in DOMAIN requests : requests[j].block = b}} \cup
      {table[c].left : c \in DOMAIN table \cap {b}})

\* Mutant: the last request decides alone whether to keep the block.
MutantPrtAfter(n, requests, keep) ==
  LET table == Unserved(n, requests)
      asked == {requests[k].block : k \in DOMAIN requests} \ Had(n, requests)
  IN  [b \in DOMAIN table \cup asked |->
         [left |-> Latest(table, requests, b),
          keep |-> IF b \in asked THEN keep ELSE table[b].keep]]

\* and are kept if any request for them wanted to keep them,
PrtAfter(n, requests, keep) ==
  LET table == Unserved(n, requests)
      asked == {requests[k].block : k \in DOMAIN requests} \ Had(n, requests)
  IN  [b \in DOMAIN table \cup asked |->
         [left |-> Latest(table, requests, b),
          keep |-> \/ keep /\ b \in asked
                   \/ b \in DOMAIN table /\ table[b].keep]]

\* with a check when a new or extended one expires,
ChecksAfter(n, requests) ==
  LET open == Open(n, requests)
  IN  checks[n] \cup
        {open[k].left : k \in {j \in DOMAIN open : Extends(Unserved(n, requests), open, j)}}

\* and asked of everyone in one message.
Asked(n, requests) ==
  {[kind |-> "request", from |-> n, to |-> r, requests |-> Open(n, requests)] :
     r \in IF Open(n, requests) = << >> THEN {} ELSE Reach(n)}

AllBlocks(h, ttl) ==
  [k \in 1..BlockCount[h] |-> [block |-> <<h, k - 1>>, left |-> ttl]]

\* A user of node n requests a content it has metadata of.
Ask(n, h, ttl, keep) ==
  /\ Running
  /\ h \in published /\ n # Publisher[h]
  /\ asks < network.asks
  /\ asks' = asks + 1
  /\ LET requests == AllBlocks(h, ttl)
     IN  /\ prt' = [prt EXCEPT ![n] = PrtAfter(n, requests, keep)]
         /\ checks' = [checks EXCEPT ![n] = ChecksAfter(n, requests)]
         /\ net' = net \cup Asked(n, requests)
         /\ schedule' = [schedule EXCEPT ![n] = @ \cup Had(n, requests)]
  /\ lease' = [b \in Blocks |-> IF b[1] = h THEN Max({lease[b], ttl}) ELSE lease[b]]
  /\ UNCHANGED <<network, cache, store, queue, forwarded, published, status>>

\* do_auto_fetch() wants to keep the blocks; behave_request() does not, as its
\* last argument is taken for hops_from_block.
AutoFetch(n, h)     == Ask(n, h, FetchTTL, TRUE)
BehaveRequest(n, h) == Ask(n, h, BehaveTTL, FALSE)

-----------------------------------------------------------------------------
(* The scheduler *)

\* Mutant: a request is forwarded with the default ttl.
MutantForwardable(n) ==
  LET alive == SelectSeq(SubSeq(queue[n], 1, Min({Batch, Len(queue[n])})),
                         LAMBDA r : r.left >= 0)
  IN  [k \in DOMAIN alive |-> [alive[k] EXCEPT !.left = FetchTTL]]

\* fwd_requests(): the first Batch requests leave the queue, and those that have
\* not expired are requested in turn with what is left of their ttl.
Forwardable(n) ==
  LET first == SubSeq(queue[n], 1, Min({Batch, Len(queue[n])}))
  IN  Only(first, {r \in ToSet(first) : r.left >= 0})

\* sched(): forward requests, then let the solver decide which of the scheduled
\* blocks to broadcast now (sent); the others stay scheduled, held in the cache or
\* not.  What the solver decides is left open.
Schedule(n) ==
  /\ Running
  /\ n \notin forwarded
  /\ forwarded' = forwarded \cup {n}
  /\ queue' = [queue EXCEPT ![n] = SubSeq(@, Min({Batch, Len(@)}) + 1, Len(@))]
  /\ LET requests == Forwardable(n)
         ready    == schedule[n] \cup Had(n, requests)
     IN  \E sent \in SUBSET ready :
           /\ prt' = [prt EXCEPT ![n] = PrtAfter(n, requests, FALSE)]
           /\ checks' = [checks EXCEPT ![n] = ChecksAfter(n, requests)]
           /\ schedule' = [schedule EXCEPT ![n] = ready \ sent]
           /\ net' = net \cup Asked(n, requests) \cup Broadcast(n, cache[n], store[n], sent)
  /\ UNCHANGED <<network, cache, store, published, asks, lease, status>>

\* Freezing a block in the cache never returns when promote() does not find its
\* slot, which takes an odd number of occupied slots and an even position.
ScheduleHangs(n) ==
  /\ Running
  /\ n \notin forwarded
  /\ Used(n) >= 3 /\ Used(n) % 2 = 1
  /\ \E b \in schedule[n] \cup Had(n, Forwardable(n)) : Caches(n, b)
  /\ Stop

-----------------------------------------------------------------------------
(* Receiving *)

\* receive(BlockRequest): the requests are moved into the event, so the loop that
\* would answer them, or extend the pending requests, sees none.
ReceiveRequest(m) ==
  /\ Running
  /\ m.kind = "request"
  /\ Len(queue[m.to]) + Len(m.requests) <= MaxQueue
  /\ net' = net \ {m}
  /\ queue' = [queue EXCEPT ![m.to] = @ \o m.requests]
  /\ UNCHANGED <<network, cache, store, prt, checks, schedule, forwarded,
                 published, asks, lease, status>>

Awaited(n, b) == b \in DOMAIN prt[n]
Keeps(m)      == Awaited(m.to, m.ref) /\ prt[m.to][m.ref].keep /\ ~Stores(m.to, m.ref)

\* The lists of entries a response is added to, and whether validate_data() of
\* the store, called when the content's metadata is still known, aborts.
StoreAfter(m) ==
  LET list == store[m.to][m.ref[1]]
  IN  IF Keeps(m) THEN WithBlock(list, m.ref, m.bytes) ELSE list
CacheAfter(m) ==
  LET list == cache[m.to][m.ref[1]]
  IN  IF Keeps(m) THEN list ELSE WithBlock(list, m.ref, m.bytes)

Invalid(m) ==
  LET h == m.ref[1]
  IN  Keeps(m) /\ CountMatches(StoreAfter(m), h) /\ ~SizeMatches(StoreAfter(m), h)

CacheFull(m) == ~Keeps(m) /\ ~Caches(m.to, m.ref) /\ Free(m.to) = 0

\* receive(BlockResponse): store or cache it, announce its arrival, and broadcast
\* it when it was pending: local_only is never set.  It stays pending.
ReceiveResponse(m) ==
  LET n == m.to
      c == [cache[n] EXCEPT ![m.ref[1]] = CacheAfter(m)]
      s == [store[n] EXCEPT ![m.ref[1]] = StoreAfter(m)]
  IN  /\ Running
      /\ m.kind = "response"
      /\ ~CacheFull(m)
      /\ Len(StoreAfter(m)) <= MaxStored
      /\ cache' = [cache EXCEPT ![n] = c]
      /\ store' = [store EXCEPT ![n] = s]
      /\ schedule' = [schedule EXCEPT ![n] = @ \cup {m.ref}]
      /\ net' = (net \ {m}) \cup
                  IF Awaited(n, m.ref) THEN Broadcast(n, c, s, {m.ref}) ELSE {}
      /\ UNCHANGED <<network, prt, checks, queue, forwarded, published, asks,
                     lease, status>>

ResponseAborts(m) ==
  /\ Running
  /\ m.kind = "response"
  /\ CacheFull(m) \/ Invalid(m)
  /\ Stop

\* Wireless frames get lost.
Lose(m) ==
  /\ Running
  /\ net' = net \ {m}
  /\ UNCHANGED <<network, cache, store, prt, checks, queue, schedule, forwarded,
                 published, asks, lease, status>>

-----------------------------------------------------------------------------
(* Time *)

\* Mutant: what expires just now is still pending, as in now > expiry.
MutantCheckPendingRequests(n) ==
  /\ Running
  /\ 0 \in checks[n]
  /\ checks' = [checks EXCEPT ![n] = @ \ {0}]
  /\ UNCHANGED <<network, prt, cache, store, queue, schedule, forwarded, net,
                 published, asks, lease, status>>

\* check_pending_requests() when it is due: what has expired is not pending.
CheckPendingRequests(n) ==
  /\ Running
  /\ 0 \in checks[n]
  /\ checks' = [checks EXCEPT ![n] = @ \ {0}]
  /\ prt' = [prt EXCEPT ![n] = Restrict(@, {b \in DOMAIN @ : @[b].left > 0})]
  /\ UNCHANGED <<network, cache, store, queue, schedule, forwarded, net,
                 published, asks, lease, status>>

Later(left) == Max({left - 1, -1})

Tick ==
  /\ Running
  /\ forwarded = Peers
  /\ net = {}
  /\ \A n \in Peers : 0 \notin checks[n]
  /\ forwarded' = {}
  /\ checks' = [n \in Nodes |-> {c - 1 : c \in checks[n]}]
  /\ prt' = [n \in Nodes |-> [b \in DOMAIN prt[n] |-> [prt[n][b] EXCEPT !.left = @ - 1]]]
  /\ queue' = [n \in Nodes |->
                 [k \in DOMAIN queue[n] |-> [queue[n][k] EXCEPT !.left = Later(@)]]]
  /\ lease' = [b \in Blocks |-> Later(lease[b])]
  /\ UNCHANGED <<network, cache, store, schedule, net, published, asks, status>>

Next ==
  \/ \E h \in Hashes : Publish(h)
  \/ \E n \in Peers, h \in Hashes : AutoFetch(n, h) \/ BehaveRequest(n, h)
  \/ \E n \in Peers : \/ Schedule(n)
                      \/ ScheduleHangs(n)
                      \/ CheckPendingRequests(n)
  \/ \E m \in net : ReceiveRequest(m) \/ ReceiveResponse(m) \/ ResponseAborts(m) \/ Lose(m)
  \/ Tick

Spec == Init /\ [][Next]_vars

\* Time goes on for ever in a run that does not stop: only so many timers fire and
\* so many frames fit within a second.
FairSpec == Spec /\ []<><<Tick>>_vars

-----------------------------------------------------------------------------
(* Properties *)

\* Every pending request is watched: check_pending_requests() is due when it
\* expires, however often it was extended and by whom.
PendingWatched ==
  \A n \in Nodes : \A b \in DOMAIN prt[n] : prt[n][b].left \in checks[n]

\* Forwarding does not keep requests alive: whatever is pending, queued or on the
\* air expires no later than the latest request a user made for the block, though
\* nodes forward requests to and fro and add up expiries.
RequestsLapse ==
  /\ \A n \in Nodes : \A b \in DOMAIN prt[n] : prt[n][b].left <= lease[b]
  /\ \A n \in Nodes : \A r \in ToSet(queue[n]) : r.left <= lease[r.block]
  /\ \A m \in net : m.kind = "request" =>
       \A r \in ToSet(m.requests) : r.left <= lease[r.block]

\* A block that was requested to be kept stays so while it is pending: forwarding
\* a neighbour's request for it, which does not want to keep it, changes nothing.
KeepSticks ==
  [][\A n \in Nodes : \A b \in DOMAIN prt[n] \cap DOMAIN prt'[n] :
       prt[n][b].keep => prt'[n][b].keep]_vars

\* Of the blocks that travel between nodes only the first is ever mixed up (see
\* AnswersWithThatBlock): what is sent under an index above 0 is that block.
HigherBlocksIntact ==
  \A m \in net : m.kind = "response" /\ m.ref[2] > 0 => m.bytes = m.ref

\* The first block of a content is never stored twice, and never behind another: a copy
\* that comes late or by another way is found, and so is whatever came before it, which
\* find() takes for the first block.  (Copies of other blocks are stored again and again.)
FirstBlockFirst ==
  \A n \in Nodes, h \in Hashes : \A list \in {cache[n][h], store[n][h]} :
    \A k \in DOMAIN list : list[k].block = <<h, 0>> => k = 1

\* Once users stop asking, no request stays pending for ever, in spite of the
\* rebroadcasts and the forwarding (check_pending_requests).
PendingEnds == <>[](\A n \in Nodes : DOMAIN prt[n] = {})

\* "Broadcast completely the data for the specified block" (contenthelper.hpp): a
\* response carries the block it is labelled with.  The code violates it.
AnswersWithThatBlock ==
  \A m \in net : m.kind = "response" => m.bytes = m.ref

===============================================================================
