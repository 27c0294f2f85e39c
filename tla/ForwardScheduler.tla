-------------------------- MODULE ForwardScheduler --------------------------
(***************************************************************************)
(* ForwardSchedulerImpl of one node: the requests of its neighbours        *)
(* (BlockRequestScheduler), the blocks that arrived and wait to be sent    *)
(* (BlockResponseScheduler), and the integer program LPSolver builds from  *)
(* both.  The neighbours, the blocks found in cache and store, and GLPK    *)
(* are the environment.                                                    *)
(*                                                                         *)
(* Times are in milliseconds and relative: `left` is what remains of a     *)
(* request, -1 once it has expired.  Between two calls of sched() time     *)
(* stops at a few instants only (Phases).  All requests have utility 1.0,  *)
(* so that a neighbour's utility of a block is one over the length of its  *)
(* list; shares are counted in units of 1/Unit.                            *)
(***************************************************************************)
EXTENDS Integers, SequencesExt, Lists

CONSTANTS Neighbors,    \* nodes that may come near and ask
          Blocks,       \* the blocks
          Messages,     \* the lists of requests neighbours send
          Interval,     \* sched_interval (1000 ms)
          Phases,       \* the durations an interval is divided into
          MaxTTL,       \* get_max_ttl(): slots the solver plans for (20)
          Storage,      \* get_storage(): blocks to hold at a time (256)
          Bandwidth,    \* get_bandwidth(): blocks to send per slot (20)
          Batch,        \* requests forwarded per interval (10)
          Unit,         \* a common multiple of the possible lengths of lists
          MaxQueue,     \* bound: requests waiting to be forwarded
          MaxMessages   \* bound: messages of requests received

ASSUME ScheduleAssumption ==
  /\ Messages \subseteq Seq([block : Blocks, left : Nat])
  /\ Interval \in Nat \ {0}
  /\ Phases \in Seq(Nat \ {0}) /\ Phases # << >>
  /\ MaxTTL \in Nat /\ Storage \in Nat /\ Bandwidth \in Nat /\ Batch \in Nat
  /\ IsFiniteSet(Neighbors) /\ IsFiniteSet(Blocks)
  /\ Unit \in Nat \ {0} /\ \A k \in 1..Cardinality(Blocks) : Unit % k = 0
  /\ MaxQueue \in Nat /\ MaxMessages \in Nat

ASSUME PhasesAssumption == FoldLeft(+, 0, Phases) = Interval

VARIABLES neighbors,    \* the ids NeighborHelper::get() returns
          table,        \* request_desc_table: a list per neighbour that asked
          queue,        \* request_queue
          arrived,      \* block_arrived_buf
          scheduled,    \* block_to_schedule
          home,         \* where find() finds a block: cache, store or nowhere
          frozen,       \* the cached blocks that may not be evicted
          sent,         \* the blocks just put on the air by sched()
          phase, due,   \* where in the interval time is; sched() is to be called
          messages,     \* how many messages were received
          latest        \* history: what is left of a neighbour's last request

vars == <<neighbors, table, queue, arrived, scheduled, home, frozen, sent,
          phase, due, messages, latest>>

content == <<home, frozen, sent>>
clock   == <<phase, due>>

Cached == {b \in Blocks : home[b] = "cache"}
Found  == {b \in Blocks : home[b] # "nowhere"}

Left == Nat \cup {-1}
Desc == [block : Blocks, left : Left]

TypeOK ==
  /\ neighbors \subseteq Neighbors
  /\ DOMAIN table \subseteq Neighbors /\ table \in [DOMAIN table -> Seq(Desc)]
  /\ queue \in Seq(Desc) /\ Len(queue) <= MaxQueue
  /\ arrived \subseteq Blocks /\ scheduled \subseteq Blocks
  /\ home \in [Blocks -> {"nowhere", "cache", "store"}]
  /\ frozen \subseteq Cached /\ sent \subseteq Found
  /\ phase \in DOMAIN Phases /\ due \in BOOLEAN
  /\ messages \in 0..MaxMessages
  /\ latest \in [Neighbors \X Blocks -> Left]

Init ==
  /\ neighbors = {} /\ table = << >> /\ queue = << >>
  /\ arrived = {} /\ scheduled = {}
  /\ home = [b \in Blocks |-> "nowhere"] /\ frozen = {} /\ sent = {}
  /\ phase = 1 /\ due = FALSE
  /\ messages = 0
  /\ latest = [x \in Neighbors \X Blocks |-> -1]

-----------------------------------------------------------------------------
(* What the scheduler is told *)

\* A beacon of a new neighbour; neighbours are never dropped (NeighborHelper).
Meet(n) ==
  /\ n \notin neighbors
  /\ neighbors' = neighbors \cup {n}
  /\ UNCHANGED <<table, queue, arrived, scheduled, content, clock, messages, latest>>

\* Mutant: an older request for the same block stays in the list.
MutantInserted(list, r) == Append(Only(list, {d \in ToSet(list) : d.left >= 0}), r)

\* insert_request(): the list loses what has expired and an older request for the
\* same block.
Inserted(list, r) ==
  Append(Only(list, {d \in ToSet(list) : d.block # r.block /\ d.left >= 0}), r)

\* The list after all requests of a message, one after the other.
Given(list, requests) ==
  LET given[k \in 0..Len(requests)] ==
        IF k = 0 THEN list ELSE Inserted(given[k - 1], requests[k])
  IN  given[Len(requests)]

\* on_blockrequest(): every request is queued and put in the neighbour's list.
OnBlockRequest(n, requests) ==
  /\ messages < MaxMessages
  /\ Len(queue) + Len(requests) <= MaxQueue
  /\ messages' = messages + 1
  /\ queue' = queue \o requests
  /\ LET list == IF n \in DOMAIN table THEN table[n] ELSE << >>
     IN  table' = [m \in DOMAIN table \cup {n} |->
                     IF m = n THEN Given(list, requests) ELSE table[m]]
  /\ latest' = [x \in DOMAIN latest |->
       LET asks == {k \in DOMAIN requests : x = <<n, requests[k].block>>}
       IN  IF asks = {} THEN latest[x] ELSE requests[Max(asks)].left]
  /\ UNCHANGED <<neighbors, arrived, scheduled, content, clock>>

\* on_block(), raised by receive(BlockResponse) after the block went to the cache or
\* the store; a block may be there under another index, and then it is not found
\* (BlockExchange).
OnBlock(b) ==
  /\ arrived' = arrived \cup {b}
  /\ IF b \in Found THEN UNCHANGED home
     ELSE \E place \in {"nowhere", "cache", "store"} :
            home' = [home EXCEPT ![b] = place]
  /\ UNCHANGED <<neighbors, table, queue, scheduled, frozen, sent, clock, messages,
                 latest>>

\* create_new() puts blocks in the cache without an event.
Publish(b) ==
  /\ b \notin Found
  /\ home' = [home EXCEPT ![b] = "cache"]
  /\ UNCHANGED <<neighbors, table, queue, arrived, scheduled, frozen, sent, clock,
                 messages, latest>>

-----------------------------------------------------------------------------
(* What the solver is given *)

\* get_ttl(): microseconds over the interval in milliseconds, -1 for no request
\* that is alive.
TTL(n, b) ==
  LET live == IF n \in DOMAIN table
              THEN {d \in ToSet(table[n]) : d.block = b /\ d.left > 0} ELSE {}
  IN  IF live = {} THEN -1 ELSE ((CHOOSE d \in live : TRUE).left * 1000) \div Interval

\* The list of n when the i-th scheduled block is looked up: get_utility() has
\* erased the expired requests for the blocks before.
Seen(n, order, i) ==
  Only(table[n], {d \in ToSet(table[n]) :
                    d.left >= 0 \/ d.block \notin ToSet(SubSeq(order, 1, i - 1))})

\* get_utility() of the i-th scheduled block, in units.
Utility(n, order, i) ==
  LET seen == IF n \in DOMAIN table THEN Seen(n, order, i) ELSE << >>
  IN  IF \E k \in DOMAIN seen : seen[k].block = order[i] /\ seen[k].left >= 0
      THEN Unit \div Len(seen) ELSE 0

\* For a list that has run empty get_utility() is 0/0.
NotANumber(order) ==
  \E n \in neighbors \cap DOMAIN table, i \in DOMAIN order : Seen(n, order, i) = << >>

-----------------------------------------------------------------------------
(* LPSolver::solve *)

\* Constraint 4 makes x[b][t], whether b is held in slot t of 0..MaxTTL+1,
\* non-increasing in t: a plan gives the number of slots each block is held, and
\* a block is sent at the end of the last one.  At most Storage blocks are held in a
\* slot (1), most of all in the first, and at most Bandwidth sent after a slot (2).
Plans(bs) ==
  {p \in [bs -> 0..MaxTTL + 2] :
     /\ Cardinality({b \in bs : p[b] > 0}) <= Storage
     /\ \A t \in 0..MaxTTL : Cardinality({b \in bs : p[b] = t + 1}) <= Bandwidth}

\* The utilities that are at stake, unit by unit.
Shares(order) ==
  {x \in neighbors \X (DOMAIN order) \X (1..Unit) : x[3] <= Utility(x[1], order, x[2])}

\* Mutant: a request that is still alive counts nothing in slot 0.
MutantCounts(p, n, b) == p[b] > 0 /\ TTL(n, b) = -1

\* A neighbour's utility of a block counts when the block is held in slot 0, and is
\* taken back when it is still held in the slot after its ttl.
Counts(p, n, b) == p[b] > 0 /\ ~(TTL(n, b) # -1 /\ TTL(n, b) + 1 < p[b])

\* The objective: the sum of the utilities that count.
Value(p, order, shares) == Cardinality({x \in shares : Counts(p, x[1], order[x[2]])})

\* GLPK returns any of the best plans, and with a coefficient that is not a number
\* any plan at all (no held block when it gives up).
Solutions(order) ==
  LET plans  == Plans(ToSet(order))
      shares == Shares(order)
      best   == Max({Value(p, order, shares) : p \in plans})
  IN  IF NotANumber(order) THEN plans
      ELSE {p \in plans : Value(p, order, shares) = best}

-----------------------------------------------------------------------------
(* sched() and time *)

\* fwd_requests(): of the first Batch requests those that have not expired are
\* passed to request(), which reports the blocks it finds as arrived.
Taken   == Min({Batch, Len(queue)})
Reports ==
  {r.block : r \in {d \in ToSet(SubSeq(queue, 1, Taken)) :
                      d.left >= 0 /\ d.block \in Found}}

\* The blocks the response scheduler is about to schedule.
Ready == scheduled \cup arrived \cup Reports

\* The orders in which an unordered set can be iterated over.
Orders(bs) == {s \in [1..Cardinality(bs) -> bs] : ToSet(s) = bs}

\* sched(): forward requests, then plan the blocks in the order of an unordered set,
\* freeze those held now, unfreeze the others, and send those held for this slot
\* only; they need no schedule any more.  (Freezing may hang: ContentCache.)
Sched ==
  /\ due
  /\ due' = FALSE
  /\ queue' = SubSeq(queue, Taken + 1, Len(queue))
  /\ arrived' = {}
  /\ \E order \in Orders(Ready) : \E p \in Solutions(order) :
       LET now == {b \in Ready : p[b] = 1}
       IN  /\ scheduled' = Ready \ now
           /\ frozen' = (frozen \ {b \in Ready : p[b] = 0})
                          \cup {b \in Cached \cap Ready : p[b] > 0}
           /\ sent' = now \cap Found
  /\ table' = [n \in DOMAIN table |->
                 IF n \in neighbors
                 THEN Only(table[n], {d \in ToSet(table[n]) :
                                        d.left >= 0 \/ d.block \notin Ready})
                 ELSE table[n]]
  /\ UNCHANGED <<neighbors, home, phase, messages, latest>>

\* Mutant: what has expired goes on counting down.
MutantLater(left, d) == left - d

Later(left, d) == Max({left - d, -1})

\* Time passes to the next instant; the timer of sched() fires after the last.
Elapse ==
  /\ ~due
  /\ due' = (phase = Len(Phases))
  /\ phase' = (phase % Len(Phases)) + 1
  /\ LET Aged(list) ==
           [k \in DOMAIN list |-> [list[k] EXCEPT !.left = Later(@, Phases[phase])]]
     IN  /\ table' = [n \in DOMAIN table |-> Aged(table[n])]
         /\ queue' = Aged(queue)
  /\ latest' = [x \in DOMAIN latest |-> Later(latest[x], Phases[phase])]
  /\ sent' = {}
  /\ UNCHANGED <<neighbors, arrived, scheduled, home, frozen, messages>>

Next ==
  \/ \E n \in Neighbors :
       Meet(n) \/ \E requests \in Messages : OnBlockRequest(n, requests)
  \/ \E b \in Blocks : OnBlock(b) \/ Publish(b)
  \/ Sched
  \/ Elapse

Spec == Init /\ [][Next]_vars

-----------------------------------------------------------------------------
(* Properties *)

\* The table answers for the last request of each neighbour, however requests are
\* repeated with other ttls and old ones are erased under way (insert_request,
\* get_utility): a request that is alive is listed exactly once, as it was last made.
TableIsLatest ==
  \A n \in Neighbors, b \in Blocks :
    latest[n, b] >= 0 =>
      /\ n \in DOMAIN table
      /\ \E k \in DOMAIN table[n] :
           /\ table[n][k].left = latest[n, b]
           /\ {j \in DOMAIN table[n] : table[n][j].block = b} = {k}

\* Of every neighbour that asked some request is alive, so that no list runs empty.
AllListsLive ==
  \A n \in neighbors \cap DOMAIN table : \E d \in ToSet(table[n]) : d.left >= 0

\* sched() leaves a block that a neighbour wants unfrozen only when its means are
\* used up: Storage blocks are held or Bandwidth blocks are sent (LPSolver).  Lists
\* that have run empty are excepted, as the solver then gets no numbers.
WantedBlocksHeld ==
  [][due /\ ~due' /\ AllListsLive
     => \A b \in Cached \cap Ready :
          (\E n \in neighbors : latest[n, b] >= 0)
          => \/ b \in frozen'
             \/ Cardinality(Ready \ scheduled') >= Bandwidth
             \/ Cardinality(Ready \ (Cached \ frozen')) >= Storage]_vars

\* A deadline is a slot, and a block is sent at the end of its last slot
\* (test_lpsolver.cpp): a block wanted before the next call is sent by this one,
\* unless the means are used up.  The code violates it, as get_ttl() does not count
\* in slots.
BroadcastInTime ==
  [][due /\ ~due' /\ AllListsLive
     => \A n \in neighbors, b \in Cached \cap Ready :
          latest[n, b] \in 1..Interval - 1
          => \/ b \notin scheduled'
             \/ Cardinality(Ready \ scheduled') >= Bandwidth
             \/ Cardinality(Ready \ (Cached \ frozen')) >= Storage]_vars
=============================================================================
