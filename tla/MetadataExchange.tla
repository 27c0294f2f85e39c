-------------------------- MODULE MetadataExchange --------------------------
(***************************************************************************)
(* Content metadata: announcing, discovering and fetching automatically,   *)
(* the other half of ContentHelperImpl (create_new, announce_metadata,     *)
(* receive(ContentAnn), discover, do_auto_fetch), with the calls of        *)
(* ForwardSchedulerImpl that drive it, on every node of a network.         *)
(*                                                                         *)
(* A tick is min_announce_interval (1 s), which is also the scheduling     *)
(* interval and the delay of an automatic fetch.  Every call of            *)
(* announce_metadata() arms a timer of its own, so a node has any number   *)
(* of announce timers.  Times are relative to the clock.  Frames take less *)
(* than a tick.                                                            *)
(***************************************************************************)
EXTENDS BlockEntries, SequencesExt

CONSTANTS Nodes,        \* the nodes
          Reach,        \* Reach[n]: the nodes that can hear n
          Publisher,    \* Publisher[h]: the node that publishes content h
          TTL,          \* default_initial_ttl, in ticks
          MaxDelay,     \* the longest pause between announcements (60 s), in ticks
          FetchBatch,   \* blocks fetched at a time (4)
          HopRange,     \* hops are unsigned integers modulo this (256)
          MaxTimers,    \* bound: timers of one kind a node has pending
          MaxFetch,     \* bound: blocks waiting to be fetched
          MaxChanges    \* bound: how often the interests of a node change

ASSUME MetadataAssumption ==
  /\ IsFiniteSet(Hashes)
  /\ Reach \in [Nodes -> SUBSET Nodes] /\ \A n \in Nodes : n \notin Reach[n]
  /\ Publisher \in [Hashes -> Nodes]
  /\ TTL \in Nat \ {0} /\ MaxDelay \in Nat \ {0}
  /\ FetchBatch \in Nat \ {0} /\ HopRange \in Nat \ {0}
  /\ MaxTimers \in Nat \ {0} /\ MaxFetch \in Nat /\ MaxChanges \in Nat

Local    == [left : 0..TTL, since : 0..MaxDelay, wait : 0..MaxDelay]
Metadata == [left : 0..TTL, hops : 0..HopRange - 1]

\* The tables of some contents.
Tables(entries) == UNION {[hs -> entries] : hs \in SUBSET Hashes}

VARIABLES lmt,          \* the local metadata tables: a function from the contents
                        \* published so far; `since` is the time since last_requested
          rmt,          \* rmt[n]: remote metadata, a function from contents
          interested,   \* interested[n]: contents contains_any() is true of
          announcing,   \* announcing[n]: announce timers due in this and the next tick
          fetching,     \* fetching[n]: the same of the fetch timers
          fetch,        \* fetch[n]: auto_fetch_queue
          wanted,       \* history: wanted[n]: contents that interested n when it learned
          requested,    \* history: requested[n]: the blocks of them it requested since
          scheduled,    \* the nodes whose scheduler ran this tick
          net,          \* announcements on the air
          changes       \* how often interests changed so far

vars == <<lmt, rmt, interested, announcing, fetching, fetch, wanted, requested,
          scheduled, net, changes>>

Timers == [now : 0..MaxTimers, next : 0..MaxTimers]

TypeOK ==
  /\ lmt \in Tables(Local)
  /\ rmt \in [Nodes -> Tables(Metadata)]
  /\ interested \in [Nodes -> SUBSET Hashes]
  /\ announcing \in [Nodes -> Timers] /\ fetching \in [Nodes -> Timers]
  /\ fetch \in [Nodes -> Seq(Blocks)]
  /\ wanted \in [Nodes -> SUBSET Hashes]
  /\ requested \in [Nodes -> SUBSET Blocks]
  /\ scheduled \subseteq Nodes
  /\ \A m \in net : /\ m.from \in Nodes /\ m.to \in Reach[m.from]
                    /\ m.metadata \in Tables(Metadata)
  /\ changes \in 0..MaxChanges

\* The constructor arms the first announce timer.
Init ==
  /\ lmt = << >>
  /\ rmt = [n \in Nodes |-> << >>]
  /\ interested = [n \in Nodes |-> {}]
  /\ announcing = [n \in Nodes |-> [now |-> 0, next |-> 1]]
  /\ fetching = [n \in Nodes |-> [now |-> 0, next |-> 0]]
  /\ fetch = [n \in Nodes |-> << >>]
  /\ wanted = [n \in Nodes |-> {}]
  /\ requested = [n \in Nodes |-> {}]
  /\ scheduled = {}
  /\ net = {}
  /\ changes = 0

\* A table with one more content.
Added(table, h, entry) ==
  [g \in DOMAIN table \cup {h} |-> IF g = h THEN entry ELSE table[g]]

\* `count` more timers for the next tick, as far as they are counted.
Armed(timers, count) == [timers EXCEPT !.next = Min({@ + count, MaxTimers})]
Fired(timers)        == [timers EXCEPT !.now = @ - 1]

-----------------------------------------------------------------------------
(* Announcing *)

Own(local, n) == {h \in DOMAIN local : Publisher[h] = n}

\* Mutant: expired() is not asked.
MutantLive(n) == DOMAIN rmt[n]
Live(n)       == {h \in DOMAIN rmt[n] : rmt[n][h].left > 0}

\* What announce_metadata() announces: own content whose pause is over, and what
\* has not expired of the remote content somebody is interested in.
Resting(local, n) == {h \in Own(local, n) : local[h].wait = 0}
Relayed(n)        == Live(n) \cap interested[n]

\* An announcement of the contents hs to everyone in reach.
Announcement(local, n, hs) ==
  LET Sent(h) == IF h \in Own(local, n) THEN [left |-> local[h].left, hops |-> 0]
                                        ELSE rmt[n][h]
  IN  {[from |-> n, to |-> r, metadata |-> [h \in hs |-> Sent(h)]] :
         r \in IF hs = {} THEN {} ELSE Reach[n]}

\* LocalMetadata::announced(): the pause is as long as the content has been there.
Announced(l) == [l EXCEPT !.wait = Max({1, l.since})]

\* Mutant: it returns when either table is empty.
MutantSilent(local, n) == Own(local, n) = {} \/ DOMAIN rmt[n] = {}

\* announce_metadata() returns at once, without arming another timer, when both
\* tables are empty.
Silent(local, n) == Own(local, n) = {} /\ DOMAIN rmt[n] = {}

\* One call of announce_metadata() by node n, with the local metadata in `local`.
AnnounceMetadata(local, n, timers) ==
  IF Silent(local, n)
  THEN /\ lmt' = local
       /\ announcing' = [announcing EXCEPT ![n] = timers]
       /\ UNCHANGED <<rmt, net>>
  ELSE LET resting == Resting(local, n)
       IN  /\ lmt' = [h \in DOMAIN local |->
                        IF h \in resting THEN Announced(local[h]) ELSE local[h]]
           /\ rmt' = [rmt EXCEPT ![n] = Restrict(@, Live(n))]
           /\ announcing' = [announcing EXCEPT ![n] = Armed(timers, 1)]
           /\ net' = net \cup Announcement(local, n, resting \cup Relayed(n))

\* An announce timer of node n fires.
AnnounceTimer(n) ==
  /\ announcing[n].now > 0
  /\ AnnounceMetadata(lmt, n, Fired(announcing[n]))
  /\ UNCHANGED <<interested, fetching, fetch, wanted, requested, scheduled, changes>>

\* create_new() and the announce_metadata() every caller lets follow it.
Publish(h) ==
  /\ h \notin DOMAIN lmt
  /\ AnnounceMetadata(Added(lmt, h, [left |-> TTL, since |-> 0, wait |-> 0]),
                      Publisher[h], announcing[Publisher[h]])
  /\ UNCHANGED <<interested, fetching, fetch, wanted, requested, scheduled, changes>>

\* sched() calls announce_metadata() twice, for metadata and, by mistake, for
\* interests.  The second call finds no own content whose pause is over, and only
\* arms a timer when something is left in the tables.
Schedule(n) ==
  LET again   == Own(lmt, n) # {} \/ Live(n) # {}
      resting == Resting(lmt, n)
  IN  /\ n \notin scheduled
      /\ scheduled' = scheduled \cup {n}
      /\ IF Silent(lmt, n) THEN UNCHANGED <<lmt, rmt, announcing, net>>
         ELSE /\ lmt' = [h \in DOMAIN lmt |->
                           IF h \in resting THEN Announced(lmt[h]) ELSE lmt[h]]
              /\ rmt' = [rmt EXCEPT ![n] = Restrict(@, Live(n))]
              /\ announcing' = [announcing EXCEPT ![n] = Armed(@, IF again THEN 2 ELSE 1)]
              /\ net' = net \cup Announcement(lmt, n, resting \cup Relayed(n))
                            \cup Announcement(lmt, n, Relayed(n))
      /\ UNCHANGED <<interested, fetching, fetch, wanted, requested, changes>>

-----------------------------------------------------------------------------
(* Discovering and fetching *)

\* Mutants: the announcement starts a life of its own; the latest hops are kept.
MutantDiscoveredAnew(table, h, meta) ==
  IF h \in DOMAIN table THEN table ELSE Added(table, h, [meta EXCEPT !.left = TTL])
MutantDiscoveredLast(table, h, meta) ==
  IF h \in DOMAIN table THEN [table EXCEPT ![h].hops = meta.hops]
                        ELSE Added(table, h, meta)

\* discover(): an unknown content is added as it was announced, of a known one
\* only the hops improve.
Discovered(table, h, meta) ==
  IF h \in DOMAIN table
  THEN [table EXCEPT ![h].hops = Min({@, meta.hops})]
  ELSE Added(table, h, meta)

\* do_auto_fetch(): the first FetchBatch blocks leave the queue; those of content
\* that is still known are requested, the others forgotten.  When blocks are left
\* another timer is armed.
Popped(q)       == SubSeq(q, Min({FetchBatch, Len(q)}) + 1, Len(q))
Taken(q)        == SubSeq(q, 1, Min({FetchBatch, Len(q)}))
Known(q, table) == {b \in ToSet(q) : b[1] \in DOMAIN table}

\* Mutant: one batch is all there is.
MutantRearms(q) == 0
Rearms(q) == IF q = << >> THEN 0 ELSE 1

\* A fetch timer of node n fires.
FetchTimer(n) ==
  /\ fetching[n].now > 0
  /\ fetch' = [fetch EXCEPT ![n] = Popped(@)]
  /\ requested' = [requested EXCEPT ![n] = @ \cup Known(Taken(fetch[n]), rmt[n])]
  /\ fetching' = [fetching EXCEPT ![n] = Armed(Fired(@), Rearms(Popped(fetch[n])))]
  /\ UNCHANGED <<lmt, rmt, interested, announcing, wanted, scheduled, net, changes>>

BlocksInOrder(h) == [k \in 1..BlockCount[h] |-> <<h, k - 1>>]

\* "Break loops": a node does not learn of its own content.
\* Mutant: it does.
MutantComesBack(n, h) == FALSE
ComesBack(n, h) == Publisher[h] = n

\* receive(ContentAnn) of one item: own content is skipped, anything else is one
\* hop further; the blocks of new interesting content are queued and the first of
\* the queue fetched.  (tab holds what one node changes meanwhile.)
Learn(n, tab, h, meta) ==
  LET table == Discovered(tab.rmt, h, [meta EXCEPT !.hops = (@ + 1) % HopRange])
      queue == tab.fetch \o BlocksInOrder(h)
  IN  IF ComesBack(n, h) THEN tab
      ELSE IF h \in DOMAIN tab.rmt THEN [tab EXCEPT !.rmt = table]
      ELSE IF h \notin interested[n]
      THEN [tab EXCEPT !.rmt = table, !.wanted = @ \ {h}]
      ELSE [rmt       |-> table,
            fetch     |-> Popped(queue),
            wanted    |-> tab.wanted \cup {h},
            requested |-> (tab.requested \ BlocksOf(h)) \cup Known(Taken(queue), table),
            timers    |-> Armed(tab.timers, Rearms(Popped(queue)))]

\* What node n has after the items of message m, in the order of the message.
Before(n) == [rmt |-> rmt[n], fetch |-> fetch[n], wanted |-> wanted[n],
              requested |-> requested[n], timers |-> fetching[n]]

Learned(m, items) ==
  LET tab[k \in 0..Len(items)] ==
        IF k = 0 THEN Before(m.to)
        ELSE Learn(m.to, tab[k - 1], items[k], m.metadata[items[k]])
  IN  tab[Len(items)]

\* receive(ContentAnn).  The items come in the order of the sender's tables.
Receive(m) ==
  \E items \in SetToSeqs(DOMAIN m.metadata) :
    LET n   == m.to
        new == Learned(m, items)
    IN  /\ Len(new.fetch) <= MaxFetch
        /\ net' = net \ {m}
        /\ rmt' = [rmt EXCEPT ![n] = new.rmt]
        /\ fetch' = [fetch EXCEPT ![n] = new.fetch]
        /\ wanted' = [wanted EXCEPT ![n] = new.wanted]
        /\ requested' = [requested EXCEPT ![n] = new.requested]
        /\ fetching' = [fetching EXCEPT ![n] = new.timers]
        /\ UNCHANGED <<lmt, interested, announcing, scheduled, changes>>

\* Wireless frames get lost.
Lose(m) ==
  /\ net' = net \ {m}
  /\ UNCHANGED <<lmt, rmt, interested, announcing, fetching, fetch, wanted, requested,
                 scheduled, changes>>

\* behave_request() reads metadata(), which drops what has expired.
ReadMetadata(n) ==
  /\ rmt' = [rmt EXCEPT ![n] = Restrict(@, Live(n))]
  /\ UNCHANGED <<lmt, interested, announcing, fetching, fetch, wanted, requested,
                 scheduled, net, changes>>

\* InterestHelperImpl learns of interests and drops them.
ChangeInterests(n) ==
  /\ changes < MaxChanges
  /\ changes' = changes + 1
  /\ \E hs \in SUBSET Hashes : interested' = [interested EXCEPT ![n] = hs]
  /\ UNCHANGED <<lmt, rmt, announcing, fetching, fetch, wanted, requested, scheduled, net>>

-----------------------------------------------------------------------------
(* Time *)

\* Mutant: unsigned seconds go on below zero.
MutantSooner(d) == d - 1
Sooner(d) == Max({d - 1, 0})
NextTick(timers) == [now |-> timers.next, next |-> 0]

Tick ==
  /\ scheduled = Nodes
  /\ net = {}
  /\ \A n \in Nodes : announcing[n].now = 0 /\ fetching[n].now = 0
  /\ scheduled' = {}
  /\ lmt' = [h \in DOMAIN lmt |-> [left  |-> Sooner(lmt[h].left),
                                   since |-> Min({lmt[h].since + 1, MaxDelay}),
                                   wait  |-> Sooner(lmt[h].wait)]]
  /\ rmt' = [n \in Nodes |-> [h \in DOMAIN rmt[n] |-> [rmt[n][h] EXCEPT !.left = Sooner(@)]]]
  /\ announcing' = [n \in Nodes |-> NextTick(announcing[n])]
  /\ fetching' = [n \in Nodes |-> NextTick(fetching[n])]
  /\ UNCHANGED <<interested, fetch, wanted, requested, net, changes>>

Next ==
  \/ \E h \in Hashes : Publish(h)
  \/ \E n \in Nodes : \/ AnnounceTimer(n)
                      \/ Schedule(n)
                      \/ FetchTimer(n)
                      \/ ReadMetadata(n)
                      \/ ChangeInterests(n)
  \/ \E m \in net : Receive(m) \/ Lose(m)
  \/ Tick

Spec == Init /\ [][Next]_vars

\* Time goes on for ever: only so many timers fire and so many frames fit within a second.
FairSpec == Spec /\ []<><<Tick>>_vars

-----------------------------------------------------------------------------
(* Properties *)

\* "Break loops" (contenthelperimpl.cpp): relayed announcements of its own content
\* never make the publisher list it as somebody else's.
NoOwnRemote == \A n \in Nodes : \A h \in DOMAIN rmt[n] : Publisher[h] # n

\* "every intermediate node decays their TTL so they expire across the entire
\* network at once" (contenthelperimpl.cpp): however it got there, and though a
\* node may forget and learn it again, what is left of remote metadata is what is
\* left of the publisher's own.
ExpireAtOnce ==
  /\ \A n \in Nodes : \A h \in DOMAIN rmt[n] :
       h \in DOMAIN lmt /\ rmt[n][h].left = lmt[h].left
  /\ \A m \in net : \A h \in DOMAIN m.metadata :
       h \in DOMAIN lmt /\ m.metadata[h].left = lmt[h].left

\* Hops are those of a path that visits no node twice: nodes that hear each other's
\* announcements, forget and learn again do not count to infinity.
HopsOfAPath ==
  \A n \in Nodes : \A h \in DOMAIN rmt[n] :
    rmt[n][h].hops \in 1..Cardinality(Nodes) - 1

\* Of content that interested a node when it learned of it, every block has been
\* requested since or waits in the queue with a timer pending to fetch it, for as
\* long as its metadata is kept: do_auto_fetch() forgets blocks only of content
\* that has been dropped, and always arms a timer for what it leaves.
EveryBlockFetched ==
  \A n \in Nodes : \A h \in wanted[n] \cap DOMAIN rmt[n] : \A b \in BlocksOf(h) :
    \/ b \in requested[n]
    \/ b \in ToSet(fetch[n]) /\ fetching[n].now + fetching[n].next > 0

\* Whoever has published goes on announcing: an announce timer is pending, although the
\* chain of timers that the constructor starts dies on a node whose tables are empty
\* (announce_metadata() returns before it arms the next).  What is published later
\* starts another chain, which never dies.
PublisherAnnounces ==
  \A n \in Nodes : Own(lmt, n) # {} => announcing[n].now + announcing[n].next > 0

\* What has expired is dropped, and again each time it is learned anew: a publisher goes
\* on announcing what it published, with nothing left of its ttl, and whoever hears that
\* adds it to its table again (announce_metadata, discover).
ExpiredDropped ==
  \A n \in Nodes, h \in Hashes :
    (h \in DOMAIN rmt[n] /\ rmt[n][h].left = 0) ~> h \notin DOMAIN rmt[n]

===============================================================================
