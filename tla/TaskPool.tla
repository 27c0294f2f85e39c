------------------------------ MODULE TaskPool ------------------------------
(***************************************************************************)
(* Delayed execution on threads: schedule() of threadpool_async.cpp puts a *)
(* function into the delay_queue and a closure that pops and runs one into *)
(* the threadpool, whose workers take closures from a ring that grows and  *)
(* shrinks.                                                                *)
(*                                                                         *)
(* What happens under a mutex is one step, what is read or written without *)
(* it a step of its own.  All closures are alike, so the ring is the set   *)
(* of its filled slots.  Delays are relative to the clock.  Nothing calls  *)
(* interrupt(), which is left out.                                         *)
(***************************************************************************)
EXTENDS Integers, FiniteSets

CONSTANTS Workers,      \* the threads of the pool
          Callers,      \* the threads that schedule functions
          Functions,    \* the functions they schedule
          Delay,        \* Delay[x]: how long function x is to be delayed
          MinCapacity   \* min_capacity: the size of the ring to begin with

ASSUME PoolAssumption ==
  /\ Workers # {} /\ Callers # {}
  /\ IsFiniteSet(Workers) /\ IsFiniteSet(Callers) /\ IsFiniteSet(Functions)
  /\ Delay \in [Functions -> Nat]
  /\ MinCapacity \in Nat \ {0}

VARIABLES
  q,            \* the delay queue: what is left of the delay of each function
  ring,         \* the pool: size, filled slots, p, t, count and scaled
  join, stop,   \* the pool's flags
  worker,       \* worker[w]: where worker w is
  timeout,      \* timeout[w]: what is left of w's wait_for()
  running,      \* running[w]: the function w has popped, if any
  caller,       \* caller[c]: where caller c is
  sz,           \* sz[c]: the size c has read
  ended,        \* where the thread that joins the pool is
  done,         \* the functions that have run
  clean         \* history: no worker was about to sleep when `join` was set

vars == <<q, ring, join, stop, worker, timeout, running, caller, sz,
          ended, done, clean>>
dq   == <<q, timeout, running, done>>
ends == <<join, stop, ended, clean>>

InPool == {"top", "fetch", "deciding", "asleep", "taken"}
Pops   == {"pop", "waiting", "run", "after", "finished"}
Sizes  == {MinCapacity * n : n \in 1..(2 * Cardinality(Functions) + 2)}

TypeOK ==
  /\ DOMAIN q \subseteq Functions /\ \A x \in DOMAIN q : q[x] \in 0..Delay[x]
  /\ ring.size \in Sizes
  /\ ring.filled \subseteq 0..ring.size - 1
  /\ ring.p \in 0..ring.size - 1 /\ ring.t \in 0..ring.size - 1
  /\ ring.count \in 0..ring.size
  /\ {ring.scaled, join, stop, clean} \subseteq BOOLEAN
  /\ worker \in [Workers -> InPool \cup Pops]
  /\ timeout \in [Workers -> Nat]
  /\ running \in [Workers -> SUBSET Functions]
  /\ caller \in [Callers -> {"idle", "queued", "sized", "pushed"}]
  /\ sz \in [Callers -> Sizes]
  /\ ended \in {"no", "begun", "locked", "set", "waiting", "joined"}
  /\ done \subseteq Functions

Init ==
  /\ q = << >>
  /\ ring = [size |-> MinCapacity, filled |-> {}, p |-> 0, t |-> 0, count |-> 0,
             scaled |-> FALSE]
  /\ join = FALSE /\ stop = FALSE
  /\ worker = [w \in Workers |-> "top"]
  /\ timeout = [w \in Workers |-> 0]
  /\ running = [w \in Workers |-> {}]
  /\ caller = [c \in Callers |-> "idle"]
  /\ sz = [c \in Callers |-> MinCapacity]
  /\ ended = "no"
  /\ done = {}
  /\ clean = FALSE

At(places) == {w \in Workers : worker[w] \in places}

Goes(w, from, to) == worker[w] = from /\ worker' = [worker EXCEPT ![w] = to]

\* A worker that is about to sleep still holds the pool's mutex.
Unlocked == At({"deciding"}) = {}

-----------------------------------------------------------------------------
(* threadpool *)

\* Mutant: a task is added without a notification.
MutantNotifyOne == UNCHANGED worker

\* notify_one() on `available`.
NotifyOne ==
  \/ At({"asleep"}) = {} /\ UNCHANGED worker
  \/ \E v \in At({"asleep"}) : worker' = [worker EXCEPT ![v] = "fetch"]

\* Mutant: the writing position stays where it was.
MutantResized(g, len) ==
  [g EXCEPT !.size = len, !.t = 0,
            !.filled = {d \in 0..g.count - 1 : (g.t + d) % g.size \in g.filled}]

\* resize(): the tasks move to the front of the new ring.
Resized(g, len) ==
  [g EXCEPT !.size = len, !.t = 0, !.p = g.count,
            !.filled = {d \in 0..g.count - 1 : (g.t + d) % g.size \in g.filled}]

\* while (!s.stop)
Top(w) ==
  /\ \/ stop /\ Goes(w, "top", "finished")
     \/ ~stop /\ Goes(w, "top", "fetch")
  /\ UNCHANGED <<dq, ring, ends, caller, sz>>

Idle == ~stop /\ ~join /\ ring.count = 0

\* The condition for waiting, evaluated with the mutex held ...
Decide(w) ==
  /\ Unlocked
  /\ Idle
  /\ Goes(w, "fetch", "deciding")
  /\ UNCHANGED <<dq, ring, ends, caller, sz>>

\* ... and the wait, which releases it.
Sleep(w) ==
  /\ Goes(w, "deciding", "asleep")
  /\ UNCHANGED <<dq, ring, ends, caller, sz>>

\* A slot is emptied; a ring that has grown shrinks when little is left in it.
Popped(g) ==
  LET h == [g EXCEPT !.filled = @ \ {g.t}, !.t = (@ + 1) % g.size, !.count = @ - 1]
  IN  IF g.scaled /\ h.count < MinCapacity \div 2
      THEN [Resized(h, MinCapacity) EXCEPT !.scaled = FALSE]
      ELSE h

Take(w) ==
  /\ Unlocked
  /\ ~stop
  /\ ring.count > 0
  /\ Goes(w, "fetch", "taken")
  /\ ring' = Popped(ring)
  /\ UNCHANGED <<dq, ends, caller, sz>>

Leave(w) ==
  /\ Unlocked
  /\ stop \/ (join /\ ring.count = 0)
  /\ Goes(w, "fetch", "finished")
  /\ UNCHANGED <<dq, ring, ends, caller, sz>>

\* if (s.count) s.available.notify_one()
PassOn(w) ==
  /\ \/ ring.count = 0 /\ Goes(w, "taken", "pop")
     \/ ring.count > 0 /\ At({"asleep"}) = {} /\ Goes(w, "taken", "pop")
     \/ /\ ring.count > 0 /\ worker[w] = "taken"
        /\ \E v \in At({"asleep"}) :
             worker' = [worker EXCEPT ![v] = "fetch", ![w] = "pop"]
  /\ UNCHANGED <<dq, ring, ends, caller, sz>>

\* After the task: if (s.join && !s.count) break;
Again(w) ==
  /\ \/ join /\ ring.count = 0 /\ Goes(w, "after", "finished")
     \/ ~(join /\ ring.count = 0) /\ Goes(w, "after", "top")
  /\ UNCHANGED <<dq, ring, ends, caller, sz>>

-----------------------------------------------------------------------------
(* delay_queue::pop() and the function it returns *)

Firsts == {x \in DOMAIN q : \A y \in DOMAIN q : q[x] <= q[y]}

Without(x) == [y \in DOMAIN q \ {x} |-> q[y]]

\* Mutant: a worker that is notified does not look at the queue again.
MutantNotified(there) ==
  [w \in Workers |-> IF there[w] = "waiting" THEN "after" ELSE there[w]]

\* All that wait on the queue are notified.
Notified(there) ==
  [w \in Workers |-> IF there[w] = "waiting" THEN "pop" ELSE there[w]]

Pop(w) ==
  /\ worker[w] = "pop"
  /\ \E x \in Firsts :
       \/ /\ q[x] = 0
          /\ q' = Without(x)
          /\ running' = [running EXCEPT ![w] = {x}]
          /\ worker' = [IF DOMAIN q = {x} THEN worker ELSE Notified(worker)
                          EXCEPT ![w] = "run"]
          /\ UNCHANGED timeout
       \/ /\ q[x] > 0
          /\ timeout' = [timeout EXCEPT ![w] = q[x]]
          /\ worker' = [worker EXCEPT ![w] = "waiting"]
          /\ UNCHANGED <<q, running>>
  /\ UNCHANGED <<done, ring, ends, caller, sz>>

TimedOut(w) ==
  /\ timeout[w] = 0
  /\ Goes(w, "waiting", "pop")
  /\ UNCHANGED <<dq, ring, ends, caller, sz>>

Run(w) ==
  /\ Goes(w, "run", "after")
  /\ done' = done \cup running[w]
  /\ running' = [running EXCEPT ![w] = {}]
  /\ UNCHANGED <<q, timeout, ring, ends, caller, sz>>

-----------------------------------------------------------------------------
(* threadpool_async::schedule() *)

Calls(c, from, to) == caller[c] = from /\ caller' = [caller EXCEPT ![c] = to]

\* tasks.push(): whether the workers that wait are told of a function is read
\* through a pointer to a heap that the insertion has changed, unless the queue
\* was empty.
PushFunction(c, x) ==
  /\ ended = "no"
  /\ x \notin DOMAIN q \cup done \cup UNION {running[w] : w \in Workers}
  /\ Calls(c, "idle", "queued")
  /\ q' = [y \in DOMAIN q \cup {x} |-> IF y = x THEN Delay[x] ELSE q[y]]
  /\ \/ worker' = Notified(worker)
     \/ DOMAIN q # {} /\ UNCHANGED worker
  /\ UNCHANGED <<timeout, running, done, ring, ends, sz>>

\* push_back() reads the size of the ring before it locks,
ReadSize(c) ==
  /\ Calls(c, "queued", "sized")
  /\ sz' = [sz EXCEPT ![c] = ring.size]
  /\ UNCHANGED <<dq, ring, ends, worker>>

\* Mutant: the position does not wrap.
MutantAdded(g, size) ==
  [g EXCEPT !.filled = @ \cup {g.p}, !.count = @ + 1, !.p = @ + 1]

Added(g, size) ==
  [g EXCEPT !.filled = @ \cup {g.p}, !.count = @ + 1,
            !.p = IF @ + 1 = size THEN 0 ELSE @ + 1]

\* grows the ring that is full, adds the closure,
PushBack(c) ==
  /\ Unlocked
  /\ Calls(c, "sized", "pushed")
  /\ \/ ring.count # sz[c] /\ ring' = Added(ring, sz[c])
     \/ /\ ring.count = sz[c]
        /\ ring' = Added([Resized(ring, 2 * sz[c]) EXCEPT !.scaled = TRUE],
                         2 * sz[c])
  /\ UNCHANGED <<dq, ends, worker, sz>>

\* and wakes a worker.
Notify(c) ==
  /\ Calls(c, "pushed", "idle")
  /\ NotifyOne
  /\ UNCHANGED <<dq, ring, ends, sz>>

-----------------------------------------------------------------------------
(* join() and ~threadpool() *)

\* Nobody schedules while the pool is joined.
End ==
  /\ ended = "no"
  /\ \A c \in Callers : caller[c] = "idle"
  /\ ended' = "begun"
  /\ stop' \in BOOLEAN            \* ~threadpool() sets it, join() alone does not
  /\ UNCHANGED <<dq, ring, join, worker, caller, sz, clean>>

\* Mutant: the temporary guard is not there at all.
MutantLockAndUnlock ==
  /\ ended = "begun"
  /\ ended' = "locked"
  /\ UNCHANGED <<dq, ring, join, stop, worker, caller, sz, clean>>

\* The guard that join() creates is a temporary: it locks the mutex and releases it
\* at once,
LockAndUnlock ==
  /\ ended = "begun" /\ Unlocked
  /\ ended' = "locked"
  /\ UNCHANGED <<dq, ring, join, stop, worker, caller, sz, clean>>

\* so the flag is set without it.
SetJoin ==
  /\ ended = "locked"
  /\ ended' = "set"
  /\ join' = TRUE
  /\ clean' = (At({"deciding"}) = {})
  /\ UNCHANGED <<dq, ring, stop, worker, caller, sz>>

\* Mutant: notify_one() instead of notify_all().
MutantWakeAll ==
  /\ ended = "set"
  /\ ended' = "waiting"
  /\ NotifyOne
  /\ UNCHANGED <<dq, ring, join, stop, clean, caller, sz>>

WakeAll ==
  /\ ended = "set"
  /\ ended' = "waiting"
  /\ worker' = [w \in Workers |->
                  IF worker[w] = "asleep" THEN "fetch" ELSE worker[w]]
  /\ UNCHANGED <<dq, ring, join, stop, clean, caller, sz>>

Joined ==
  /\ ended = "waiting"
  /\ At({"finished"}) = Workers
  /\ ended' = "joined"
  /\ UNCHANGED <<dq, ring, join, stop, clean, worker, caller, sz>>

Later(left) == IF left = 0 THEN 0 ELSE left - 1

Tick ==
  /\ \E x \in DOMAIN q : q[x] > 0
  /\ q' = [x \in DOMAIN q |-> Later(q[x])]
  /\ timeout' = [w \in Workers |-> Later(timeout[w])]
  /\ UNCHANGED <<running, done, ring, ends, worker, caller, sz>>

Works(w) ==
  \/ Top(w) \/ Decide(w) \/ Sleep(w) \/ Take(w) \/ Leave(w) \/ PassOn(w)
  \/ Again(w) \/ Pop(w) \/ TimedOut(w) \/ Run(w)

Pushes(c) == ReadSize(c) \/ PushBack(c) \/ Notify(c)

Ends == LockAndUnlock \/ SetJoin \/ WakeAll \/ Joined

Next ==
  \/ \E w \in Workers : Works(w)
  \/ \E c \in Callers : Pushes(c) \/ \E x \in Functions : PushFunction(c, x)
  \/ End \/ Ends
  \/ Tick

Spec == Init /\ [][Next]_vars

FairSpec ==
  /\ Spec
  /\ \A w \in Workers : WF_vars(Works(w))
  /\ \A c \in Callers : WF_vars(Pushes(c))
  /\ WF_vars(Ends) /\ WF_vars(Tick)

-----------------------------------------------------------------------------
(* Properties *)

\* The ring holds its tasks from t up to p and nothing else, through growing when
\* it is full, shrinking, and wrapping in between (push_back, thread_body, resize),
\* also when a worker shrinks it after the caller has read its size.  It takes a
\* single caller: a second one that reads the size before the first grows the ring
\* moves p beyond the end.
RingIntact ==
  /\ ring.filled = {(ring.t + d) % ring.size : d \in 0..ring.count - 1}
  /\ ring.p = (ring.t + ring.count) % ring.size

\* "There will be a "pop and run" task for every function that gets put in the
\* queue" (schedule): so pop() never finds the queue empty, which is why Pop has no
\* case for it.
OneClosureEach ==
  Cardinality(DOMAIN q) =
    ring.count + Cardinality(At({"taken", "pop", "waiting"}))
               + Cardinality({c \in Callers : caller[c] \in {"queued", "sized"}})

\* Every function is run in the end, though its closure's notification may reach a
\* worker that sleeps, is busy or waits for another function, and though the worker
\* that waits may not be told of it; unless the pool is destroyed first.
EveryFunctionRuns ==
  \A x \in Functions : x \in DOMAIN q ~> (x \in done \/ stop)

\* join() returns if no worker was about to sleep as the flag was set.  A worker that
\* has seen no flag, with the mutex held, and sleeps after notify_all() is never
\* woken, and join() waits for it for ever.
JoinReturnsIfClean == clean ~> ended = "joined"

\* "join() locks and notifies so don't bother" (~threadpool): the destructor, which sets
\* stop without the mutex, always returns.  That join() locks and unlocks between the
\* two flags is enough: a worker about to sleep holds the mutex until it does, and a
\* later one sees stop.
DestructorReturns == stop ~> ended = "joined"

===============================================================================
