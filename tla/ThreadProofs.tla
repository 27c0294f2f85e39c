----------------------------- MODULE ThreadProofs -----------------------------
(* Proofs about what threads share.  First the pool that runs delayed          *)
(* functions, for any finite number of workers and functions and any capacity; *)
(* where said, for a single caller.  Then the readers-writers lock, for any     *)
(* finite set of threads.                                                       *)
EXTENDS TaskPool, RwsMutex, FiniteSetTheorems, TLAPS

-----------------------------------------------------------------------------
(* What the steps keep with any number of callers *)

InHand == {"taken", "pop", "waiting"}
Owing  == {c \in Callers : caller[c] \in {"queued", "sized"}}

\* Two callers can move p beyond the end of the ring, but it stays a number.
Rings == [size : Nat \ {0}, filled : SUBSET Nat, p : Nat, t : Nat, count : Nat,
          scaled : BOOLEAN]

Shape ==
  /\ ring \in Rings
  /\ worker \in [Workers -> InPool \cup Pops]
  /\ caller \in [Callers -> {"idle", "queued", "sized", "pushed"}]
  /\ sz \in [Callers -> Nat \ {0}]
  /\ IsFiniteSet(DOMAIN q) /\ DOMAIN q \subseteq Functions

CountInv == Shape /\ OneClosureEach

-----------------------------------------------------------------------------
(* Counting workers and callers *)

LEMMA FiniteHand == IsFiniteSet(At(InHand)) /\ Cardinality(At(InHand)) \in Nat
<1>1. At(InHand) \subseteq Workers
  BY DEF At
<1> QED BY <1>1, PoolAssumption, FS_Subset, FS_CardinalityType

LEMMA FiniteOwing == IsFiniteSet(Owing) /\ Cardinality(Owing) \in Nat
<1>1. Owing \subseteq Callers
  BY DEF Owing
<1> QED BY <1>1, PoolAssumption, FS_Subset, FS_CardinalityType

\* A worker who takes a closure is one more with a closure in hand ...
LEMMA HandGains ==
  ASSUME NEW u \in Workers, worker[u] \notin InHand, worker'[u] \in InHand,
         \A v \in Workers \ {u} : worker'[v] \in InHand <=> worker[v] \in InHand
  PROVE  Cardinality(At(InHand)') = Cardinality(At(InHand)) + 1
<1>1. At(InHand)' = At(InHand) \cup {u} /\ u \notin At(InHand)
  BY DEF At
<1> QED BY <1>1, FiniteHand, FS_AddElement

\* ... and one who has popped a function one less.
LEMMA HandLoses ==
  ASSUME NEW u \in Workers, worker[u] \in InHand, worker'[u] \notin InHand,
         \A v \in Workers \ {u} : worker'[v] \in InHand <=> worker[v] \in InHand
  PROVE  Cardinality(At(InHand)') = Cardinality(At(InHand)) - 1
<1>1. At(InHand)' = At(InHand) \ {u} /\ u \in At(InHand)
  BY DEF At
<1> QED BY <1>1, FiniteHand, FS_RemoveElement

LEMMA HandStays ==
  ASSUME \A v \in Workers : worker'[v] \in InHand <=> worker[v] \in InHand
  PROVE  At(InHand)' = At(InHand)
BY DEF At

\* A worker that moves leaves the others where they are.
LEMMA MoveStays ==
  ASSUME Shape, NEW u \in Workers, NEW a, NEW b, Goes(u, a, b),
         a \in InHand <=> b \in InHand
  PROVE  At(InHand)' = At(InHand)
<1>1. \A v \in Workers : worker'[v] \in InHand <=> worker[v] \in InHand
  BY DEF Goes, Shape
<1> QED BY <1>1, HandStays

\* Whoever wakes up, or is told of a function, has what it had in hand.
LEMMA WakingStays ==
  ASSUME Shape
  PROVE  /\ UNCHANGED worker => At(InHand)' = At(InHand)
         /\ NotifyOne => At(InHand)' = At(InHand)
         /\ worker' = Notified(worker) => At(InHand)' = At(InHand)
<1>1. ASSUME UNCHANGED worker PROVE At(InHand)' = At(InHand)
  BY <1>1, HandStays
<1>2. ASSUME NotifyOne PROVE At(InHand)' = At(InHand)
  <2>1. ASSUME NEW v \in At({"asleep"}), worker' = [worker EXCEPT ![v] = "fetch"]
        PROVE  At(InHand)' = At(InHand)
    <3>1. v \in Workers /\ worker[v] = "asleep"
      BY <2>1 DEF At
    <3>2. Goes(v, "asleep", "fetch") /\ "asleep" \notin InHand /\ "fetch" \notin InHand
      BY <2>1, <3>1 DEF Goes, InHand
    <3> QED BY <3>1, <3>2, MoveStays
  <2> QED BY <1>1, <1>2, <2>1 DEF NotifyOne
<1>3. ASSUME worker' = Notified(worker) PROVE At(InHand)' = At(InHand)
  <2>1. \A v \in Workers : worker'[v] \in InHand <=> worker[v] \in InHand
    BY <1>3 DEF Notified, InHand
  <2> QED BY <2>1, HandStays
<1> QED BY <1>1, <1>2, <1>3

\* A caller who queues a function owes a closure, until it adds one.
LEMMA OwingGains ==
  ASSUME Shape, NEW c \in Callers, Calls(c, "idle", "queued")
  PROVE  Cardinality(Owing') = Cardinality(Owing) + 1
<1>1. Owing' = Owing \cup {c} /\ c \notin Owing
  BY DEF Owing, Calls, Shape
<1> QED BY <1>1, FiniteOwing, FS_AddElement

LEMMA OwingLoses ==
  ASSUME Shape, NEW c \in Callers, Calls(c, "sized", "pushed")
  PROVE  Cardinality(Owing') = Cardinality(Owing) - 1
<1>1. Owing' = Owing \ {c} /\ c \in Owing
  BY DEF Owing, Calls, Shape
<1> QED BY <1>1, FiniteOwing, FS_RemoveElement

LEMMA OwingStays ==
  ASSUME Shape, NEW c \in Callers,
         Calls(c, "queued", "sized") \/ Calls(c, "pushed", "idle")
  PROVE  Owing' = Owing
BY DEF Owing, Calls, Shape

-----------------------------------------------------------------------------
(* The ring in one step *)

LEMMA ResizedRing ==
  ASSUME NEW g \in Rings, NEW len \in Nat \ {0}
  PROVE  /\ Resized(g, len) \in Rings
         /\ Resized(g, len).size = len /\ Resized(g, len).t = 0
         /\ Resized(g, len).p = g.count /\ Resized(g, len).count = g.count
         /\ Resized(g, len).scaled = g.scaled
         /\ Resized(g, len).filled =
              {d \in 0..g.count - 1 : (g.t + d) % g.size \in g.filled}
<1> DEFINE F == {d \in 0..g.count - 1 : (g.t + d) % g.size \in g.filled}
<1>1. F \in SUBSET Nat /\ g.count \in Nat /\ g.scaled \in BOOLEAN
  BY DEF Rings
<1>2. Resized(g, len) = [size |-> len, filled |-> F, p |-> g.count, t |-> 0,
                         count |-> g.count, scaled |-> g.scaled]
  <2> HIDE DEF F
  <2>1. Resized(g, len) = [g EXCEPT !.size = len, !.t = 0, !.p = g.count, !.filled = F]
    BY DEF Resized, F
  <2> QED BY ONLY <2>1, g \in Rings DEF Rings
<1> HIDE DEF F
<1>3. Resized(g, len) \in Rings
  BY <1>1, <1>2 DEF Rings
<1>4. F = {d \in 0..g.count - 1 : (g.t + d) % g.size \in g.filled}
  BY DEF F
<1> QED BY ONLY <1>2, <1>3, <1>4

LEMMA AddedRing ==
  ASSUME NEW g \in Rings, NEW len \in Nat \ {0}
  PROVE  /\ Added(g, len) \in Rings
         /\ Added(g, len).size = g.size /\ Added(g, len).t = g.t
         /\ Added(g, len).p = (IF g.p + 1 = len THEN 0 ELSE g.p + 1)
         /\ Added(g, len).count = g.count + 1
         /\ Added(g, len).scaled = g.scaled
         /\ Added(g, len).filled = g.filled \cup {g.p}
<1> DEFINE F == g.filled \cup {g.p}
           P == IF g.p + 1 = len THEN 0 ELSE g.p + 1
           N == g.count + 1
<1>1. /\ F \in SUBSET Nat /\ P \in Nat /\ N \in Nat
      /\ g.size \in Nat \ {0} /\ g.t \in Nat /\ g.scaled \in BOOLEAN
  BY DEF Rings
<1>2. Added(g, len) = [size |-> g.size, filled |-> F, p |-> P, t |-> g.t,
                       count |-> N, scaled |-> g.scaled]
  <2> HIDE DEF F, P, N
  <2>1. Added(g, len) = [g EXCEPT !.filled = F, !.count = N, !.p = P]
    BY DEF Added, F, P, N
  <2> QED BY ONLY <2>1, g \in Rings DEF Rings
<1> HIDE DEF F, P, N
<1>3. Added(g, len) \in Rings
  BY <1>1, <1>2 DEF Rings
<1>4. /\ F = g.filled \cup {g.p} /\ N = g.count + 1
      /\ P = IF g.p + 1 = len THEN 0 ELSE g.p + 1
  BY DEF F, P, N
<1> QED BY ONLY <1>2, <1>3, <1>4

\* The ring with its first slot emptied.
First(g) == [g EXCEPT !.filled = @ \ {g.t}, !.t = (@ + 1) % g.size, !.count = @ - 1]

LEMMA FirstRing ==
  ASSUME NEW g \in Rings, g.count > 0
  PROVE  /\ First(g) \in Rings
         /\ First(g).size = g.size /\ First(g).t = (g.t + 1) % g.size
         /\ First(g).p = g.p /\ First(g).count = g.count - 1
         /\ First(g).scaled = g.scaled
         /\ First(g).filled = g.filled \ {g.t}
<1> DEFINE F == g.filled \ {g.t}
           T == (g.t + 1) % g.size
           N == g.count - 1
<1>1. /\ F \in SUBSET Nat /\ N \in Nat
      /\ g.size \in Nat \ {0} /\ g.p \in Nat /\ g.scaled \in BOOLEAN
  BY DEF Rings
<1>2. T \in Nat
  BY DEF Rings
<1>3. First(g) = [size |-> g.size, filled |-> F, p |-> g.p, t |-> T,
                  count |-> N, scaled |-> g.scaled]
  <2> HIDE DEF F, T, N
  <2>1. First(g) = [g EXCEPT !.filled = F, !.t = T, !.count = N]
    BY DEF First, F, T, N
  <2> QED BY ONLY <2>1, g \in Rings DEF Rings
<1> HIDE DEF F, T, N
<1>4. First(g) \in Rings
  BY <1>1, <1>2, <1>3 DEF Rings
<1>5. F = g.filled \ {g.t} /\ T = (g.t + 1) % g.size /\ N = g.count - 1
  BY DEF F, T, N
<1> QED BY ONLY <1>3, <1>4, <1>5

LEMMA PoppedIs ==
  ASSUME NEW g
  PROVE  Popped(g) = IF g.scaled /\ First(g).count < MinCapacity \div 2
                     THEN [Resized(First(g), MinCapacity) EXCEPT !.scaled = FALSE]
                     ELSE First(g)
BY DEF Popped, First

LEMMA PoppedRing ==
  ASSUME NEW g \in Rings, g.count > 0
  PROVE  Popped(g) \in Rings /\ Popped(g).count = g.count - 1
<1> DEFINE h == First(g)
           z == Resized(h, MinCapacity)
<1>1. h \in Rings /\ h.count = g.count - 1
  BY FirstRing
<1>2. z \in Rings /\ z.count = h.count
  BY <1>1, ResizedRing, PoolAssumption
<1> HIDE DEF z
<1>3. [z EXCEPT !.scaled = FALSE] \in Rings /\ [z EXCEPT !.scaled = FALSE].count = z.count
  BY <1>2 DEF Rings
<1> QED BY <1>1, <1>2, <1>3, PoppedIs DEF z

-----------------------------------------------------------------------------
(* One closure for each function *)

LEMMA InitCountInv == Init => CountInv
<1> SUFFICES ASSUME Init PROVE CountInv
  OBVIOUS
<1>1. DOMAIN q = {}
  BY DEF Init
<1>2. Shape
  <2>1. ring \in Rings
    BY PoolAssumption DEF Init, Rings
  <2>2. worker \in [Workers -> InPool \cup Pops]
    BY DEF Init, InPool
  <2>3. /\ caller \in [Callers -> {"idle", "queued", "sized", "pushed"}]
        /\ sz \in [Callers -> Nat \ {0}]
    BY PoolAssumption DEF Init
  <2> QED BY <1>1, <2>1, <2>2, <2>3, FS_EmptySet DEF Shape
<1>3. At(InHand) = {} /\ Owing = {} /\ ring.count = 0
  BY DEF Init, At, InHand, Owing
<1>4. Cardinality(DOMAIN q) = ring.count + Cardinality(At(InHand)) + Cardinality(Owing)
  BY <1>1, <1>3, FS_EmptySet
<1> QED BY <1>2, <1>4 DEF CountInv, OneClosureEach, InHand, Owing

\* The shape of the state after a step of a worker ...
LEMMA WorksShape ==
  ASSUME Shape, NEW u \in Workers, Works(u)
  PROVE  Shape'
<1> USE DEF Shape
<1>1. CASE Top(u) \/ Decide(u) \/ Sleep(u) \/ Leave(u) \/ Again(u)
  BY <1>1 DEF Top, Decide, Sleep, Leave, Again, Goes, dq, ends, InPool, Pops
<1>2. CASE Take(u)
  <2>1. ring' \in Rings
    BY <1>2, PoppedRing DEF Take, Rings
  <2> QED BY <1>2, <2>1 DEF Take, Goes, dq, ends, InPool
<1>3. CASE PassOn(u)
  <2>1. worker' \in [Workers -> InPool \cup Pops]
    BY <1>3 DEF PassOn, Goes, At, InPool, Pops
  <2> QED BY <1>3, <2>1 DEF PassOn, dq, ends
<1>4. CASE Pop(u)
  <2>1. PICK x \in Firsts :
          \/ /\ q' = Without(x)
             /\ worker' = [IF DOMAIN q = {x} THEN worker ELSE Notified(worker)
                             EXCEPT ![u] = "run"]
          \/ worker' = [worker EXCEPT ![u] = "waiting"] /\ UNCHANGED q
    BY <1>4 DEF Pop
  <2>2. Notified(worker) \in [Workers -> InPool \cup Pops]
    BY DEF Notified, Pops
  <2>3. worker' \in [Workers -> InPool \cup Pops]
    BY <2>1, <2>2 DEF Pops
  <2>4. DOMAIN q' = DOMAIN q \ {x} \/ q' = q
    BY <2>1 DEF Without
  <2>5. IsFiniteSet(DOMAIN q') /\ DOMAIN q' \subseteq Functions
    BY <2>4, FS_RemoveElement
  <2> QED BY <1>4, <2>3, <2>5 DEF Pop, ends
<1>5. CASE TimedOut(u) \/ Run(u)
  BY <1>5 DEF TimedOut, Run, Goes, dq, ends, Pops
<1> QED BY <1>1, <1>2, <1>3, <1>4, <1>5 DEF Works

\* ... and of a caller.
LEMMA CallsShape ==
  ASSUME Shape, NEW c \in Callers, Pushes(c) \/ \E x \in Functions : PushFunction(c, x)
  PROVE  Shape'
<1> USE DEF Shape
<1>1. CASE ReadSize(c)
  BY <1>1 DEF ReadSize, Calls, dq, ends, Rings
<1>2. CASE PushBack(c)
  <2>1. sz[c] \in Nat \ {0} /\ 2 * sz[c] \in Nat \ {0}
    OBVIOUS
  <2>2. Added(ring, sz[c]) \in Rings
    BY <2>1, AddedRing
  <2> DEFINE z == Resized(ring, 2 * sz[c])
  <2>3. z \in Rings
    BY <2>1, ResizedRing
  <2> HIDE DEF z
  <2>4. [z EXCEPT !.scaled = TRUE] \in Rings
    BY <2>3 DEF Rings
  <2>5. Added([z EXCEPT !.scaled = TRUE], 2 * sz[c]) \in Rings
    BY <2>1, <2>4, AddedRing
  <2>6. ring' \in Rings
    BY <1>2, <2>2, <2>5 DEF PushBack, z
  <2> QED BY <1>2, <2>6 DEF PushBack, Calls, dq, ends
<1>3. CASE Notify(c)
  <2>1. worker' \in [Workers -> InPool \cup Pops]
    BY <1>3 DEF Notify, NotifyOne, At, InPool
  <2> QED BY <1>3, <2>1 DEF Notify, Calls, dq, ends
<1>4. ASSUME NEW x \in Functions, PushFunction(c, x) PROVE Shape'
  <2>1. worker' \in [Workers -> InPool \cup Pops]
    BY <1>4 DEF PushFunction, Notified, Pops
  <2>2. DOMAIN q' = DOMAIN q \cup {x}
    BY <1>4 DEF PushFunction
  <2>3. IsFiniteSet(DOMAIN q') /\ DOMAIN q' \subseteq Functions
    BY <2>2, FS_AddElement
  <2> QED BY <1>4, <2>1, <2>3 DEF PushFunction, Calls, ends
<1> QED BY <1>1, <1>2, <1>3, <1>4 DEF Pushes

\* The other steps change nothing that is counted.
LEMMA EndsShape ==
  ASSUME Shape, End \/ Ends \/ Tick \/ UNCHANGED vars
  PROVE  /\ Shape'
         /\ DOMAIN q' = DOMAIN q /\ ring' = ring /\ Owing' = Owing
         /\ At(InHand)' = At(InHand)
<1> USE DEF Shape
<1>1. CASE End \/ LockAndUnlock \/ SetJoin \/ Joined \/ UNCHANGED vars
  <2>1. UNCHANGED <<q, ring, worker, caller, sz>>
    BY <1>1 DEF End, LockAndUnlock, SetJoin, Joined, vars, dq
  <2> QED BY <2>1, WakingStays DEF Owing
<1>2. CASE WakeAll
  <2>1. UNCHANGED <<q, ring, caller, sz>>
    BY <1>2 DEF WakeAll, dq
  <2>2. worker' = [u \in Workers |-> IF worker[u] = "asleep" THEN "fetch" ELSE worker[u]]
    BY <1>2 DEF WakeAll
  <2>3. worker' \in [Workers -> InPool \cup Pops]
    BY <2>2 DEF InPool
  <2>4. \A v \in Workers : worker'[v] \in InHand <=> worker[v] \in InHand
    BY <2>2 DEF InHand
  <2> QED BY <2>1, <2>3, <2>4, HandStays DEF Owing
<1>3. CASE Tick
  <2>1. DOMAIN q' = DOMAIN q /\ UNCHANGED <<ring, worker, caller, sz>>
    BY <1>3 DEF Tick
  <2> QED BY <2>1, WakingStays DEF Owing
<1> QED BY <1>1, <1>2, <1>3 DEF Ends

\* The balance of functions and closures in a step of a worker ...
LEMMA WorksCount ==
  ASSUME CountInv, NEW u \in Workers, Works(u)
  PROVE  OneClosureEach'
<1> DEFINE Hand == Cardinality(At(InHand))
           Owe  == Cardinality(Owing)
           Left == Cardinality(DOMAIN q)
<1>0. Shape /\ Left = ring.count + Hand + Owe
  BY DEF CountInv, OneClosureEach, InHand, Owing
<1>1. Hand \in Nat /\ Owe \in Nat /\ Left \in Nat /\ ring.count \in Nat
  BY <1>0, FiniteHand, FiniteOwing, FS_CardinalityType DEF Shape, Rings
<1> SUFFICES Left' = ring'.count + Hand' + Owe'
  BY DEF OneClosureEach, InHand, Owing
<1>2. caller' = caller => Owe' = Owe
  BY DEF Owing
<1>3. q' = q => Left' = Left
  OBVIOUS
<1>4. CASE Top(u) \/ Decide(u) \/ Sleep(u) \/ Leave(u) \/ Again(u) \/ TimedOut(u) \/ Run(u)
  <2>1. \E a \in InPool \cup Pops, b \in InPool \cup Pops :
          Goes(u, a, b) /\ (a \in InHand <=> b \in InHand)
    BY <1>4 DEF Top, Decide, Sleep, Leave, Again, TimedOut, Run, InHand, InPool, Pops
  <2>2. Hand' = Hand
    BY <1>0, <2>1, MoveStays
  <2>3. UNCHANGED <<q, ring, caller>>
    BY <1>4 DEF Top, Decide, Sleep, Leave, Again, TimedOut, Run, dq
  <2> QED BY <1>0, <1>2, <1>3, <2>2, <2>3
<1>5. CASE Take(u)
  <2>1. ring'.count = ring.count - 1 /\ UNCHANGED <<q, caller>>
    BY <1>0, <1>5, PoppedRing DEF Take, Shape, dq
  <2>2. /\ worker[u] \notin InHand /\ worker'[u] \in InHand
        /\ \A v \in Workers \ {u} : worker'[v] \in InHand <=> worker[v] \in InHand
    BY <1>0, <1>5 DEF Take, Goes, InHand, Shape
  <2>3. Hand' = Hand + 1
    BY <2>2, HandGains
  <2> QED BY <1>0, <1>1, <1>2, <1>3, <2>1, <2>3
<1>6. CASE PassOn(u)
  <2>1. \A v \in Workers : worker'[v] \in InHand <=> worker[v] \in InHand
    BY <1>0, <1>6 DEF PassOn, Goes, At, InHand, Shape
  <2>2. Hand' = Hand
    BY <2>1, HandStays
  <2>3. UNCHANGED <<q, ring, caller>>
    BY <1>6 DEF PassOn, dq
  <2> QED BY <1>0, <1>2, <1>3, <2>2, <2>3
<1>7. CASE Pop(u)
  <2>0. UNCHANGED <<ring, caller>> /\ worker[u] = "pop"
    BY <1>7 DEF Pop
  <2>1. PICK x \in Firsts :
          \/ /\ q' = Without(x)
             /\ worker' = [IF DOMAIN q = {x} THEN worker ELSE Notified(worker)
                             EXCEPT ![u] = "run"]
          \/ worker' = [worker EXCEPT ![u] = "waiting"] /\ UNCHANGED q
    BY <1>7 DEF Pop
  <2>2. ASSUME q' = Without(x),
               worker' = [IF DOMAIN q = {x} THEN worker ELSE Notified(worker)
                            EXCEPT ![u] = "run"]
        PROVE  Left' = Left - 1 /\ Hand' = Hand - 1
    <3>1. DOMAIN q' = DOMAIN q \ {x} /\ x \in DOMAIN q
      BY <2>2 DEF Without, Firsts
    <3>2. Left' = Left - 1
      BY <1>0, <3>1, FS_RemoveElement, ZenonT(30) DEF Shape
    <3>3. /\ worker[u] \in InHand /\ worker'[u] \notin InHand
          /\ \A v \in Workers \ {u} : worker'[v] \in InHand <=> worker[v] \in InHand
      BY <1>0, <2>0, <2>2 DEF Notified, InHand, Shape
    <3> QED BY <3>2, <3>3, HandLoses
  <2>3. ASSUME worker' = [worker EXCEPT ![u] = "waiting"], UNCHANGED q
        PROVE  Left' = Left /\ Hand' = Hand
    <3>1. Goes(u, "pop", "waiting") /\ "pop" \in InHand /\ "waiting" \in InHand
      BY <2>0, <2>3 DEF Goes, InHand
    <3> QED BY <1>0, <2>3, <3>1, MoveStays
  <2>4. Owe' = Owe /\ ring'.count = ring.count
    BY <1>2, <2>0
  <2>5. Left' - Left = Hand' - Hand /\ Left' \in Int /\ Hand' \in Int
    <3>1. CASE UNCHANGED q /\ worker' = [worker EXCEPT ![u] = "waiting"]
      BY <1>1, <2>3, <3>1
    <3>2. CASE ~(UNCHANGED q /\ worker' = [worker EXCEPT ![u] = "waiting"])
      <4>1. Left' = Left - 1 /\ Hand' = Hand - 1
        BY <2>1, <2>2, <3>2
      <4> QED BY <1>1, <4>1
    <3> QED BY <3>1, <3>2
  <2> QED BY <1>0, <1>1, <2>4, <2>5
<1> QED BY <1>4, <1>5, <1>6, <1>7 DEF Works

\* ... and of a caller.
LEMMA CallsCount ==
  ASSUME CountInv, NEW c \in Callers,
         Pushes(c) \/ \E x \in Functions : PushFunction(c, x)
  PROVE  OneClosureEach'
<1> DEFINE Hand == Cardinality(At(InHand))
           Owe  == Cardinality(Owing)
           Left == Cardinality(DOMAIN q)
<1>0. Shape /\ Left = ring.count + Hand + Owe
  BY DEF CountInv, OneClosureEach, InHand, Owing
<1>1. Hand \in Nat /\ Owe \in Nat /\ Left \in Nat /\ ring.count \in Nat
  BY <1>0, FiniteHand, FiniteOwing, FS_CardinalityType DEF Shape, Rings
<1> SUFFICES Left' = ring'.count + Hand' + Owe'
  BY DEF OneClosureEach, InHand, Owing
<1>2. CASE ReadSize(c)
  <2>1. Owe' = Owe
    BY <1>0, <1>2, OwingStays DEF ReadSize
  <2>2. UNCHANGED <<q, ring, worker>>
    BY <1>2 DEF ReadSize, dq
  <2>3. Hand' = Hand
    BY <1>0, <2>2, WakingStays
  <2> QED BY <1>0, <2>1, <2>2, <2>3
<1>3. CASE PushBack(c)
  <2>1. Owe' = Owe - 1
    BY <1>0, <1>3, OwingLoses DEF PushBack
  <2>2. UNCHANGED <<q, worker>>
    BY <1>3 DEF PushBack, dq
  <2>3. Hand' = Hand
    BY <1>0, <2>2, WakingStays
  <2>4. ring'.count = ring.count + 1
    <3>1. sz[c] \in Nat \ {0} /\ 2 * sz[c] \in Nat \ {0} /\ ring \in Rings
      BY <1>0 DEF Shape
    <3>2. Added(ring, sz[c]).count = ring.count + 1
      BY <3>1, AddedRing
    <3> DEFINE z == Resized(ring, 2 * sz[c])
    <3>3. z \in Rings /\ z.count = ring.count
      BY <3>1, ResizedRing
    <3> HIDE DEF z
    <3>4. [z EXCEPT !.scaled = TRUE] \in Rings /\ [z EXCEPT !.scaled = TRUE].count = z.count
      BY <3>3 DEF Rings
    <3> DEFINE s == [z EXCEPT !.scaled = TRUE]
               m == 2 * sz[c]
    <3>5. s \in Rings /\ s.count = ring.count /\ m \in Nat \ {0}
      BY <3>1, <3>3, <3>4
    <3> HIDE DEF s, m
    <3>6. Added(s, m).count = ring.count + 1
      BY <3>5, AddedRing
    <3> QED BY <1>3, <3>2, <3>6 DEF PushBack, z, s, m
  <2> QED BY <1>0, <1>1, <2>1, <2>2, <2>3, <2>4
<1>4. CASE Notify(c)
  <2>1. Owe' = Owe
    BY <1>0, <1>4, OwingStays DEF Notify
  <2>2. UNCHANGED <<q, ring>> /\ NotifyOne
    BY <1>4 DEF Notify, dq
  <2>3. Hand' = Hand
    BY <1>0, <2>2, WakingStays
  <2> QED BY <1>0, <2>1, <2>2, <2>3
<1>5. ASSUME NEW x \in Functions, PushFunction(c, x)
      PROVE  Left' = ring'.count + Hand' + Owe'
  <2>1. Owe' = Owe + 1
    BY <1>0, <1>5, OwingGains DEF PushFunction
  <2>2. DOMAIN q' = DOMAIN q \cup {x} /\ x \notin DOMAIN q /\ UNCHANGED ring
    BY <1>5 DEF PushFunction
  <2>3. Left' = Left + 1
    BY <1>0, <2>2, FS_AddElement DEF Shape
  <2>4. worker' = Notified(worker) \/ UNCHANGED worker
    BY <1>5 DEF PushFunction
  <2>5. Hand' = Hand
    BY <1>0, <2>4, WakingStays
  <2> QED BY <1>0, <1>1, <2>1, <2>2, <2>3, <2>5
<1> QED BY <1>2, <1>3, <1>4, <1>5 DEF Pushes

LEMMA NextCountInv == CountInv /\ [Next]_vars => CountInv'
<1> SUFFICES ASSUME CountInv, [Next]_vars PROVE CountInv'
  OBVIOUS
<1>0. Shape /\ OneClosureEach
  BY DEF CountInv
<1>1. ASSUME NEW u \in Workers, Works(u) PROVE CountInv'
  BY <1>0, <1>1, WorksShape, WorksCount DEF CountInv
<1>2. ASSUME NEW c \in Callers, Pushes(c) \/ \E x \in Functions : PushFunction(c, x)
      PROVE  CountInv'
  BY <1>0, <1>2, CallsShape, CallsCount DEF CountInv
<1>3. CASE End \/ Ends \/ Tick \/ UNCHANGED vars
  BY <1>0, <1>3, EndsShape DEF CountInv, OneClosureEach, InHand, Owing
<1> QED BY <1>1, <1>2, <1>3 DEF Next

LEMMA AlwaysCounted == Spec => []CountInv
BY InitCountInv, NextCountInv, PTL DEF Spec

\* Every function in the queue has its closure, in the ring, in a worker's hands or
\* on its way, with any number of callers and workers: pop() never finds the queue
\* empty (threadpool_async::schedule).
THEOREM AClosureForEach == Spec => []OneClosureEach
<1>1. CountInv => OneClosureEach
  BY DEF CountInv
<1> QED BY <1>1, AlwaysCounted, PTL
-----------------------------------------------------------------------------
(* What the steps keep with a single caller *)

OneCaller == \E c : Callers = {c}

Spots(g) == {(g.t + d) % g.size : d \in 0..g.count - 1}

Intact(g) ==
  /\ g \in Rings
  /\ g.t < g.size /\ g.count <= g.size
  /\ g.filled = Spots(g)
  /\ g.p = (g.t + g.count) % g.size

\* A worker has shrunk the ring since caller c has read its size: the tasks are at the
\* front, so neither of the comparisons with the old size comes out true.
Shrunk(c) ==
  /\ ring.size = MinCapacity /\ sz[c] > MinCapacity
  /\ ring.p < MinCapacity \div 2 /\ ring.t + ring.count = ring.p

SizeRead == \A c \in Callers : caller[c] = "sized" => sz[c] = ring.size \/ Shrunk(c)

RingInv ==
  /\ CountInv
  /\ Intact(ring) /\ ring.size \in Sizes
  /\ sz \in [Callers -> Sizes]
  /\ SizeRead

-----------------------------------------------------------------------------
(* Arithmetic *)

\* The remainder of a number less than twice the divisor.
LEMMA Wraps ==
  ASSUME NEW n \in Nat \ {0}, NEW a \in Nat, a < 2 * n
  PROVE  a % n = IF a < n THEN a ELSE a - n
<1> DEFINE k == a \div n
           z == a % n
<1>1. a = n * k + z /\ z \in 0..n - 1 /\ k \in Int
  OBVIOUS
<1> HIDE DEF k, z
<1>2. k = 0 \/ k = 1
  <2>1. n * k < 2 * n /\ n * k > -n
    BY <1>1
  <2>2. ~(k >= 2)
    <3> SUFFICES ASSUME k >= 2 PROVE n * k >= n * 2
      BY <1>1, <2>1
    <3> QED BY <1>1
  <2>3. ~(k <= -1)
    <3> SUFFICES ASSUME k <= -1 PROVE n * k <= n * (-1)
      BY <1>1, <2>1
    <3> QED BY <1>1
  <2> QED BY <1>1, <2>2, <2>3
<1>3. CASE k = 0
  <2>1. n * k = 0
    BY <1>3
  <2> QED BY <1>1, <2>1 DEF z
<1>4. CASE k = 1
  <2>1. n * k = n
    BY <1>4
  <2> QED BY <1>1, <2>1 DEF z
<1> QED BY <1>2, <1>3, <1>4

\* The sizes a ring has.
LEMMA SizesAre ==
  /\ MinCapacity \in Sizes
  /\ \A s \in Sizes : s \in Nat \ {0} /\ s >= MinCapacity
  /\ \A s \in Sizes : s <= Cardinality(Functions) => 2 * s \in Sizes
<1> DEFINE F == Cardinality(Functions)
<1>1. F \in Nat
  BY PoolAssumption, FS_CardinalityType
<1> HIDE DEF F
<1>2. MinCapacity = MinCapacity * 1 /\ 1 \in 1..2 * F + 2
  BY <1>1, PoolAssumption
<1>3. ASSUME NEW s \in Sizes
      PROVE  s \in Nat \ {0} /\ s >= MinCapacity /\ (s <= F => 2 * s \in Sizes)
  <2>1. PICK n \in 1..2 * F + 2 : s = MinCapacity * n
    BY DEF Sizes, F
  <2>2. MinCapacity * n >= MinCapacity /\ MinCapacity * n >= n /\ MinCapacity * n \in Nat
    BY <1>1, PoolAssumption
  <2>3. 2 * s = MinCapacity * (2 * n)
    BY <1>1, <2>1, PoolAssumption
  <2>4. s <= F => 2 * n \in 1..2 * F + 2
    BY <1>1, <2>1, <2>2
  <2> QED BY <1>1, <2>1, <2>2, <2>3, <2>4, PoolAssumption DEF Sizes, F
<1> QED BY <1>2, <1>3 DEF Sizes, F

-----------------------------------------------------------------------------
(* A ring that is intact *)

LEMMA IntactTypes ==
  ASSUME NEW g, Intact(g)
  PROVE  /\ g.size \in Nat \ {0} /\ g.t \in 0..g.size - 1 /\ g.count \in 0..g.size
         /\ g.p \in 0..g.size - 1 /\ g.filled \subseteq 0..g.size - 1
         /\ g.scaled \in BOOLEAN
         /\ \A d \in 0..g.count :
              (g.t + d) % g.size = IF g.t + d < g.size THEN g.t + d ELSE g.t + d - g.size
<1>1. /\ g.size \in Nat \ {0} /\ g.t \in 0..g.size - 1 /\ g.count \in 0..g.size
      /\ g.scaled \in BOOLEAN
  BY DEF Intact, Rings
<1>2. ASSUME NEW d \in 0..g.count
      PROVE  (g.t + d) % g.size = IF g.t + d < g.size THEN g.t + d ELSE g.t + d - g.size
  <2>1. PICK n \in Nat \ {0}, a \in Nat : n = g.size /\ a = g.t + d /\ a < 2 * n
    BY <1>1
  <2>2. a % n = IF a < n THEN a ELSE a - n
    BY <2>1, Wraps
  <2>3. g.t + d < g.size <=> a < n
    BY <2>1
  <2>4. g.t + d - g.size = a - n
    BY <1>1, <2>1
  <2>5. (g.t + d) % g.size = a % n
    BY <2>1
  <2> QED BY ONLY <2>1, <2>2, <2>3, <2>4, <2>5
<1>3. \A d \in 0..g.count : (g.t + d) % g.size \in 0..g.size - 1
  BY <1>1, <1>2
<1>4. g.p \in 0..g.size - 1
  BY <1>1, <1>3 DEF Intact
<1>5. g.filled \subseteq 0..g.size - 1
  BY <1>1, <1>3 DEF Intact, Spots
<1> QED BY <1>1, <1>2, <1>4, <1>5

\* A task is added at p, if there is room.
LEMMA IntactAdded ==
  ASSUME NEW g, Intact(g), g.count < g.size,
         NEW len \in Nat \ {0}, g.p + 1 = len <=> g.p + 1 = g.size
  PROVE  Intact(Added(g, len))
<1> DEFINE h == Added(g, len)
<1>1. g \in Rings
  BY DEF Intact
<1>2. /\ h \in Rings /\ h.size = g.size /\ h.t = g.t /\ h.count = g.count + 1
      /\ h.p = (IF g.p + 1 = len THEN 0 ELSE g.p + 1)
      /\ h.filled = g.filled \cup {g.p}
  BY <1>1, AddedRing
<1> HIDE DEF h
<1>3. /\ g.size \in Nat \ {0} /\ g.t \in 0..g.size - 1 /\ g.count \in 0..g.size
      /\ g.p \in 0..g.size - 1
  BY IntactTypes
<1>4. Spots(h) = Spots(g) \cup {g.p}
  <2>1. 0..g.count + 1 - 1 = (0..g.count - 1) \cup {g.count}
    BY <1>3
  <2>2. Spots(h) = {(g.t + d) % g.size : d \in (0..g.count - 1) \cup {g.count}}
    BY <1>2, <2>1 DEF Spots
  <2> QED BY <2>2 DEF Spots, Intact
<1>5. h.p = (h.t + h.count) % h.size
  <2> DEFINE n == g.size
             a == g.t + g.count
  <2>1. n \in Nat \ {0} /\ a \in Nat /\ a + 1 \in Nat /\ a + 1 < 2 * n /\ a < 2 * n
    BY <1>3
  <2>2. h.t + h.count = a + 1 /\ h.size = n
    BY <1>2, <1>3
  <2>3. g.p = a % n
    BY DEF Intact
  <2> HIDE DEF n, a
  <2>4. a % n = IF a < n THEN a ELSE a - n
    BY <2>1, Wraps
  <2>5. (a + 1) % n = IF a + 1 < n THEN a + 1 ELSE a + 1 - n
    <3>1. PICK b \in Nat : b = a + 1 /\ b < 2 * n
      BY <2>1
    <3>2. b % n = IF b < n THEN b ELSE b - n
      BY <2>1, <3>1, Wraps
    <3> QED BY <2>1, <3>1, <3>2
  <2>6. h.p = IF g.p + 1 = n THEN 0 ELSE g.p + 1
    BY <1>2 DEF n
  <2> QED BY <2>1, <2>2, <2>3, <2>4, <2>5, <2>6
<1>6. h.filled = Spots(h)
  BY <1>2, <1>4 DEF Intact
<1>7. h.t < h.size /\ h.count <= h.size
  BY <1>2, <1>3
<1> QED BY <1>2, <1>5, <1>6, <1>7 DEF Intact, h

\* Another size leaves the tasks in order, at the front.
LEMMA IntactResized ==
  ASSUME NEW g, Intact(g), NEW len \in Nat \ {0}, g.count < len
  PROVE  Intact(Resized(g, len))
<1> DEFINE h == Resized(g, len)
<1>1. g \in Rings
  BY DEF Intact
<1>2. /\ h \in Rings /\ h.size = len /\ h.t = 0 /\ h.p = g.count /\ h.count = g.count
      /\ h.filled = {d \in 0..g.count - 1 : (g.t + d) % g.size \in g.filled}
  BY <1>1, ResizedRing
<1> HIDE DEF h
<1>3. g.count \in Nat
  BY IntactTypes
<1>4. ASSUME NEW d \in 0..g.count PROVE (0 + d) % len = d
  <2>1. 0 + d = d /\ d \in Nat /\ d < len /\ d < 2 * len
    BY <1>3, <1>4
  <2>2. d % len = IF d < len THEN d ELSE d - len
    BY <2>1, Wraps
  <2> QED BY <2>1, <2>2
<1>5. h.filled = 0..g.count - 1
  BY <1>2 DEF Intact, Spots
<1>6. Spots(h) = 0..g.count - 1
  <2>1. Spots(h) = {(0 + d) % len : d \in 0..g.count - 1}
    BY <1>2 DEF Spots
  <2> QED BY <1>3, <1>4, <2>1
<1>7. h.p = (h.t + h.count) % h.size
  BY <1>2, <1>3, <1>4
<1> QED BY <1>2, <1>3, <1>5, <1>6, <1>7, SMTT(20) DEF Intact, h

\* The first task is taken, at t.
LEMMA IntactFirst ==
  ASSUME NEW g, Intact(g), g.count > 0
  PROVE  Intact(First(g))
<1> DEFINE h == First(g)
<1>1. g \in Rings
  BY DEF Intact
<1>2. /\ h \in Rings /\ h.size = g.size /\ h.t = (g.t + 1) % g.size /\ h.p = g.p
      /\ h.count = g.count - 1 /\ h.filled = g.filled \ {g.t}
  BY <1>1, FirstRing
<1> HIDE DEF h
<1> DEFINE n == g.size
           t == g.t
           c == g.count
           At0(d) == (t + d) % n
<1>3. n \in Nat \ {0} /\ t \in 0..n - 1 /\ c \in 1..n
  BY IntactTypes
<1>4. \A d \in 0..c : At0(d) = IF t + d < n THEN t + d ELSE t + d - n
  BY IntactTypes
<1>5. h.t = IF t + 1 < n THEN t + 1 ELSE 0
  BY <1>2, <1>3, <1>4, SMTT(20)
<1>6. \A d \in 0..c - 1 : (h.t + d) % n = At0(d + 1)
  <2> SUFFICES ASSUME NEW d \in 0..c - 1 PROVE (h.t + d) % n = At0(d + 1)
    OBVIOUS
  <2> DEFINE a == h.t + d
  <2>1. a \in Nat /\ a < 2 * n
    BY <1>3, <1>5
  <2> HIDE DEF a, n
  <2>2. a % n = IF a < n THEN a ELSE a - n
    BY <1>3, <2>1, Wraps
  <2>3. d + 1 \in 0..c
    BY <1>3
  <2>4. At0(d + 1) = IF t + (d + 1) < n THEN t + (d + 1) ELSE t + (d + 1) - n
    BY <1>4, <2>3
  <2> HIDE DEF At0
  <2> QED BY <1>3, <1>5, <2>2, <2>4 DEF a
<1>7. Spots(h) = {At0(d + 1) : d \in 0..c - 2}
  <2>1. h.count - 1 = c - 2
    BY <1>2, <1>3
  <2>2. Spots(h) = {(h.t + d) % n : d \in 0..c - 2}
    BY <1>2, <2>1 DEF Spots
  <2> QED BY <1>3, <1>6, <2>2
<1>8. Spots(g) \ {t} = {At0(d + 1) : d \in 0..c - 2}
  <2>1. Spots(g) = {At0(d) : d \in 0..c - 1}
    BY DEF Spots
  <2>2. At0(0) = t
    BY <1>3, <1>4
  <2>3. \A d \in 1..c - 1 : At0(d) # t
    BY <1>3, <1>4
  <2> HIDE DEF At0
  <2>4. Spots(g) \ {t} \subseteq {At0(d + 1) : d \in 0..c - 2}
    <3> SUFFICES ASSUME NEW d \in 0..c - 1, At0(d) # t
                 PROVE  \E e \in 0..c - 2 : At0(d) = At0(e + 1)
      BY <2>1
    <3>1. d - 1 \in 0..c - 2 /\ (d - 1) + 1 = d
      BY <1>3, <2>2
    <3> QED BY <3>1
  <2>5. \A d \in 0..c - 2 : d + 1 \in 1..c - 1 /\ d + 1 \in 0..c - 1
    BY <1>3
  <2> QED BY <2>1, <2>3, <2>4, <2>5
<1>9. h.filled = Spots(h)
  BY <1>2, <1>7, <1>8 DEF Intact
<1>10. h.p = (h.t + h.count) % h.size
  <2>1. h.count = c - 1 /\ c - 1 \in 0..c - 1 /\ (c - 1) + 1 = c
    BY <1>2, <1>3
  <2>2. (h.t + (c - 1)) % n = At0(c)
    BY <1>6, <2>1
  <2> QED BY <1>2, <2>1, <2>2 DEF Intact
<1>11. h.t < h.size /\ h.count <= h.size
  BY <1>2, <1>3, <1>5
<1> QED BY <1>2, <1>9, <1>10, <1>11 DEF Intact, h

\* A ring that shrinks has its few tasks at the front; otherwise it stays in place.
LEMMA IntactPopped ==
  ASSUME NEW g, Intact(g), g.count > 0
  PROVE  /\ Intact(Popped(g))
         /\ \/ /\ Popped(g).size = g.size /\ Popped(g).p = g.p
               /\ Popped(g).t = (IF g.t + 1 < g.size THEN g.t + 1 ELSE 0)
               /\ Popped(g).count = g.count - 1
            \/ /\ Popped(g).size = MinCapacity /\ Popped(g).t = 0
               /\ Popped(g).p = Popped(g).count
               /\ Popped(g).p < MinCapacity \div 2
<1> DEFINE h == First(g)
           z == Resized(h, MinCapacity)
           s == [z EXCEPT !.scaled = FALSE]
<1>1. g \in Rings /\ Intact(h)
  BY IntactFirst DEF Intact
<1>2. /\ h.size = g.size /\ h.p = g.p /\ h.count = g.count - 1
      /\ h.t = IF g.t + 1 < g.size THEN g.t + 1 ELSE 0
  <2>1. h.size = g.size /\ h.p = g.p /\ h.count = g.count - 1 /\ h.t = (g.t + 1) % g.size
    BY <1>1, FirstRing
  <2>2. /\ g.size \in Nat \ {0} /\ g.t \in 0..g.size - 1 /\ g.count \in 0..g.size
        /\ \A d \in 0..g.count :
             (g.t + d) % g.size = IF g.t + d < g.size THEN g.t + d ELSE g.t + d - g.size
    BY IntactTypes
  <2>3. 1 \in 0..g.count
    BY <2>2
  <2>4. (g.t + 1) % g.size = IF g.t + 1 < g.size THEN g.t + 1 ELSE g.t + 1 - g.size
    BY <2>2, <2>3
  <2>5. g.t + 1 < g.size \/ g.t + 1 - g.size = 0
    BY <2>2
  <2> HIDE DEF h
  <2> QED BY <2>1, <2>4, <2>5
<1>3. ASSUME h.count < MinCapacity \div 2
      PROVE  /\ Intact(s)
             /\ s.size = MinCapacity /\ s.t = 0 /\ s.p = s.count /\ s.p = h.count
  <2>1. h \in Rings /\ h.count \in Nat
    BY <1>1 DEF Intact, Rings
  <2>2. h.count < MinCapacity
    BY <1>3, <2>1, PoolAssumption
  <2> HIDE DEF h
  <2>3. Intact(z)
    BY <1>1, <2>2, PoolAssumption, IntactResized
  <2>4. z \in Rings /\ z.size = MinCapacity /\ z.t = 0 /\ z.p = h.count /\ z.count = h.count
    BY <2>1, PoolAssumption, ResizedRing
  <2> HIDE DEF z
  <2>5. /\ s \in Rings /\ s.size = z.size /\ s.t = z.t /\ s.p = z.p /\ s.count = z.count
        /\ s.filled = z.filled
    BY <2>4 DEF Rings
  <2> HIDE DEF s
  <2> QED BY <2>3, <2>4, <2>5 DEF Intact, Spots
<1>4. Popped(g) = IF g.scaled /\ h.count < MinCapacity \div 2 THEN s ELSE h
  BY PoppedIs
<1> HIDE DEF h, z, s
<1>5. CASE g.scaled /\ h.count < MinCapacity \div 2
  <2>1. Popped(g) = s
    BY <1>4, <1>5
  <2>2. s.p < MinCapacity \div 2
    BY <1>3, <1>5
  <2> QED BY <1>3, <1>5, <2>1, <2>2
<1>6. CASE ~(g.scaled /\ h.count < MinCapacity \div 2)
  <2>1. Popped(g) = h
    BY <1>4, <1>6
  <2> QED BY <1>1, <1>2, <2>1
<1> QED BY <1>5, <1>6

-----------------------------------------------------------------------------
(* The ring in every step *)

LEMMA InitRingInv == Init => RingInv
<1> SUFFICES ASSUME Init PROVE RingInv
  OBVIOUS
<1>1. CountInv /\ MinCapacity \in Nat \ {0} /\ MinCapacity \in Sizes
  BY InitCountInv, SizesAre, PoolAssumption
<1>2. ring = [size |-> MinCapacity, filled |-> {}, p |-> 0, t |-> 0, count |-> 0,
              scaled |-> FALSE]
  BY DEF Init
<1>3. Spots(ring) = {}
  BY <1>2 DEF Spots
<1>4. (0 + 0) % MinCapacity = 0
  BY <1>1
<1>5. Intact(ring)
  <2>1. /\ ring.size = MinCapacity /\ ring.filled = {} /\ ring.p = 0 /\ ring.t = 0
        /\ ring.count = 0
    BY <1>2
  <2>2. ring \in Rings
    BY <1>1 DEF CountInv, Shape
  <2> QED BY <1>1, <1>3, <1>4, <2>1, <2>2 DEF Intact
<1>6. sz \in [Callers -> Sizes] /\ SizeRead
  BY <1>1, <1>2 DEF Init, SizeRead
<1> QED BY <1>1, <1>2, <1>5, <1>6 DEF RingInv

\* A step that leaves the ring and the callers alone ...
LEMMA RestRingInv ==
  ASSUME RingInv, CountInv', UNCHANGED <<ring, sz>>,
         \A c \in Callers : caller'[c] = "sized" => caller[c] = "sized"
  PROVE  RingInv'
BY DEF RingInv, SizeRead, Shrunk

\* ... and one in which a worker takes a task, which may shrink the ring.
LEMMA TakeRingInv ==
  ASSUME RingInv, CountInv', NEW u \in Workers, Take(u)
  PROVE  RingInv'
<1> DEFINE g == ring
           h == Popped(g)
           M == MinCapacity
<1>1. /\ Intact(g) /\ g.size \in Sizes /\ sz \in [Callers -> Sizes] /\ SizeRead
      /\ ring' = h /\ g.count > 0 /\ UNCHANGED <<caller, sz>>
  BY DEF RingInv, Take
<1>2. /\ Intact(h)
      /\ \/ /\ h.size = g.size /\ h.p = g.p
            /\ h.t = (IF g.t + 1 < g.size THEN g.t + 1 ELSE 0)
            /\ h.count = g.count - 1
         \/ /\ h.size = M /\ h.t = 0
            /\ h.p = h.count
            /\ h.p < M \div 2
  BY <1>1, IntactPopped
<1>3. /\ g.size \in Nat \ {0} /\ g.t \in 0..g.size - 1 /\ g.count \in 1..g.size
      /\ g.p \in 0..g.size - 1
  BY <1>1, IntactTypes
<1> HIDE DEF h, g
<1>4. h.size \in Sizes
  BY <1>1, <1>2, SizesAre
<1>5. h.p \in 0..h.size - 1 /\ h.count \in 0..h.size
  BY <1>2, IntactTypes
<1>6. ASSUME NEW c \in Callers, caller[c] = "sized"
      PROVE  \/ sz[c] = h.size
             \/ h.size = M /\ sz[c] > M /\ h.p < M \div 2 /\ h.t + h.count = h.p
  <2>1. sz[c] = g.size \/ (g.size = M /\ sz[c] > M /\ g.p < M \div 2 /\ g.t + g.count = g.p)
    BY <1>1, <1>6 DEF SizeRead, Shrunk, g
  <2>2. sz[c] \in Nat /\ sz[c] >= M /\ M \in Nat \ {0}
    BY <1>1, SizesAre, PoolAssumption
  <2>3. M \div 2 \in Nat /\ M \div 2 < M
    BY <2>2
  <2>4. CASE h.size = g.size /\ h.p = g.p /\ h.count = g.count - 1
             /\ h.t = (IF g.t + 1 < g.size THEN g.t + 1 ELSE 0)
    BY <1>3, <2>1, <2>2, <2>3, <2>4
  <2>5. CASE h.size = M /\ h.t = 0 /\ h.p = h.count /\ h.p < M \div 2
    BY <1>5, <2>2, <2>5
  <2> QED BY <1>2, <2>4, <2>5
<1>7. SizeRead'
  BY <1>1, <1>6 DEF SizeRead, Shrunk
<1> QED BY <1>1, <1>2, <1>4, <1>7 DEF RingInv, h

\* A ring is full only when as many functions are in the queue.
LEMMA FewTasks ==
  ASSUME CountInv
  PROVE  ring.count <= Cardinality(Functions)
<1>1. Cardinality(DOMAIN q) <= Cardinality(Functions)
  BY PoolAssumption, FS_Subset DEF CountInv, Shape
<1>2. Cardinality(DOMAIN q) = ring.count + Cardinality(At(InHand)) + Cardinality(Owing)
  BY DEF CountInv, OneClosureEach, InHand, Owing
<1>3. /\ ring.count \in Nat /\ Cardinality(DOMAIN q) \in Nat /\ Cardinality(Functions) \in Nat
      /\ Cardinality(At(InHand)) \in Nat /\ Cardinality(Owing) \in Nat
  BY PoolAssumption, FiniteHand, FiniteOwing, FS_CardinalityType DEF CountInv, Shape, Rings
<1> QED BY <1>1, <1>2, <1>3

\* The only caller adds a closure to the ring it has found, to one it makes larger, or
\* to one that has shrunk since.
LEMMA PushBackRingInv ==
  ASSUME OneCaller, RingInv, CountInv', NEW c \in Callers, PushBack(c)
  PROVE  RingInv'
<1> DEFINE g == ring
           m == sz[c]
           z == Resized(g, 2 * m)
           s == [z EXCEPT !.scaled = TRUE]
           M == MinCapacity
<1>1. /\ Intact(g) /\ g.size \in Sizes /\ sz \in [Callers -> Sizes] /\ m \in Sizes
      /\ (m = g.size \/ (g.size = M /\ m > M /\ g.p < M \div 2 /\ g.t + g.count = g.p))
      /\ UNCHANGED sz
      /\ \/ g.count # m /\ ring' = Added(g, m)
         \/ g.count = m /\ ring' = Added(s, 2 * m)
  BY DEF RingInv, PushBack, SizeRead, Shrunk, Calls
<1>2. m \in Nat \ {0} /\ 2 * m \in Nat \ {0} /\ M \in Nat \ {0}
  BY <1>1, SizesAre, PoolAssumption
<1>3. /\ g.size \in Nat \ {0} /\ g.t \in 0..g.size - 1 /\ g.count \in 0..g.size
      /\ g.p \in 0..g.size - 1 /\ g \in Rings
  BY <1>1, IntactTypes DEF Intact
<1>4. M \div 2 \in Nat /\ M \div 2 < M
  BY <1>2
<1>5. g.count <= Cardinality(Functions)
  BY FewTasks DEF RingInv
<1> HIDE DEF g, m, z, M
<1>6. Intact(ring') /\ ring'.size \in Sizes
  <2>1. CASE g.count # m /\ ring' = Added(g, m)
    <3>1. g.count < g.size /\ (g.p + 1 = m <=> g.p + 1 = g.size)
      BY <1>1, <1>2, <1>3, <1>4, <2>1
    <3>2. Intact(Added(g, m)) /\ Added(g, m).size = g.size
      BY <1>1, <1>2, <1>3, <3>1, IntactAdded, AddedRing
    <3> QED BY <1>1, <2>1, <3>2
  <2>2. CASE g.count = m /\ ring' = Added(s, 2 * m)
    <3>1. Intact(z) /\ z.size = 2 * m /\ z.t = 0 /\ z.p = m /\ z.count = m /\ z \in Rings
      <4>1. g.count < 2 * m
        BY <1>2, <2>2
      <4> QED BY <1>1, <1>2, <1>3, <2>2, <4>1, IntactResized, ResizedRing DEF z
    <3>2. /\ s \in Rings /\ s.size = z.size /\ s.t = z.t /\ s.p = z.p /\ s.count = z.count
          /\ s.filled = z.filled
      BY <3>1 DEF Rings
    <3> HIDE DEF s
    <3>3. Intact(s)
      <4>1. Spots(s) = Spots(z)
        BY <3>2 DEF Spots
      <4> QED BY <3>1, <3>2, <4>1 DEF Intact
    <3>4. s.count < s.size /\ s.size = 2 * m
      BY <1>2, <3>1, <3>2
    <3>5. Intact(Added(s, 2 * m)) /\ Added(s, 2 * m).size = 2 * m
      BY <1>2, <3>2, <3>3, <3>4, IntactAdded, AddedRing
    <3>6. 2 * m \in Sizes
      BY <1>1, <1>5, <2>2, SizesAre
    <3> QED BY <2>2, <3>5, <3>6
  <2> QED BY <1>1, <2>1, <2>2
<1>7. SizeRead'
  <2>1. caller'[c] # "sized"
    BY DEF PushBack, Calls, RingInv, CountInv, Shape
  <2>2. \A d \in Callers : d = c
    BY DEF OneCaller
  <2> QED BY <2>1, <2>2 DEF SizeRead
<1> QED BY <1>1, <1>6, <1>7 DEF RingInv

\* The other steps of workers and callers leave the ring alone.
LEMMA NextRingInv == OneCaller /\ RingInv /\ [Next]_vars => RingInv'
<1> SUFFICES ASSUME OneCaller, RingInv, [Next]_vars PROVE RingInv'
  OBVIOUS
<1>0. CountInv' /\ Shape
  BY NextCountInv DEF RingInv, CountInv
<1>1. ASSUME NEW u \in Workers, Works(u) PROVE RingInv'
  <2>1. CASE Take(u)
    BY <1>0, <2>1, TakeRingInv
  <2>2. CASE ~Take(u)
    <3>1. UNCHANGED <<ring, caller, sz>>
      BY <1>1, <2>2 DEF Works, Top, Decide, Sleep, Leave, PassOn, Again, Pop, TimedOut, Run
    <3> QED BY <1>0, <3>1, RestRingInv
  <2> QED BY <2>1, <2>2
<1>2. ASSUME NEW c \in Callers, Pushes(c) PROVE RingInv'
  <2>1. CASE ReadSize(c)
    <3>1. UNCHANGED ring /\ sz' = [sz EXCEPT ![c] = ring.size]
      BY <2>1 DEF ReadSize
    <3>2. sz' \in [Callers -> Sizes] /\ sz'[c] = ring.size
      BY <3>1 DEF RingInv
    <3>3. \A d \in Callers : d = c
      BY DEF OneCaller
    <3> QED BY <1>0, <3>1, <3>2, <3>3 DEF RingInv, SizeRead
  <2>2. CASE PushBack(c)
    BY <1>0, <2>2, PushBackRingInv
  <2>3. CASE Notify(c)
    <3>1. UNCHANGED <<ring, sz>> /\ caller' = [caller EXCEPT ![c] = "idle"]
      BY <2>3 DEF Notify, Calls
    <3> QED BY <1>0, <3>1, RestRingInv DEF Shape
  <2> QED BY <1>2, <2>1, <2>2, <2>3 DEF Pushes
<1>3. ASSUME NEW c \in Callers, NEW x \in Functions, PushFunction(c, x) PROVE RingInv'
  <2>1. UNCHANGED <<ring, sz>> /\ caller' = [caller EXCEPT ![c] = "queued"]
    BY <1>3 DEF PushFunction, Calls
  <2> QED BY <1>0, <2>1, RestRingInv DEF Shape
<1>4. CASE End \/ Ends \/ Tick \/ UNCHANGED vars
  <2>1. UNCHANGED <<ring, caller, sz>>
    BY <1>4 DEF End, Ends, LockAndUnlock, SetJoin, WakeAll, Joined, Tick, vars
  <2> QED BY <1>0, <2>1, RestRingInv
<1> QED BY <1>1, <1>2, <1>3, <1>4 DEF Next

LEMMA AlwaysInRing == OneCaller => (Spec => []RingInv)
<1> SUFFICES ASSUME OneCaller PROVE Spec => []RingInv
  OBVIOUS
<1>1. Init => RingInv
  BY InitRingInv
<1>2. RingInv /\ [Next]_vars => RingInv'
  BY NextRingInv
<1> QED BY <1>1, <1>2, PTL DEF Spec

\* With a single caller the ring holds its tasks from t up to p and nothing else,
\* however it grows, shrinks and wraps, and whenever the caller has read its size
\* (push_back, thread_body, resize).
THEOREM TasksFromTToP == OneCaller => (Spec => []RingIntact)
<1>1. RingInv => RingIntact
  BY DEF RingInv, Intact, Spots, RingIntact
<1> QED BY <1>1, AlwaysInRing, PTL

-----------------------------------------------------------------------------
(* Types *)

\* The types of what neither the ring nor the count of closures is about.
OtherTypes ==
  /\ \A x \in DOMAIN q : q[x] \in 0..Delay[x]
  /\ timeout \in [Workers -> Nat]
  /\ running \in [Workers -> SUBSET Functions]
  /\ done \subseteq Functions
  /\ join \in BOOLEAN /\ stop \in BOOLEAN /\ clean \in BOOLEAN
  /\ ended \in {"no", "begun", "locked", "set", "waiting", "joined"}

LEMMA InitOtherTypes == Init => OtherTypes
<1> SUFFICES ASSUME Init PROVE OtherTypes
  OBVIOUS
<1>1. DOMAIN q = {}
  BY DEF Init
<1>2. timeout \in [Workers -> Nat] /\ running \in [Workers -> SUBSET Functions]
  BY DEF Init
<1>3. join \in BOOLEAN /\ stop \in BOOLEAN /\ clean \in BOOLEAN
  BY Zenon DEF Init
<1>4. ended = "no" /\ done = {}
  BY DEF Init
<1> QED BY <1>1, <1>2, <1>3, <1>4 DEF OtherTypes

LEMMA NextOtherTypes == Shape /\ OtherTypes /\ [Next]_vars => OtherTypes'
<1> SUFFICES ASSUME Shape, OtherTypes, [Next]_vars PROVE OtherTypes'
  OBVIOUS
<1>0. Delay \in [Functions -> Nat] /\ DOMAIN q \subseteq Functions
  BY PoolAssumption DEF Shape
<1> USE DEF OtherTypes
<1>1. ASSUME NEW u \in Workers, Works(u) PROVE OtherTypes'
  <2>1. UNCHANGED ends
    BY <1>1 DEF Works, Top, Decide, Sleep, Take, Leave, PassOn, Again, Pop, TimedOut, Run
  <2>2. CASE Pop(u)
    <3>1. PICK x \in Firsts :
            \/ q' = Without(x) /\ running' = [running EXCEPT ![u] = {x}] /\ UNCHANGED timeout
            \/ timeout' = [timeout EXCEPT ![u] = q[x]] /\ UNCHANGED <<q, running>>
      BY <2>2 DEF Pop
    <3>2. x \in Functions /\ x \in DOMAIN q /\ q[x] \in Nat
      BY <1>0 DEF Firsts
    <3>3. \A y \in DOMAIN q' : q'[y] \in 0..Delay[y]
      BY <3>1 DEF Without
    <3>4. timeout' \in [Workers -> Nat] /\ running' \in [Workers -> SUBSET Functions]
      BY <3>1, <3>2
    <3> QED BY <2>1, <2>2, <3>3, <3>4 DEF Pop, ends
  <2>3. CASE Run(u)
    BY <2>1, <2>3 DEF Run, ends
  <2>4. CASE ~Pop(u) /\ ~Run(u)
    <3>1. UNCHANGED dq
      BY <1>1, <2>4 DEF Works, Top, Decide, Sleep, Take, Leave, PassOn, Again, TimedOut
    <3> QED BY <2>1, <3>1 DEF dq, ends
  <2> QED BY <2>2, <2>3, <2>4
<1>2. ASSUME NEW c \in Callers, Pushes(c) PROVE OtherTypes'
  BY <1>2 DEF Pushes, ReadSize, PushBack, Notify, dq, ends
<1>3. ASSUME NEW c \in Callers, NEW x \in Functions, PushFunction(c, x) PROVE OtherTypes'
  <2>1. UNCHANGED <<timeout, running, done>> /\ UNCHANGED ends
    BY <1>3 DEF PushFunction
  <2>2. q' = [y \in DOMAIN q \cup {x} |-> IF y = x THEN Delay[x] ELSE q[y]]
    BY <1>3 DEF PushFunction
  <2>3. Delay[x] \in 0..Delay[x]
    BY <1>0
  <2>4. \A y \in DOMAIN q' : q'[y] \in 0..Delay[y]
    BY <2>2, <2>3
  <2> QED BY <2>1, <2>4 DEF ends
<1>4. CASE End \/ Ends
  <2>1. UNCHANGED dq
    BY <1>4 DEF End, Ends, LockAndUnlock, SetJoin, WakeAll, Joined
  <2>2. /\ join' \in BOOLEAN /\ stop' \in BOOLEAN /\ clean' \in BOOLEAN
        /\ ended' \in {"no", "begun", "locked", "set", "waiting", "joined"}
    BY <1>4 DEF End, Ends, LockAndUnlock, SetJoin, WakeAll, Joined
  <2> QED BY <2>1, <2>2 DEF dq
<1>5. CASE Tick
  <2>1. /\ q' = [x \in DOMAIN q |-> Later(q[x])]
        /\ timeout' = [u \in Workers |-> Later(timeout[u])]
        /\ UNCHANGED <<running, done>> /\ UNCHANGED ends
    BY <1>5 DEF Tick
  <2>2. \A x \in DOMAIN q' : q'[x] \in 0..Delay[x]
    <3> SUFFICES ASSUME NEW x \in DOMAIN q PROVE Later(q[x]) \in 0..Delay[x]
      BY <2>1
    <3>1. q[x] \in 0..Delay[x] /\ Delay[x] \in Nat
      BY <1>0
    <3> QED BY <3>1 DEF Later
  <2>3. timeout' \in [Workers -> Nat]
    BY <2>1 DEF Later
  <2> QED BY <2>1, <2>2, <2>3 DEF ends
<1>6. CASE UNCHANGED vars
  BY <1>6 DEF vars
<1> QED BY <1>1, <1>2, <1>3, <1>4, <1>5, <1>6 DEF Next

LEMMA AlwaysTyped == Spec => []OtherTypes
<1>1. CountInv => Shape
  BY DEF CountInv
<1> QED BY <1>1, AlwaysCounted, InitOtherTypes, NextOtherTypes, PTL DEF Spec

\* With a single caller every variable keeps its type; in particular the ring never
\* holds more tasks than slots, writes within it, and grows no further than the
\* functions make it.
THEOREM PoolTypeCorrect == OneCaller => (Spec => []TypeOK)
<1>1. RingInv /\ OtherTypes => TypeOK
  <2> SUFFICES ASSUME RingInv, OtherTypes PROVE TypeOK
    OBVIOUS
  <2>1. /\ ring.size \in Nat \ {0} /\ ring.t \in 0..ring.size - 1
        /\ ring.count \in 0..ring.size /\ ring.p \in 0..ring.size - 1
        /\ ring.filled \subseteq 0..ring.size - 1 /\ ring.scaled \in BOOLEAN
    BY IntactTypes DEF RingInv
  <2>2. {ring.scaled, join, stop, clean} \subseteq BOOLEAN
    BY <2>1, Zenon DEF OtherTypes
  <2> QED BY <2>1, <2>2 DEF RingInv, CountInv, Shape, OtherTypes, TypeOK
<1> QED BY <1>1, AlwaysInRing, AlwaysTyped, PTL
-----------------------------------------------------------------------------
(* The readers-writers lock: the inductive invariant *)

OneWrites ==
  \A t, u \in Threads : pc[t] = "writing" /\ pc[u] = "writing" => t = u

\* Only readers that are still there are remembered, and none once the writer has
\* seen the count at 0.
ExistingThere ==
  \A t \in Threads :
    /\ existing[t] \subseteq Inside(Entered)
    /\ pc[t] \in {"seen", "counted", "spinning", "writing"} => existing[t] = {}

LockInv == LockTypeOK /\ CountersExact /\ OneWrites /\ ExistingThere

-----------------------------------------------------------------------------
(* The lock: threads in a set of places *)

\* Counting the threads in a set of places makes sense.
LEMMA FiniteAt ==
  ASSUME NEW S
  PROVE  IsFiniteSet(Inside(S)) /\ Cardinality(Inside(S)) \in Nat
<1>1. Inside(S) \subseteq Threads
  BY DEF Inside
<1> QED BY <1>1, ThreadsAssumption, FS_Subset, FS_CardinalityType

\* Nobody is in places where nobody is counted.
LEMMA NobodyAt ==
  ASSUME NEW S, Cardinality(Inside(S)) = 0
  PROVE  Inside(S) = {}
BY FiniteAt, FS_EmptySet

\* A step within a set of places, or outside of it, leaves the threads there ...
LEMMA Stays ==
  ASSUME NEW S, NEW t \in Threads, NEW a, NEW b,
         pc \in [Threads -> Places], Moves(t, a, b), a \in S <=> b \in S
  PROVE  Inside(S)' = Inside(S)
BY DEF Inside, Moves

\* ... a step into it adds one ...
LEMMA Enters ==
  ASSUME NEW S, NEW t \in Threads, NEW a, NEW b,
         pc \in [Threads -> Places], Moves(t, a, b), a \notin S, b \in S
  PROVE  /\ Inside(S)' = Inside(S) \cup {t}
         /\ Cardinality(Inside(S)') = Cardinality(Inside(S)) + 1
<1>1. Inside(S)' = Inside(S) \cup {t} /\ t \notin Inside(S)
  BY DEF Inside, Moves
<1> QED BY <1>1, FiniteAt, FS_AddElement

\* ... and a step out of it removes one.
LEMMA Leaves ==
  ASSUME NEW S, NEW t \in Threads, NEW a, NEW b,
         pc \in [Threads -> Places], Moves(t, a, b), a \in S, b \notin S
  PROVE  /\ Inside(S)' = Inside(S) \ {t}
         /\ Cardinality(Inside(S)') = Cardinality(Inside(S)) - 1
         /\ Cardinality(Inside(S)) > 0
<1>1. Inside(S)' = Inside(S) \ {t} /\ t \in Inside(S)
  BY DEF Inside, Moves
<1>2. Cardinality(Inside(S)) # 0
  BY <1>1, NobodyAt
<1>3. IsFiniteSet(Inside(S)) /\ Cardinality(Inside(S)) \in Nat
  BY FiniteAt
<1>4. Cardinality(Inside(S) \ {t}) = Cardinality(Inside(S)) - 1
  BY <1>1, <1>3, FS_RemoveElement
<1> QED BY <1>1, <1>2, <1>3, <1>4

-----------------------------------------------------------------------------
(* The lock: steps *)

\* The steps preserve the inductive invariant: each changes one counter, and that
\* of the places its thread enters or leaves.
LEMMA InitLockInv == LockInit => LockInv
<1> SUFFICES ASSUME LockInit PROVE LockInv
  OBVIOUS
<1>1. LockTypeOK /\ OneWrites
  BY DEF LockInit, LockTypeOK, OneWrites, Places
<1>2. /\ Inside(Before) = {} /\ Inside(Past) = {}
      /\ Inside(Entered) = {} /\ Inside({"writing"}) = {}
  BY DEF LockInit, Inside, Before, Past, Entered
<1>3. CountersExact
  BY <1>2, FS_EmptySet DEF LockInit, CountersExact
<1>4. ExistingThere
  BY DEF LockInit, ExistingThere
<1> QED BY <1>1, <1>3, <1>4 DEF LockInv

LEMMA NextLockTypeOK ==
  ASSUME LockInv, [LockNext]_lockVars
  PROVE  LockTypeOK'
<1> USE DEF LockTypeOK, Places, Moves
<1>0. LockTypeOK /\ CountersExact
  BY DEF LockInv
<1>1. CASE UNCHANGED lockVars
  BY <1>0, <1>1 DEF lockVars
<1>2. CASE LockNext
  <2> SUFFICES ASSUME NEW t \in Threads,
                      Announce(t) \/ SeeNoWriters(t) \/ Continue(t)
               PROVE  LockTypeOK'
    BY <1>2 DEF LockNext
  <2>1. CASE Announce(t)
    BY <1>0, <2>1 DEF Announce, Inside, Before
  <2>2. CASE SeeNoWriters(t) \/ SeeNoReaders(t) \/ StartReading(t)
    BY <1>0, <2>2 DEF SeeNoWriters, SeeNoReaders, StartReading, Before, Entered
  <2>3. CASE Count(t) \/ Join(t)
    BY <1>0, <2>3 DEF Count, Join, Before, Entered
  <2>4. CASE Acquire(t) \/ Clear(t)
    BY <1>0, <2>4 DEF Acquire, Clear, Past
  <2>5. CASE LeaveCohort(t)
    <3>1. ww > 0
      BY <1>0, <2>5, Leaves DEF LeaveCohort, CountersExact, Before
    <3> QED BY <1>0, <2>5, <3>1 DEF LeaveCohort, Past
  <2>6. CASE Depart(t)
    <3>1. w > 0
      BY <1>0, <2>6, Leaves DEF Depart, CountersExact, Past
    <3> QED BY <1>0, <2>6, <3>1 DEF Depart
  <2>7. CASE StopReading(t)
    <3>1. Moves(t, "reading", "idle") /\ "reading" \in Entered /\ "idle" \notin Entered
      BY <2>7 DEF StopReading, Entered
    <3>2. r > 0
      BY <1>0, <3>1, Leaves DEF CountersExact
    <3> QED BY <1>0, <2>7, <3>2 DEF StopReading
  <2> QED BY <2>1, <2>2, <2>3, <2>4, <2>5, <2>6, <2>7 DEF Continue
<1> QED BY <1>1, <1>2

LEMMA NextCountersExact ==
  ASSUME LockInv, [LockNext]_lockVars
  PROVE  CountersExact'
<1>0. LockTypeOK /\ CountersExact /\ OneWrites /\ pc \in [Threads -> Places]
  BY DEF LockInv, LockTypeOK
<1>1. CASE UNCHANGED lockVars
  BY <1>0, <1>1 DEF lockVars, CountersExact, Inside
<1>2. CASE LockNext
  <2> SUFFICES ASSUME NEW t \in Threads,
                      Announce(t) \/ SeeNoWriters(t) \/ Continue(t)
               PROVE  CountersExact'
    BY <1>2 DEF LockNext
  <2> DEFINE W == {"writing"}
  <2> HIDE DEF W
  <2>0. /\ ww = Cardinality(Inside(Before)) /\ w = Cardinality(Inside(Past))
        /\ r = Cardinality(Inside(Entered)) /\ (f <=> Inside(W) # {})
    BY <1>0 DEF CountersExact, W
  <2> SUFFICES /\ ww' = Cardinality(Inside(Before)') /\ w' = Cardinality(Inside(Past)')
               /\ r' = Cardinality(Inside(Entered)') /\ (f' <=> Inside(W)' # {})
    BY DEF CountersExact, W
  <2> USE DEF Before, Past, Entered, W
  <2>1. CASE Announce(t)
    <3>1. Moves(t, "idle", "announced") /\ ww' = ww + 1 /\ UNCHANGED <<w, r, f>>
      BY <2>1 DEF Announce
    <3>2. Cardinality(Inside(Before)') = Cardinality(Inside(Before)) + 1
      BY <1>0, <3>1, Enters
    <3>3. /\ Inside(Past)' = Inside(Past) /\ Inside(Entered)' = Inside(Entered)
          /\ Inside(W)' = Inside(W)
      BY <1>0, <3>1, Stays
    <3> QED BY <2>0, <3>1, <3>2, <3>3
  <2>2. CASE SeeNoWriters(t)
    <3>1. Moves(t, "idle", "passed") /\ UNCHANGED <<ww, w, r, f>>
      BY <2>2 DEF SeeNoWriters
    <3>2. /\ Inside(Before)' = Inside(Before) /\ Inside(Past)' = Inside(Past)
          /\ Inside(Entered)' = Inside(Entered) /\ Inside(W)' = Inside(W)
      BY <1>0, <3>1, Stays
    <3> QED BY <2>0, <3>1, <3>2
  <2>3. CASE SeeNoReaders(t)
    <3>1. Moves(t, "announced", "seen") /\ UNCHANGED <<ww, w, r, f>>
      BY <2>3 DEF SeeNoReaders
    <3>2. /\ Inside(Before)' = Inside(Before) /\ Inside(Past)' = Inside(Past)
          /\ Inside(Entered)' = Inside(Entered) /\ Inside(W)' = Inside(W)
      BY <1>0, <3>1, Stays
    <3> QED BY <2>0, <3>1, <3>2
  <2>4. CASE Count(t)
    <3>1. Moves(t, "seen", "counted") /\ w' = w + 1 /\ UNCHANGED <<ww, r, f>>
      BY <2>4 DEF Count
    <3>2. Cardinality(Inside(Past)') = Cardinality(Inside(Past)) + 1
      BY <1>0, <3>1, Enters
    <3>3. /\ Inside(Before)' = Inside(Before) /\ Inside(Entered)' = Inside(Entered)
          /\ Inside(W)' = Inside(W)
      BY <1>0, <3>1, Stays
    <3> QED BY <2>0, <3>1, <3>2, <3>3
  <2>5. CASE LeaveCohort(t)
    <3>1. Moves(t, "counted", "spinning") /\ ww' = ww - 1 /\ UNCHANGED <<w, r, f>>
      BY <2>5 DEF LeaveCohort
    <3>2. Cardinality(Inside(Before)') = Cardinality(Inside(Before)) - 1
      BY <1>0, <3>1, Leaves
    <3>3. /\ Inside(Past)' = Inside(Past) /\ Inside(Entered)' = Inside(Entered)
          /\ Inside(W)' = Inside(W)
      BY <1>0, <3>1, Stays
    <3> QED BY <2>0, <3>1, <3>2, <3>3
  <2>6. CASE Acquire(t)
    <3>1. Moves(t, "spinning", "writing") /\ f' = TRUE /\ UNCHANGED <<ww, w, r>>
      BY <2>6 DEF Acquire
    <3>2. Inside(W)' = Inside(W) \cup {t}
      BY <1>0, <3>1, Enters
    <3>3. /\ Inside(Before)' = Inside(Before) /\ Inside(Past)' = Inside(Past)
          /\ Inside(Entered)' = Inside(Entered)
      BY <1>0, <3>1, Stays
    <3> QED BY <2>0, <3>1, <3>2, <3>3
  <2>7. CASE Clear(t)
    <3>1. Moves(t, "writing", "cleared") /\ f' = FALSE /\ UNCHANGED <<ww, w, r>>
      BY <2>7 DEF Clear
    <3>2. Inside(W)' = Inside(W) \ {t}
      BY <1>0, <3>1, Leaves
    <3>3. /\ Inside(Before)' = Inside(Before) /\ Inside(Past)' = Inside(Past)
          /\ Inside(Entered)' = Inside(Entered)
      BY <1>0, <3>1, Stays
    <3>4. Inside(W) = {t}
      BY <1>0, <3>1 DEF Moves, Inside, OneWrites
    <3> QED BY <2>0, <3>1, <3>2, <3>3, <3>4
  <2>8. CASE Depart(t)
    <3>1. Moves(t, "cleared", "idle") /\ w' = w - 1 /\ UNCHANGED <<ww, r, f>>
      BY <2>8 DEF Depart
    <3>2. Cardinality(Inside(Past)') = Cardinality(Inside(Past)) - 1
      BY <1>0, <3>1, Leaves
    <3>3. /\ Inside(Before)' = Inside(Before) /\ Inside(Entered)' = Inside(Entered)
          /\ Inside(W)' = Inside(W)
      BY <1>0, <3>1, Stays
    <3> QED BY <2>0, <3>1, <3>2, <3>3
  <2>9. CASE Join(t)
    <3>1. Moves(t, "passed", "joined") /\ r' = r + 1 /\ UNCHANGED <<ww, w, f>>
      BY <2>9 DEF Join
    <3>2. Cardinality(Inside(Entered)') = Cardinality(Inside(Entered)) + 1
      BY <1>0, <3>1, Enters
    <3>3. /\ Inside(Before)' = Inside(Before) /\ Inside(Past)' = Inside(Past)
          /\ Inside(W)' = Inside(W)
      BY <1>0, <3>1, Stays
    <3> QED BY <2>0, <3>1, <3>2, <3>3
  <2>10. CASE StartReading(t)
    <3>1. Moves(t, "joined", "reading") /\ UNCHANGED <<ww, w, r, f>>
      BY <2>10 DEF StartReading
    <3>2. /\ Inside(Before)' = Inside(Before) /\ Inside(Past)' = Inside(Past)
          /\ Inside(Entered)' = Inside(Entered) /\ Inside(W)' = Inside(W)
      BY <1>0, <3>1, Stays
    <3> QED BY <2>0, <3>1, <3>2
  <2>11. CASE StopReading(t)
    <3>1. Moves(t, "reading", "idle") /\ r' = r - 1 /\ UNCHANGED <<ww, w, f>>
      BY <2>11 DEF StopReading
    <3>2. Cardinality(Inside(Entered)') = Cardinality(Inside(Entered)) - 1
      BY <1>0, <3>1, Leaves
    <3>3. /\ Inside(Before)' = Inside(Before) /\ Inside(Past)' = Inside(Past)
          /\ Inside(W)' = Inside(W)
      BY <1>0, <3>1, Stays
    <3> QED BY <2>0, <3>1, <3>2, <3>3
  <2> QED
    BY <2>1, <2>2, <2>3, <2>4, <2>5, <2>6, <2>7, <2>8, <2>9, <2>10, <2>11
    DEF Continue
<1> QED BY <1>1, <1>2

\* Only Acquire lets a thread write, and it needs the flag.
LEMMA NextOneWrites ==
  ASSUME LockInv, [LockNext]_lockVars
  PROVE  OneWrites'
<1>0. OneWrites /\ pc \in [Threads -> Places] /\ (f <=> Inside({"writing"}) # {})
  BY DEF LockInv, LockTypeOK, CountersExact
<1>1. CASE UNCHANGED lockVars
  BY <1>0, <1>1 DEF lockVars, OneWrites
<1>2. CASE LockNext
  <2> SUFFICES ASSUME NEW t \in Threads,
                      Announce(t) \/ SeeNoWriters(t) \/ Continue(t)
               PROVE  OneWrites'
    BY <1>2 DEF LockNext
  <2>1. CASE Acquire(t)
    <3>1. \A u \in Threads : pc[u] # "writing"
      BY <1>0, <2>1 DEF Acquire, Inside
    <3> QED BY <1>0, <2>1, <3>1 DEF Acquire, Moves, OneWrites
  <2>2. CASE ~Acquire(t)
    <3>1. PICK b \in Places \ {"writing"} : pc' = [pc EXCEPT ![t] = b]
      BY <2>2 DEF Continue, Announce, SeeNoWriters, SeeNoReaders, Count, LeaveCohort,
                  Clear, Depart, Join, StartReading, StopReading, Moves, Places,
                  Before, Past, Entered
    <3> QED BY <1>0, <3>1 DEF OneWrites
  <2> QED BY <2>1, <2>2
<1> QED BY <1>1, <1>2

\* A writer remembers the readers it finds, forgets those that finish, and sees
\* none of them left before it goes on.
LEMMA NextExistingThere ==
  ASSUME LockInv, [LockNext]_lockVars
  PROVE  ExistingThere'
<1>0. /\ LockTypeOK /\ ExistingThere /\ pc \in [Threads -> Places]
      /\ existing \in [Threads -> SUBSET Threads]
      /\ r = Cardinality(Inside(Entered))
  BY DEF LockInv, LockTypeOK, CountersExact
<1>1. CASE UNCHANGED lockVars
  BY <1>0, <1>1 DEF lockVars, ExistingThere, Inside
<1>2. CASE LockNext
  <2> SUFFICES ASSUME NEW t \in Threads,
                      Announce(t) \/ SeeNoWriters(t) \/ Continue(t)
               PROVE  ExistingThere'
    BY <1>2 DEF LockNext
  <2>1. CASE Announce(t)
    <3>1. Inside(Entered)' = Inside(Entered)
      BY <1>0, <2>1, Stays DEF Announce, Entered
    <3> QED BY <1>0, <2>1, <3>1 DEF Announce, Moves, ExistingThere
  <2>2. CASE SeeNoReaders(t)
    <3>1. Inside(Entered)' = Inside(Entered)
      BY <1>0, <2>2, Stays DEF SeeNoReaders, Entered
    <3>2. Inside(Entered) = {}
      BY <1>0, <2>2, NobodyAt DEF SeeNoReaders
    <3> QED BY <1>0, <2>2, <3>1, <3>2 DEF SeeNoReaders, ExistingThere
  <2>3. CASE StopReading(t)
    <3>1. Inside(Entered)' = Inside(Entered) \ {t}
      BY <1>0, <2>3, Leaves DEF StopReading, Entered
    <3> QED BY <1>0, <2>3, <3>1 DEF StopReading, Moves, ExistingThere
  <2>4. CASE Join(t)
    <3>1. Inside(Entered)' = Inside(Entered) \cup {t}
      BY <1>0, <2>4, Enters DEF Join, Entered
    <3> QED BY <1>0, <2>4, <3>1 DEF Join, Moves, ExistingThere
  <2>5. CASE SeeNoWriters(t) \/ StartReading(t)
    <3>1. Inside(Entered)' = Inside(Entered)
      BY <1>0, <2>5, Stays DEF SeeNoWriters, StartReading, Entered
    <3> QED BY <1>0, <2>5, <3>1 DEF SeeNoWriters, StartReading, Moves, ExistingThere
  <2>6. CASE Count(t) \/ LeaveCohort(t) \/ Acquire(t)
    <3>1. Inside(Entered)' = Inside(Entered)
      BY <1>0, <2>6, Stays DEF Count, LeaveCohort, Acquire, Entered
    <3> QED BY <1>0, <2>6, <3>1 DEF Count, LeaveCohort, Acquire, Moves, ExistingThere
  <2>7. CASE Clear(t) \/ Depart(t)
    <3>1. Inside(Entered)' = Inside(Entered)
      BY <1>0, <2>7, Stays DEF Clear, Depart, Entered
    <3> QED BY <1>0, <2>7, <3>1 DEF Clear, Depart, Moves, ExistingThere
  <2> QED
    BY <2>1, <2>2, <2>3, <2>4, <2>5, <2>6, <2>7 DEF Continue
<1> QED BY <1>1, <1>2

\* The inductive invariant holds in every behaviour of the lock.
LEMMA LockInvariant == LockSpec => []LockInv
<1>1. LockInv /\ [LockNext]_lockVars => LockInv'
  BY NextLockTypeOK, NextCountersExact, NextOneWrites, NextExistingThere DEF LockInv
<1> QED BY <1>1, InitLockInv, PTL DEF LockSpec

-----------------------------------------------------------------------------
(* The lock: theorems *)

\* The counters never pass below zero and hold what they should (WriterLock,
\* ReaderLock), for any number of threads.
THEOREM LockTypeCorrect == LockSpec => []LockTypeOK
BY LockInvariant, PTL DEF LockInv

\* The counters and the flag always say how many threads are where, so that a lock
\* nobody uses is free.
THEOREM LockCountersExact == LockSpec => []CountersExact
BY LockInvariant, PTL DEF LockInv

\* Two writers are never in the critical section at once, for any number of threads.
THEOREM LockWritersExclude == LockSpec => []WritersExclude
<1>1. LockInv => WritersExclude
  <2> SUFFICES ASSUME LockInv PROVE Cardinality(Inside({"writing"})) <= 1
    BY DEF WritersExclude
  <2>1. CASE Inside({"writing"}) = {}
    BY <2>1, FS_EmptySet
  <2>2. CASE Inside({"writing"}) # {}
    <3>1. PICK t \in Inside({"writing"}) : TRUE
      BY <2>2
    <3>2. Inside({"writing"}) = {t}
      BY <3>1 DEF LockInv, OneWrites, Inside
    <3>3. Cardinality({t}) = 1
      BY FS_Singleton
    <3> QED BY <3>2, <3>3
  <2> QED BY <2>1, <2>2
<1> QED BY <1>1, LockInvariant, PTL

\* A writer writes only when every reader that had joined before it announced itself
\* has finished, for any number of threads.
THEOREM LockExistingReadersFinish == LockSpec => []ExistingReadersFinish
<1>1. LockInv => ExistingReadersFinish
  BY DEF LockInv, ExistingThere, ExistingReadersFinish
<1> QED BY <1>1, LockInvariant, PTL

=============================================================================
