-------------------------- MODULE ContentCacheProofs --------------------------
(***************************************************************************)
(* Proofs about the slot cache, for every set of contents, every number of *)
(* blocks and every capacity.                                              *)
(***************************************************************************)
EXTENDS ContentCache, ListsProofs

USE DEF BlocksOf

\* The blocks of a content are references to it.
LEMMA BlocksOfContent ==
  ASSUME NEW h \in Hashes, NEW i \in 0..BlockCount[h] - 1
  PROVE  <<h, i>> \in Blocks
BY DEF Blocks

\* A block reference names a content and an index below its number of blocks.
LEMMA BlockParts ==
  ASSUME NEW b \in Blocks
  PROVE  /\ b[1] \in Hashes
         /\ b[2] \in 0..BlockCount[b[1]] - 1
         /\ b = <<b[1], b[2]>>
BY DEF Blocks

\* Freezing a slot gives a slot.
LEMMA FrozenSlot ==
  ASSUME NEW r \in Slot, NEW e \in BOOLEAN
  PROVE  [r EXCEPT !.frozen = e] \in Slot
<1>1. /\ r.block_index \in Nat
      /\ r.block \in Blocks \cup {NoBlock}
      /\ [r EXCEPT !.frozen = e]
           = [block_index |-> r.block_index, block |-> r.block, frozen |-> e]
  BY DEF Slot
<1> HIDE DEF NoBlock
<1> QED BY <1>1, Zenon DEF Slot

\* So does putting a block into one ...
LEMMA FilledSlot ==
  ASSUME NEW r \in Slot, NEW c \in Blocks \cup {NoBlock}
  PROVE  [r EXCEPT !.block = c] \in Slot /\ [r EXCEPT !.block = c].block = c
<1>1. /\ r.block_index \in Nat
      /\ r.frozen \in BOOLEAN
      /\ [r EXCEPT !.block = c]
           = [block_index |-> r.block_index, block |-> c, frozen |-> r.frozen]
  BY DEF Slot
<1> HIDE DEF NoBlock
<1> QED BY <1>1, Zenon DEF Slot

\* ... and numbering it as well.
LEMMA NumberedSlot ==
  ASSUME NEW r \in Slot, NEW i \in Nat, NEW c \in Blocks \cup {NoBlock}
  PROVE  /\ [r EXCEPT !.block_index = i, !.block = c] \in Slot
         /\ [r EXCEPT !.block_index = i, !.block = c].block = c
<1> DEFINE q == [block_index |-> i, block |-> r.block, frozen |-> r.frozen]
<1>1. /\ r.block \in Blocks \cup {NoBlock}
      /\ r.frozen \in BOOLEAN
      /\ [r EXCEPT !.block_index = i] = q
  BY DEF Slot
<1>2. q \in Slot
  <2> HIDE DEF NoBlock
  <2> QED BY <1>1, Zenon DEF Slot
<1>3. [r EXCEPT !.block_index = i, !.block = c] = [q EXCEPT !.block = c]
  BY <1>1
<1> HIDE DEF q
<1> QED BY <1>2, <1>3, FilledSlot

-----------------------------------------------------------------------------
(* The inductive invariant: types, the partition and the ownership together. *)
(* The partition is what makes a reserved slot new to every content, and the *)
(* ownership is what keeps a filled slot inside its content.                 *)

IInv == TypeOK /\ SlotsPartitioned /\ SingleOwner

\* When ensure_capacity() finds room, the pool only has new empty slots at its
\* end: what was there, and the occupied list, are as before.
LEMMA RoomFound ==
  ASSUME TypeOK, SlotsPartitioned, status = "ok",
         NEW count \in Nat, Len(EnsureCapacity(count).free) >= count
  PROVE  LET p == EnsureCapacity(count)
         IN  /\ p.slots \in Seq(Slot)
             /\ SlotIds \subseteq DOMAIN p.slots
             /\ \A s \in SlotIds : p.slots[s] = slots[s]
             /\ p.occupied = occupied_idxs
             /\ p.free \in Seq(DOMAIN p.slots)
             /\ IsInjective(p.free)
             /\ Range(p.free) \cap Range(occupied_idxs) = {}
             /\ Range(p.free) \cup Range(occupied_idxs) = DOMAIN p.slots
<1> DEFINE p == EnsureCapacity(count)
<1>1. CASE Len(free_idxs) >= count
  BY <1>1 DEF EnsureCapacity, Pool, TypeOK, SlotsPartitioned, SlotIds
<1>2. CASE Len(free_idxs) < count /\ capacity # 0
  <2>1. p.free = free_idxs
    BY <1>2, CacheAssumption DEF EnsureCapacity, Freed, TypeOK
  <2> QED BY <2>1, <1>2 DEF TypeOK
<1>3. CASE Len(free_idxs) < count /\ capacity = 0
  <2> DEFINE m   == count - Len(free_idxs)
             new == [k \in 1..m |-> Len(slots) + k]
             add == [k \in 1..m |-> EmptySlot]
  <2>1. m \in Nat /\ Len(slots) \in Nat /\ DOMAIN slots = 1..Len(slots)
    BY <1>3 DEF TypeOK
  <2>2. p = [slots    |-> slots \o add,
             free     |-> free_idxs \o new,
             occupied |-> occupied_idxs]
    BY <1>3 DEF EnsureCapacity, Grown
  <2>3. EmptySlot \in Slot
    BY DEF EmptySlot, Slot
  <2>4. add \in Seq(Slot) /\ Len(add) = m
    BY <2>1, <2>3
  <2>5. /\ p.slots \in Seq(Slot)
        /\ DOMAIN p.slots = 1..Len(slots) + m
        /\ \A s \in 1..Len(slots) : p.slots[s] = slots[s]
    BY <2>1, <2>2, <2>4 DEF TypeOK
  <2> HIDE DEF m, p
  <2>6. /\ new \in Seq(1..Len(slots) + m)
        /\ DOMAIN new = 1..m
        /\ IsInjective(new)
    BY <2>1 DEF IsInjective
  <2>7. Range(new) = (Len(slots) + 1)..(Len(slots) + m)
    <3>1. Range(new) \subseteq (Len(slots) + 1)..(Len(slots) + m)
      BY <2>1 DEF Range
    <3>2. ASSUME NEW s \in (Len(slots) + 1)..(Len(slots) + m)
          PROVE  s \in Range(new)
      <4>1. s - Len(slots) \in 1..m /\ new[s - Len(slots)] = s
        BY <2>1
      <4> QED BY <4>1 DEF Range
    <3> QED BY <3>1, <3>2
  <2>8. /\ free_idxs \in Seq(1..Len(slots) + m)
        /\ IsInjective(free_idxs)
        /\ Range(free_idxs) \subseteq 1..Len(slots)
        /\ Range(occupied_idxs) \subseteq 1..Len(slots)
        /\ Range(free_idxs) \cap Range(occupied_idxs) = {}
        /\ Range(free_idxs) \cup Range(occupied_idxs) = 1..Len(slots)
    <3>1. 1..Len(slots) \subseteq 1..Len(slots) + m
      BY <2>1
    <3>2. free_idxs \in Seq(1..Len(slots))
      BY <2>1 DEF TypeOK, SlotIds
    <3>3. free_idxs \in Seq(1..Len(slots) + m)
      BY <3>1, <3>2, SeqMonotonic
    <3> QED BY <3>3, <2>1, Zenon DEF SlotsPartitioned, SlotIds
  <2>9. Range(free_idxs) \cap Range(new) = {}
    <3> DEFINE L == Len(slots)
               F == Range(free_idxs)
               N == Range(new)
    <3>1. L \in Nat /\ m \in Nat /\ F \subseteq 1..L /\ N = (L + 1)..(L + m)
      BY <2>1, <2>7, <2>8
    <3> HIDE DEF L, F, N
    <3>2. F \cap N = {}
      BY ONLY <3>1
    <3> QED BY <3>2 DEF F, N
  <2>10. /\ free_idxs \o new \in Seq(1..Len(slots) + m)
         /\ IsInjective(free_idxs \o new)
         /\ Range(free_idxs \o new) = Range(free_idxs) \cup Range(new)
    <3> HIDE DEF new
    <3> QED BY <2>6, <2>8, <2>9, JoinTwo
  <2>11. p.free = free_idxs \o new /\ p.occupied = occupied_idxs
    BY <2>2
  <2> HIDE DEF new
  <2>12. /\ Range(p.free) \cap Range(occupied_idxs) = {}
         /\ Range(p.free) \cup Range(occupied_idxs) = 1..Len(slots) + m
    <3> DEFINE L == Len(slots)
               F == Range(free_idxs)
               N == Range(new)
               O == Range(occupied_idxs)
    <3>1. /\ L \in Nat /\ m \in Nat /\ F \subseteq 1..L /\ N = (L + 1)..(L + m)
          /\ O \subseteq 1..L /\ F \cap O = {} /\ F \cup O = 1..L
      BY <2>1, <2>7, <2>8
    <3>2. Range(p.free) = F \cup N
      BY <2>10, <2>11
    <3> HIDE DEF L, F, N, O
    <3>3. (F \cup N) \cap O = {} /\ (F \cup N) \cup O = 1..L + m
      BY ONLY <3>1
    <3> QED BY <3>2, <3>3 DEF O, L
  <2>13. SlotIds \subseteq DOMAIN p.slots
    BY <2>1, <2>5 DEF SlotIds
  <2> QED BY <2>1, <2>5, <2>10, <2>11, <2>12, <2>13 DEF SlotIds, p
<1> QED BY <1>1, <1>2, <1>3, CacheAssumption DEF TypeOK

\* Reserving slots for h and filling them with blocks of h preserves IInv.
LEMMA ReserveKeepsIInv ==
  ASSUME IInv, status = "ok",
         NEW count \in Nat, NEW h \in Hashes, NEW filled(_),
         Reserve(count, h, filled),
         LET p == EnsureCapacity(count)
         IN  /\ slots' \in Seq(Slot)
             /\ DOMAIN slots' = DOMAIN p.slots
             /\ \A s \in DOMAIN p.slots :
                  IF s \in Range(Taken(p, count))
                  THEN slots'[s].block \in {h} \X (0..BlockCount[h] - 1)
                  ELSE slots'[s] = p.slots[s]
  PROVE  IInv'
<1> DEFINE p     == EnsureCapacity(count)
           taken == Taken(p, count)
<1>1. /\ p.slots \in Seq(Slot)
      /\ SlotIds \subseteq DOMAIN p.slots
      /\ \A s \in SlotIds : p.slots[s] = slots[s]
      /\ p.occupied = occupied_idxs
      /\ p.free \in Seq(DOMAIN p.slots)
      /\ IsInjective(p.free)
      /\ Range(p.free) \cap Range(occupied_idxs) = {}
      /\ Range(p.free) \cup Range(occupied_idxs) = DOMAIN p.slots
      /\ count <= Len(p.free)
  <2>1. Len(p.free) >= count
    BY DEF Reserve
  <2>2. count <= Len(p.free)
    BY <2>1
  <2> QED BY <2>1, <2>2, RoomFound DEF IInv
<1>2. /\ free_idxs' = SubSeq(p.free, 1, Len(p.free) - count)
      /\ occupied_idxs' = taken \o occupied_idxs
      /\ content' = [content EXCEPT ![h] = @ \o taken]
      /\ status' = "ok" /\ capacity' = capacity
  BY <1>1 DEF Reserve
<1>3. /\ slots' \in Seq(Slot)
      /\ SlotIds' = DOMAIN p.slots
      /\ \A s \in Range(taken) : s \in DOMAIN p.slots
                                   => slots'[s].block \in {h} \X (0..BlockCount[h] - 1)
      /\ \A s \in SlotIds : s \notin Range(taken) => slots'[s] = slots[s]
  BY <1>1 DEF SlotIds
<1>4. /\ free_idxs' \in Seq(DOMAIN p.slots)
      /\ taken \in Seq(DOMAIN p.slots)
      /\ IsInjective(free_idxs')
      /\ IsInjective(taken)
      /\ Range(free_idxs') \cap Range(taken) = {}
      /\ Range(free_idxs') \cup Range(taken) = Range(p.free)
  <2> DEFINE f == p.free
             D == DOMAIN p.slots
  <2>1. f \in Seq(D) /\ IsInjective(f) /\ count <= Len(f)
    BY <1>1
  <2>2. /\ free_idxs' = SubSeq(f, 1, Len(f) - count)
        /\ taken = SubSeq(f, Len(f) - count + 1, Len(f))
    BY <1>2 DEF Taken
  <2> HIDE DEF f, D, taken
  <2>3. /\ free_idxs' \in Seq(D)
        /\ taken \in Seq(D)
        /\ IsInjective(free_idxs')
        /\ IsInjective(taken)
        /\ Range(free_idxs') \cap Range(taken) = {}
        /\ Range(free_idxs') \cup Range(taken) = Range(f)
    BY <2>1, <2>2, CutInTwo
  <2> QED BY <2>3 DEF f, D
<1>5. /\ occupied_idxs \in Seq(SlotIds)
      /\ IsInjective(occupied_idxs)
      /\ content \in [Hashes -> Seq(SlotIds)]
      /\ content[h] \in Seq(SlotIds)
  BY DEF IInv, TypeOK, SlotsPartitioned
<1> DEFINE D == DOMAIN p.slots
<1>6. /\ occupied_idxs \in Seq(D)
      /\ \A g \in Hashes : content[g] \in Seq(D)
  BY <1>1, <1>5, SeqMonotonic
<1>7. /\ Range(taken) \cap Range(occupied_idxs) = {}
      /\ Range(taken) \subseteq D
  BY <1>1, <1>4
<1> HIDE DEF p, taken, D
<1>8. /\ occupied_idxs' \in Seq(D)
      /\ IsInjective(occupied_idxs')
      /\ Range(occupied_idxs') = Range(taken) \cup Range(occupied_idxs)
  BY <1>2, <1>4, <1>5, <1>6, <1>7, JoinTwo DEF D
<1>9. /\ content' \in [Hashes -> Seq(D)]
      /\ content'[h] = content[h] \o taken
      /\ \A g \in Hashes : g # h => content'[g] = content[g]
  BY <1>2, <1>4, <1>5, <1>6 DEF D
<1>10. TypeOK'
  BY <1>2, <1>3, <1>4, <1>8, <1>9 DEF IInv, TypeOK, D
<1>11. SlotsPartitioned'
  BY <1>1, <1>2, <1>3, <1>4, <1>7, <1>8, Zenon DEF SlotsPartitioned, D
<1>12. SingleOwner'
  <2>1. /\ \A g \in Hashes : \A k \in DOMAIN content[g] :
             /\ content[g][k] \in Range(occupied_idxs)
             /\ content[g][k] \in SlotIds
             /\ slots[content[g][k]].block \in {g} \X (0..BlockCount[g] - 1)
        /\ \A s \in Range(occupied_idxs) : \E g \in Hashes : s \in Range(content[g])
        /\ \A f, g \in Hashes : \A j \in DOMAIN content[f], k \in DOMAIN content[g] :
             content[f][j] = content[g][k] => f = g /\ j = k
    BY <1>5 DEF IInv, SingleOwner
  \* The new list of h: its old entries, then the slots taken.
  <2>2. /\ DOMAIN content[h] = 1..Len(content[h]) /\ Len(content[h]) \in Nat
        /\ DOMAIN taken = 1..Len(taken) /\ Len(taken) \in Nat
        /\ DOMAIN content'[h] = 1..Len(content[h]) + Len(taken)
        /\ \A k \in 1..Len(content[h]) : content'[h][k] = content[h][k]
        /\ \A k \in DOMAIN content'[h] :
             k \notin 1..Len(content[h]) =>
               /\ k - Len(content[h]) \in DOMAIN taken
               /\ content'[h][k] = taken[k - Len(content[h])]
    BY <1>4, <1>5, <1>9
  <2>3. ASSUME NEW g \in Hashes, NEW k \in DOMAIN content'[g]
        PROVE  \/ /\ k \in DOMAIN content[g]
                  /\ content'[g][k] = content[g][k]
               \/ /\ g = h
                  /\ k \notin DOMAIN content[h]
                  /\ k - Len(content[h]) \in DOMAIN taken
                  /\ content'[g][k] = taken[k - Len(content[h])]
    BY <1>9, <2>2
  <2>4. ASSUME NEW g \in Hashes, NEW k \in DOMAIN content'[g]
        PROVE  /\ content'[g][k] \in Range(occupied_idxs')
               /\ slots'[content'[g][k]].block \in {g} \X (0..BlockCount[g] - 1)
    <3>1. CASE k \in DOMAIN content[g] /\ content'[g][k] = content[g][k]
      BY <3>1, <2>1, <1>3, <1>7, <1>8
    <3>2. CASE /\ g = h
               /\ k - Len(content[h]) \in DOMAIN taken
               /\ content'[g][k] = taken[k - Len(content[h])]
      <4>1. content'[g][k] \in Range(taken)
        BY <3>2 DEF Range
      <4> QED BY <4>1, <3>2, <1>3, <1>7, <1>8 DEF D
    <3> QED BY <2>3, <3>1, <3>2
  <2>5. ASSUME NEW s \in Range(occupied_idxs')
        PROVE  \E g \in Hashes : s \in Range(content'[g])
    <3>1. CASE s \in Range(taken)
      <4>1. PICK k \in DOMAIN taken : taken[k] = s
        BY <3>1 DEF Range
      <4> DEFINE n == Len(content[h]) + k
      <4>2. n \in DOMAIN content'[h] /\ n \notin 1..Len(content[h])
        BY <2>2
      <4>3. n - Len(content[h]) = k
        BY <2>2
      <4> HIDE DEF n
      <4>4. content'[h][n] = s
        BY <4>1, <4>2, <4>3, <2>2
      <4> QED BY <4>2, <4>4 DEF Range
    <3>2. CASE s \in Range(occupied_idxs)
      <4>1. PICK g \in Hashes : s \in Range(content[g])
        BY <3>2, <2>1
      <4>2. PICK i \in DOMAIN content[g] : content[g][i] = s
        BY <4>1 DEF Range
      <4>3. i \in DOMAIN content'[g] /\ content'[g][i] = s
        <5>1. CASE g = h
          BY <5>1, <4>2, <2>2
        <5>2. CASE g # h
          BY <5>2, <4>2, <1>9
        <5> QED BY <5>1, <5>2
      <4> QED BY <4>3 DEF Range
    <3> QED BY <3>1, <3>2, <1>8
  <2>6. ASSUME NEW f \in Hashes, NEW g \in Hashes,
               NEW j \in DOMAIN content'[f], NEW k \in DOMAIN content'[g],
               content'[f][j] = content'[g][k]
        PROVE  f = g /\ j = k
    <3> DEFINE Old(e, i) == i \in DOMAIN content[e] /\ content'[e][i] = content[e][i]
               New(e, i) == /\ e = h
                            /\ i \notin DOMAIN content[h]
                            /\ i - Len(content[h]) \in DOMAIN taken
                            /\ content'[e][i] = taken[i - Len(content[h])]
    <3>1. CASE Old(f, j) /\ Old(g, k)
      <4>1. /\ j \in DOMAIN content[f] /\ k \in DOMAIN content[g]
            /\ content[f][j] = content[g][k]
        BY <3>1, <2>6
      <4> HIDE DEF Old, New
      <4> QED BY <4>1, <2>1
    <3>2. CASE New(f, j) /\ New(g, k)
      <4>1. j - Len(content[h]) = k - Len(content[h])
        BY <3>2, <2>6, <1>4 DEF IsInjective
      <4>2. j \in Int /\ k \in Int
        BY <3>2, <2>2
      <4> QED BY <4>1, <4>2, <3>2, <2>2
    <3>3. CASE Old(f, j) /\ New(g, k)
      <4>1. content'[f][j] \in Range(occupied_idxs)
        BY <3>3, <2>1
      <4>2. content'[g][k] \in Range(taken)
        BY <3>3 DEF Range
      <4> QED BY <4>1, <4>2, <2>6, <1>7
    <3>4. CASE New(f, j) /\ Old(g, k)
      <4>1. content'[g][k] \in Range(occupied_idxs)
        BY <3>4, <2>1
      <4>2. content'[f][j] \in Range(taken)
        BY <3>4 DEF Range
      <4> QED BY <4>1, <4>2, <2>6, <1>7
    <3> QED BY <2>3, <3>1, <3>2, <3>3, <3>4
  <2> QED BY <2>4, <2>5, <2>6 DEF SingleOwner
<1> QED BY <1>10, <1>11, <1>12 DEF IInv

-----------------------------------------------------------------------------
\* A new cache satisfies the inductive invariant.
LEMMA InitIInv == Init => IInv
<1> SUFFICES ASSUME Init PROVE IInv
  OBVIOUS
<1>1. EmptySlot \in Slot
  BY DEF EmptySlot, Slot
<1>2. /\ slots \in Seq(Slot) /\ SlotIds = 1..capacity
      /\ free_idxs \in Seq(SlotIds) /\ DOMAIN free_idxs = 1..capacity
      /\ \A k \in 1..capacity : free_idxs[k] = k
  BY <1>1, CacheAssumption DEF Init, SlotIds
<1>3. TypeOK
  BY <1>2 DEF Init, TypeOK
<1>4. Range(free_idxs) = SlotIds /\ Range(occupied_idxs) = {}
  BY <1>2 DEF Init, Range
<1>5. IsInjective(free_idxs) /\ IsInjective(occupied_idxs)
  BY <1>2 DEF Init, IsInjective
<1>6. SlotsPartitioned
  BY <1>4, <1>5 DEF SlotsPartitioned
<1>7. SingleOwner
  BY <1>4 DEF Init, SingleOwner
<1> QED BY <1>3, <1>6, <1>7 DEF IInv

\* Only a bounded cache runs out of slots.
LEMMA CannotReserveIsFull ==
  ASSUME TypeOK, NEW count \in Nat, CannotReserve(count)
  PROVE  /\ Len(free_idxs) < count /\ capacity # 0
         /\ EnsureCapacity(count) = Freed(count - Len(free_idxs))
<1> DEFINE p == EnsureCapacity(count)
<1>1. Len(p.free) < count
  BY DEF CannotReserve
<1>2. Len(free_idxs) < count /\ capacity # 0
  <2>1. CASE Len(free_idxs) >= count
    BY <2>1, <1>1 DEF EnsureCapacity, Pool, TypeOK
  <2>2. CASE Len(free_idxs) < count /\ capacity = 0
    <3> DEFINE m == count - Len(free_idxs)
               new == [k \in 1..m |-> Len(slots) + k]
    <3>1. m \in Nat /\ Len(slots) \in Nat /\ Len(free_idxs) \in Nat
      BY <2>2 DEF TypeOK
    <3>2. p.free = free_idxs \o new
      BY <2>2 DEF EnsureCapacity, Grown
    <3>3. new \in Seq(Nat) /\ Len(new) = m
      BY <3>1
    <3>4. free_idxs \in Seq(Nat)
      <4>1. SlotIds \subseteq Nat
        BY DEF TypeOK, SlotIds
      <4> QED BY <4>1, SeqMonotonic DEF TypeOK
    <3> HIDE DEF new
    <3>5. Len(p.free) = Len(free_idxs) + m
      BY <3>2, <3>3, <3>4
    <3> QED BY <3>5, <3>1, <1>1
  <2> QED BY <2>1, <2>2, CacheAssumption DEF TypeOK
<1> QED BY <1>2, CacheAssumption DEF EnsureCapacity, TypeOK

\* A failed reservation only has to leave typed variables behind.
LEMMA CannotReserveKeepsIInv ==
  ASSUME IInv, NEW count \in Nat, CannotReserve(count)
  PROVE  IInv'
<1> DEFINE p == EnsureCapacity(count)
<1>1. /\ slots' = p.slots /\ free_idxs' = p.free
      /\ status' = "aborted" /\ content' = content /\ capacity' = capacity
  BY DEF CannotReserve
<1>2. p = Freed(count - Len(free_idxs))
  BY CannotReserveIsFull DEF IInv
<1>3. p.slots = Wiped(Evicted(count - Len(free_idxs))) /\ p.free = free_idxs
  BY <1>2 DEF Freed
<1>4. ASSUME NEW E PROVE Wiped(E) \in Seq(Slot) /\ DOMAIN Wiped(E) = SlotIds
  <2>1. SlotIds = 1..Len(slots) /\ Len(slots) \in Nat /\ slots \in Seq(Slot)
    BY DEF IInv, TypeOK, SlotIds
  <2> DEFINE w(s) == IF s \in E
                     THEN [slots[s] EXCEPT !.block_index = 0, !.block = NoBlock]
                     ELSE slots[s]
  <2>2. ASSUME NEW s \in 1..Len(slots) PROVE w(s) \in Slot
    <3>1. slots[s] \in Slot /\ NoBlock \in Blocks \cup {NoBlock} /\ 0 \in Nat
      BY <2>1
    <3>2. [slots[s] EXCEPT !.block_index = 0, !.block = NoBlock] \in Slot
      BY <3>1, NumberedSlot
    <3> QED BY <3>1, <3>2
  <2>3. Wiped(E) = [s \in 1..Len(slots) |-> w(s)]
    BY <2>1 DEF Wiped
  <2> HIDE DEF w
  <2>4. [s \in 1..Len(slots) |-> w(s)] \in Seq(Slot)
    BY <2>1, <2>2, IsASeq
  <2> QED BY <2>1, <2>3, <2>4
<1>5. p.slots \in Seq(Slot) /\ DOMAIN p.slots = SlotIds
  BY <1>3, <1>4
<1> HIDE DEF p
<1>6. TypeOK'
  BY <1>1, <1>3, <1>5 DEF IInv, TypeOK, SlotIds
<1> QED BY <1>1, <1>6 DEF IInv, SlotsPartitioned, SingleOwner

\* Moving an entry to the front names the same slots.
LEMMA PromotedPermutes ==
  ASSUME occupied_idxs \in Seq(SlotIds), IsInjective(occupied_idxs),
         NEW s \in Range(occupied_idxs), Seen(s)
  PROVE  /\ Promoted(s) \in Seq(SlotIds)
         /\ IsInjective(Promoted(s))
         /\ Range(Promoted(s)) = Range(occupied_idxs)
<1> DEFINE occ == occupied_idxs
           n   == Len(occupied_idxs)
           p   == Position(s)
           new == Promoted(s)
<1>1. n \in Nat /\ DOMAIN occ = 1..n
  OBVIOUS
<1>2. p \in 1..n /\ occ[p] = s
  <2>1. \E k \in DOMAIN occ : occ[k] = s
    BY DEF Range
  <2> QED BY <2>1, <1>1 DEF Position
<1>3. new = [k \in 1..n |-> IF k = 1 THEN s ELSE IF k <= p THEN occ[k - 1] ELSE occ[k]]
  BY <1>1 DEF Promoted
<1>4. \A k \in 1..n : new[k] = occ[IF k = 1 THEN p ELSE IF k <= p THEN k - 1 ELSE k]
  BY <1>2, <1>3
<1>5. \A k \in 1..n : occ[k] = new[IF k = p THEN 1 ELSE IF k < p THEN k + 1 ELSE k]
  BY <1>1, <1>2, <1>3
<1>6. DOMAIN new = 1..n
  BY <1>3
<1> HIDE DEF new, p, n, occ
<1>7. IsInjective(new)
  <2> SUFFICES ASSUME NEW j \in 1..n, NEW k \in 1..n, new[j] = new[k]
               PROVE  j = k
    BY <1>6 DEF IsInjective
  <2> DEFINE At(i) == IF i = 1 THEN p ELSE IF i <= p THEN i - 1 ELSE i
  <2>1. At(j) \in 1..n /\ At(k) \in 1..n
    BY <1>1, <1>2
  <2>2. occ[At(j)] = occ[At(k)]
    BY <1>4
  <2>3. At(j) = At(k)
    <3> HIDE DEF At
    <3> QED BY <2>1, <2>2, <1>1 DEF IsInjective, occ
  <2> QED BY <2>3, <1>1, <1>2
<1>8. Range(new) = Range(occ)
  <2>1. ASSUME NEW k \in 1..n
        PROVE  new[k] \in Range(occ) /\ occ[k] \in Range(new)
    <3>1. (IF k = 1 THEN p ELSE IF k <= p THEN k - 1 ELSE k) \in 1..n
      BY <1>1, <1>2
    <3>2. (IF k = p THEN 1 ELSE IF k < p THEN k + 1 ELSE k) \in 1..n
      BY <1>1, <1>2
    <3> QED BY <3>1, <3>2, <1>1, <1>4, <1>5, <1>6 DEF Range
  <2> QED BY <2>1, <1>1, <1>6 DEF Range
<1>9. new \in Seq(SlotIds)
  <2>1. \A k \in 1..n : new[k] \in SlotIds
    <3> SUFFICES ASSUME NEW k \in 1..n PROVE new[k] \in SlotIds
      OBVIOUS
    <3>1. new[k] \in Range(occ)
      BY <1>6, <1>8 DEF Range
    <3> QED BY <3>1 DEF Range, occ
  <2>2. new = [k \in 1..n |-> new[k]]
    BY <1>3, <1>6 DEF new
  <2> QED BY <2>1, <2>2, <1>1, IsASeq
<1> QED BY <1>7, <1>8, <1>9 DEF new, occ

\* What find() finds is occupied.
LEMMA FoundIsOccupied ==
  ASSUME IInv, status # "aborted", NEW b \in Blocks, SlotsFor(b[1], b[2]) # {}
  PROVE  /\ FoundSlot(b[1], b[2]) \in SlotIds
         /\ FoundSlot(b[1], b[2]) \in Range(occupied_idxs)
<1> DEFINE s == FoundSlot(b[1], b[2])
           K == SlotsFor(b[1], b[2])
<1>1. K # {} /\ K \subseteq DOMAIN content[b[1]] /\ b[1] \in Hashes
  BY BlockParts DEF SlotsFor
<1>2. content[b[1]] \in Seq(SlotIds) /\ K \subseteq Nat
  BY <1>1 DEF IInv, TypeOK
<1>3. \E k \in K : \A j \in K : k <= j
  BY <1>1, <1>2, SmallestOfNats
<1>4. \E k \in K : s = content[b[1]][k]
  BY <1>3 DEF FoundSlot
<1> QED BY <1>1, <1>2, <1>4 DEF IInv, SingleOwner

\* Freezing a block: the list is permuted at most.
LEMMA SetFrozenKeepsIInv ==
  ASSUME IInv, NEW b \in Blocks, NEW enable \in BOOLEAN, SetFrozen(b, enable)
  PROVE  IInv'
<1> DEFINE s == FoundSlot(b[1], b[2])
<1>1. s \in SlotIds /\ s \in Range(occupied_idxs)
  BY FoundIsOccupied DEF SetFrozen
<1> HIDE DEF s
<1>2. /\ slots' = [slots EXCEPT ![s].frozen = enable]
      /\ occupied_idxs' = occupied_idxs \/ (Seen(s) /\ occupied_idxs' = Promoted(s))
      /\ status = "ok" /\ status' \in {"ok", "hung"} /\ capacity' = capacity
      /\ free_idxs' = free_idxs /\ content' = content
  BY DEF SetFrozen, s, Promoted
<1>3. /\ slots' \in Seq(Slot) /\ SlotIds' = SlotIds
      /\ \A t \in SlotIds : slots'[t].block = slots[t].block
  <2>1. slots \in Seq(Slot) /\ s \in 1..Len(slots) /\ SlotIds = 1..Len(slots)
    BY <1>1 DEF IInv, TypeOK, SlotIds
  <2>2. [slots[s] EXCEPT !.frozen = enable] \in Slot
    <3>1. slots[s] \in Slot
      BY <2>1
    <3> QED BY <3>1, FrozenSlot
  <2>3. slots' = [slots EXCEPT ![s] = [slots[s] EXCEPT !.frozen = enable]]
    BY <1>2
  <2>4. slots' \in Seq(Slot) /\ SlotIds' = SlotIds
    BY <2>1, <2>2, <2>3 DEF SlotIds
  <2>5. \A t \in SlotIds : slots'[t].block = slots[t].block
    BY <2>1, <2>3 DEF Slot
  <2> QED BY <2>4, <2>5
<1>4. /\ occupied_idxs' \in Seq(SlotIds)
      /\ IsInjective(occupied_idxs')
      /\ Range(occupied_idxs') = Range(occupied_idxs)
  <2>1. CASE occupied_idxs' = occupied_idxs
    BY <2>1, <1>2 DEF IInv, TypeOK, SlotsPartitioned
  <2>2. CASE Seen(s) /\ occupied_idxs' = Promoted(s)
    BY <2>2, <1>1, <1>2, PromotedPermutes DEF IInv, TypeOK, SlotsPartitioned
  <2> QED BY <2>1, <2>2, <1>2
<1>5. TypeOK'
  BY <1>2, <1>3, <1>4 DEF IInv, TypeOK
<1>6. SlotsPartitioned'
  BY <1>2, <1>3, <1>4 DEF IInv, SlotsPartitioned
<1>7. SingleOwner'
  <2>1. \A g \in Hashes : \A k \in DOMAIN content[g] : content[g][k] \in SlotIds
    BY DEF IInv, TypeOK
  <2> QED BY <2>1, <1>2, <1>3, <1>4 DEF IInv, SingleOwner
<1> QED BY <1>5, <1>6, <1>7 DEF IInv

\* What store() writes into the slots it has reserved.
LEMMA StoreKeepsIInv ==
  ASSUME IInv, NEW h \in Hashes, StoreContent(h)
  PROVE  IInv'
<1> DEFINE n     == BlockCount[h]
           p     == EnsureCapacity(n)
           taken == Taken(p, n)
<1>1. n \in Nat \ {0} /\ status = "ok"
  BY BlockAssumption DEF StoreContent
<1>2. CASE CannotReserve(n)
  BY <1>1, <1>2, CannotReserveKeepsIInv
<1>3. CASE Reserve(n, h, LAMBDA q : FilledWithContent(h, q))
  <2>1. Len(p.free) >= n /\ slots' = FilledWithContent(h, p)
    BY <1>3 DEF Reserve
  <2>2. /\ p.slots \in Seq(Slot)
        /\ p.free \in Seq(DOMAIN p.slots)
        /\ IsInjective(p.free)
    BY <1>1, <2>1, RoomFound DEF IInv
  <2>3. n <= Len(p.free)
    BY <1>1, <2>1, <2>2
  <2>4. DOMAIN taken = 1..n
    BY <1>1, <2>2, <2>3 DEF Taken
  <2> DEFINE At(s)     == CHOOSE k \in DOMAIN taken : taken[k] = s
             written(s) == IF \E k \in DOMAIN taken : taken[k] = s
                           THEN [p.slots[s] EXCEPT !.block_index = At(s) - 1,
                                                   !.block = <<h, At(s) - 1>>]
                           ELSE p.slots[s]
  <2>5. slots' = [s \in DOMAIN p.slots |-> written(s)]
    BY <2>1 DEF FilledWithContent
  <2>6. ASSUME NEW s \in DOMAIN p.slots
        PROVE  /\ written(s) \in Slot
               /\ IF s \in Range(taken)
                  THEN written(s).block \in {h} \X (0..n - 1)
                  ELSE written(s) = p.slots[s]
    <3>1. p.slots[s] \in Slot
      BY <2>2
    <3>2. CASE \E k \in DOMAIN taken : taken[k] = s
      <4>1. At(s) - 1 \in 0..n - 1 /\ At(s) - 1 \in Nat
        BY <3>2, <2>4, <1>1
      <4>2. <<h, At(s) - 1>> \in Blocks
        BY <4>1, BlocksOfContent
      <4> DEFINE i == At(s) - 1
      <4>3. written(s) = [p.slots[s] EXCEPT !.block_index = i, !.block = <<h, i>>]
        BY <3>2
      <4>4. s \in Range(taken)
        BY <3>2 DEF Range
      <4>5. i \in Nat /\ i \in 0..n - 1 /\ <<h, i>> \in Blocks \cup {NoBlock}
        BY <4>1, <4>2
      <4> DEFINE r == p.slots[s]
                 c == <<h, i>>
                 w == [r EXCEPT !.block_index = i, !.block = c]
      <4>6. written(s) = w
        BY <4>3
      <4>7. w \in Slot /\ w.block = c
        <5>1. r \in Slot /\ i \in Nat /\ c \in Blocks \cup {NoBlock}
          BY <3>1, <4>5
        <5> HIDE DEF i, r, c
        <5> QED BY <5>1, NumberedSlot, ZenonT(30)
      <4> HIDE DEF i, r, w, written
      <4> QED BY <4>4, <4>5, <4>6, <4>7
    <3>3. CASE ~\E k \in DOMAIN taken : taken[k] = s
      BY <3>1, <3>3 DEF Range
    <3> QED BY <3>2, <3>3
  <2>7. p.slots \in Seq(Slot) /\ DOMAIN p.slots = 1..Len(p.slots) /\ Len(p.slots) \in Nat
    BY <2>2
  <2> HIDE DEF written, p
  <2>8. slots' \in Seq(Slot) /\ DOMAIN slots' = DOMAIN p.slots
    BY <2>5, <2>6, <2>7, IsASeq
  <2>9. \A s \in DOMAIN p.slots :
           IF s \in Range(taken)
           THEN slots'[s].block \in {h} \X (0..BlockCount[h] - 1)
           ELSE slots'[s] = p.slots[s]
    BY <2>5, <2>6
  <2> QED BY <1>1, <1>3, <2>8, <2>9, ReserveKeepsIInv DEF p
<1> QED BY <1>2, <1>3 DEF StoreContent

\* Storing one block keeps the invariant, found or not.
LEMMA StoreBlockKeepsIInv ==
  ASSUME IInv, NEW h \in Hashes,
         NEW ref \in BlocksOf(h), NEW bytes \in BlocksOf(h), StoreBlock(ref, bytes)
  PROVE  IInv'
<1> DEFINE p     == EnsureCapacity(1)
           taken == Taken(p, 1)
<1>1. /\ status = "ok" /\ ref[1] = h
      /\ bytes \in Blocks /\ bytes \in Blocks \cup {NoBlock}
  BY DEF StoreBlock, Blocks
<1>2. CASE SlotsFor(ref[1], ref[2]) # {}
  BY <1>2 DEF StoreBlock, vars, IInv, TypeOK, SlotsPartitioned, SingleOwner, SlotIds
<1>3. CASE CannotReserve(1)
  BY <1>3, CannotReserveKeepsIInv
<1>4. CASE Reserve(1, ref[1], LAMBDA q : FilledWithBlock(ref, bytes, q))
  <2>1. Len(p.free) >= 1 /\ slots' = FilledWithBlock(ref, bytes, p)
    BY <1>4 DEF Reserve
  <2>2. /\ p.slots \in Seq(Slot)
        /\ p.free \in Seq(DOMAIN p.slots)
    BY <1>1, <2>1, RoomFound DEF IInv
  <2> DEFINE s == taken[1]
  <2>3. DOMAIN taken = 1..1 /\ s \in DOMAIN p.slots
    BY <2>1, <2>2 DEF Taken
  <2>4. Range(taken) = {s}
    BY <2>3 DEF Range
  <2>5. slots' = [p.slots EXCEPT ![s] = [p.slots[s] EXCEPT !.block = bytes]]
    BY <2>1 DEF FilledWithBlock
  <2>6. p.slots[s] \in Slot
    BY <2>2, <2>3
  <2>7. /\ [p.slots[s] EXCEPT !.block = bytes] \in Slot
        /\ [p.slots[s] EXCEPT !.block = bytes].block = bytes
    BY <1>1, <2>6, FilledSlot
  <2> HIDE DEF p, s, taken
  <2>8. slots' \in Seq(Slot) /\ DOMAIN slots' = DOMAIN p.slots
    BY <2>2, <2>3, <2>5, <2>7
  <2>9. \A t \in DOMAIN p.slots :
           IF t \in Range(taken)
           THEN slots'[t].block \in {ref[1]} \X (0..BlockCount[ref[1]] - 1)
           ELSE slots'[t] = p.slots[t]
    <3>1. bytes \in {ref[1]} \X (0..BlockCount[ref[1]] - 1)
      BY <1>1
    <3> QED BY <3>1, <2>2, <2>3, <2>4, <2>5, <2>7
  <2> QED BY <1>1, <1>4, <2>8, <2>9, ReserveKeepsIInv DEF p, taken
<1> QED BY <1>2, <1>3, <1>4 DEF StoreBlock

\* The invariant is inductive.
LEMMA NextIInv == IInv /\ [Next]_vars => IInv'
<1> SUFFICES ASSUME IInv, [Next]_vars PROVE IInv'
  OBVIOUS
<1>1. ASSUME UNCHANGED vars PROVE IInv'
  BY <1>1 DEF vars, IInv, TypeOK, SlotsPartitioned, SingleOwner, SlotIds
<1>2. ASSUME Abort PROVE IInv'
  BY <1>2 DEF Abort, IInv, TypeOK, SlotsPartitioned, SingleOwner, SlotIds
<1>3. ASSUME NEW h \in Hashes, StoreContent(h) PROVE IInv'
  BY <1>3, StoreKeepsIInv
<1>4. ASSUME NEW h \in Hashes, StoreKnownContent(h) PROVE IInv'
  BY <1>1, <1>2, <1>4 DEF StoreKnownContent
<1>5. ASSUME NEW h \in Hashes, ValidateData(h) PROVE IInv'
  BY <1>1, <1>2, <1>5 DEF ValidateData
<1>6. ASSUME NEW d \in Deliveries, StoreBlock(d[1], d[2]) PROVE IInv'
  <2>1. PICK h \in Hashes : d \in BlocksOf(h) \X BlocksOf(h)
    BY CacheAssumption
  <2> QED BY <1>6, <2>1, StoreBlockKeepsIInv
<1>7. ASSUME NEW b \in Blocks, NEW enable \in BOOLEAN, SetFrozen(b, enable)
      PROVE  IInv'
  BY <1>7, SetFrozenKeepsIInv
<1> QED BY <1>1, <1>3, <1>4, <1>5, <1>6, <1>7 DEF Next

\* The slot cache never leaves its types, whatever the contents, their numbers
\* of blocks and the capacity (contentcache.cpp).
THEOREM CacheTypeCorrect == Spec => []TypeOK
<1>1. IInv => TypeOK
  BY DEF IInv
<1> QED BY <1>1, InitIInv, NextIInv, PTL DEF Spec

\* Until an assertion fails the free and the occupied list partition the slots
\* (reserve_slot, reserve_slots, grow_to_fit, promote).
THEOREM CacheSlotsPartitioned == Spec => []SlotsPartitioned
<1>1. IInv => SlotsPartitioned
  BY DEF IInv
<1> QED BY <1>1, InitIInv, NextIInv, PTL DEF Spec

\* Until an assertion fails every occupied slot belongs to exactly one content
\* and holds one of its blocks, so no two contents ever share a slot.
THEOREM CacheSingleOwner == Spec => []SingleOwner
<1>1. IInv => SingleOwner
  BY DEF IInv
<1> QED BY <1>1, InitIInv, NextIInv, PTL DEF Spec

-----------------------------------------------------------------------------
(* What the slots hold.  A free slot is as it was created: nothing ever gives *)
(* a slot back, so the block-wise store() may rely on a block_index of 0.     *)

FreeSlotsEmpty ==
  status # "aborted" => \A s \in Range(free_idxs) : slots[s] = EmptySlot

\* A content was stored whole, or none of its slots was ever given an index.
WholeOrZero ==
  status # "aborted" =>
    \A h \in Hashes :
      Entries(h) = Divided(h) \/ \A k \in DOMAIN Entries(h) : Entries(h)[k].index = 0

\* What ensure_capacity() adds at the end is empty.
LEMMA RoomNew ==
  ASSUME TypeOK, NEW count \in Nat, Len(EnsureCapacity(count).free) >= count,
         NEW s \in DOMAIN EnsureCapacity(count).slots \ SlotIds
  PROVE  EnsureCapacity(count).slots[s] = EmptySlot
<1> DEFINE p == EnsureCapacity(count)
<1>1. CASE Len(free_idxs) >= count
  BY <1>1 DEF EnsureCapacity, Pool, SlotIds
<1>2. CASE Len(free_idxs) < count /\ capacity # 0
  <2>1. p.free = free_idxs
    BY <1>2, CacheAssumption DEF EnsureCapacity, Freed, TypeOK
  <2> QED BY <2>1, <1>2 DEF TypeOK
<1>3. CASE Len(free_idxs) < count /\ capacity = 0
  <2> DEFINE m   == count - Len(free_idxs)
             add == [k \in 1..m |-> EmptySlot]
  <2>1. m \in Nat /\ Len(slots) \in Nat /\ SlotIds = 1..Len(slots) /\ slots \in Seq(Slot)
    BY <1>3 DEF TypeOK, SlotIds
  <2>2. p.slots = slots \o add
    BY <1>3 DEF EnsureCapacity, Grown
  <2>3. EmptySlot \in Slot
    BY DEF EmptySlot, Slot
  <2>4. add \in Seq(Slot) /\ Len(add) = m /\ \A k \in 1..m : add[k] = EmptySlot
    BY <2>1, <2>3
  <2> HIDE DEF m, add, p
  <2>5. /\ DOMAIN p.slots = 1..Len(slots) + m
        /\ \A k \in 1..Len(slots) + m : k > Len(slots) => p.slots[k] = add[k - Len(slots)]
    <3>1. /\ slots \o add \in Seq(Slot)
          /\ Len(slots \o add) = Len(slots) + Len(add)
          /\ \A k \in 1..Len(slots) + Len(add) :
                (slots \o add)[k] = IF k <= Len(slots) THEN slots[k]
                                                      ELSE add[k - Len(slots)]
      BY ONLY <2>1, <2>4, ConcatProperties
    <3>2. /\ DOMAIN (slots \o add) = 1..Len(slots) + m
          /\ \A k \in 1..Len(slots) + m :
                k > Len(slots) => (slots \o add)[k] = add[k - Len(slots)]
      BY ONLY <3>1, <2>1, <2>4
    <3> QED BY ONLY <3>2, <2>2
  <2>6. s \in 1..Len(slots) + m /\ s > Len(slots)
    BY <2>1, <2>5 DEF p
  <2>7. s - Len(slots) \in 1..m
    BY <2>1, <2>6
  <2> QED BY <2>4, <2>5, <2>6, <2>7 DEF p
<1> QED BY <1>1, <1>2, <1>3, CacheAssumption DEF TypeOK

\* The slots a reservation hands out are empty, different, and nobody's.
LEMMA RoomTaken ==
  ASSUME IInv, FreeSlotsEmpty, status = "ok",
         NEW count \in Nat, Len(EnsureCapacity(count).free) >= count
  PROVE  LET p     == EnsureCapacity(count)
             taken == Taken(p, count)
             rest  == SubSeq(p.free, 1, Len(p.free) - count)
         IN  /\ p.slots \in Seq(Slot)
             /\ SlotIds \subseteq DOMAIN p.slots
             /\ p.occupied = occupied_idxs
             /\ \A s \in SlotIds : p.slots[s] = slots[s]
             /\ taken \in Seq(DOMAIN p.slots)
             /\ Len(taken) = count
             /\ IsInjective(taken)
             /\ Range(taken) \cap Range(occupied_idxs) = {}
             /\ \A s \in Range(taken) : p.slots[s] = EmptySlot
             /\ \A s \in Range(rest) : p.slots[s] = EmptySlot /\ s \notin Range(taken)
<1> DEFINE p     == EnsureCapacity(count)
           taken == Taken(p, count)
           rest  == SubSeq(p.free, 1, Len(p.free) - count)
           D     == DOMAIN p.slots
           f     == p.free
<1>1. /\ p.slots \in Seq(Slot)
      /\ SlotIds \subseteq D
      /\ \A s \in SlotIds : p.slots[s] = slots[s]
      /\ p.occupied = occupied_idxs
      /\ f \in Seq(D)
      /\ IsInjective(f)
      /\ Range(f) \cap Range(occupied_idxs) = {}
      /\ Range(f) \cup Range(occupied_idxs) = D
      /\ Len(f) >= count
  BY RoomFound DEF IInv
<1>2. /\ rest = SubSeq(f, 1, Len(f) - count)
      /\ taken = SubSeq(f, Len(f) - count + 1, Len(f))
  BY DEF Taken
<1>3. count <= Len(f)
  BY <1>1
<1>4. ASSUME NEW s \in Range(f) PROVE p.slots[s] = EmptySlot
  <2>1. s \in D /\ s \notin Range(occupied_idxs)
    BY <1>1
  <2>2. CASE s \in SlotIds
    <3>1. s \in Range(free_idxs)
      BY <2>1, <2>2 DEF IInv, SlotsPartitioned
    <3> QED BY <3>1, <2>2, <1>1 DEF FreeSlotsEmpty
  <2>3. CASE s \notin SlotIds
    <3>1. s \in DOMAIN EnsureCapacity(count).slots \ SlotIds
      BY <2>1, <2>3
    <3> QED BY <3>1, RoomNew DEF IInv
  <2> QED BY <2>2, <2>3
<1> HIDE DEF f, D, rest, taken, p
<1>5. /\ taken \in Seq(D)
      /\ Len(taken) = count
      /\ IsInjective(taken)
      /\ Range(rest) \cap Range(taken) = {}
      /\ Range(rest) \cup Range(taken) = Range(f)
  BY <1>1, <1>2, <1>3, CutInTwo
<1>6. /\ Range(taken) \cap Range(occupied_idxs) = {}
      /\ \A s \in Range(taken) : p.slots[s] = EmptySlot
      /\ \A s \in Range(rest) : p.slots[s] = EmptySlot /\ s \notin Range(taken)
  BY ONLY <1>1, <1>4, <1>5
<1> QED BY <1>1, <1>5, <1>6 DEF p, taken, rest, D

\* What the entries of the contents become when count slots are added to h.
LEMMA EntriesAfter ==
  ASSUME IInv, status = "ok", NEW h \in Hashes, NEW taken \in Seq(Nat),
         Range(taken) \cap Range(occupied_idxs) = {},
         content' = [content EXCEPT ![h] = @ \o taken],
         \A s \in SlotIds : s \notin Range(taken) => slots'[s] = slots[s]
  PROVE  /\ \A g \in Hashes : g # h => Entries(g)' = Entries(g)
         /\ Entries(h)' = Entries(h) \o
              [k \in DOMAIN taken |-> [index |-> slots'[taken[k]].block_index,
                                       block |-> slots'[taken[k]].block]]
<1>1. /\ content \in [Hashes -> Seq(SlotIds)]
      /\ \A g \in Hashes : \A k \in DOMAIN content[g] :
           content[g][k] \in SlotIds /\ content[g][k] \notin Range(taken)
  BY DEF IInv, TypeOK, SingleOwner
<1>2. \A g \in Hashes : \A k \in DOMAIN content[g] :
        slots'[content[g][k]] = slots[content[g][k]]
  BY <1>1
<1>3. ASSUME NEW g \in Hashes, g # h PROVE Entries(g)' = Entries(g)
  <2>1. content'[g] = content[g]
    BY <1>1, <1>3
  <2> QED BY <2>1, <1>2 DEF Entries
<1> DEFINE n   == Len(content[h])
           m   == Len(taken)
           new == [k \in DOMAIN taken |-> [index |-> slots'[taken[k]].block_index,
                                           block |-> slots'[taken[k]].block]]
           E(s) == [index |-> slots'[s].block_index, block |-> slots'[s].block]
           q   == content'[h]
<1>4. /\ q = content[h] \o taken /\ content[h] \in Seq(SlotIds)
      /\ n \in Nat /\ m \in Nat
      /\ DOMAIN content[h] = 1..n /\ DOMAIN taken = 1..m
  BY <1>1
<1>5. /\ DOMAIN q = 1..n + m
      /\ \A k \in 1..n + m : q[k] = IF k <= n THEN content[h][k] ELSE taken[k - n]
  BY <1>4
<1>6. Entries(h)' = [k \in 1..n + m |-> E(q[k])]
  BY <1>5 DEF Entries
<1>7. Entries(h) = [k \in 1..n |-> E(content[h][k])]
  BY <1>2, <1>4 DEF Entries
<1>8. new = [k \in 1..m |-> E(taken[k])]
  BY <1>4
<1> HIDE DEF q, new, E, n, m
<1>9. Entries(h) \o new = [k \in 1..n + m |-> IF k <= n THEN E(content[h][k])
                                                         ELSE E(taken[k - n])]
  <2> DEFINE a == [k \in 1..n |-> E(content[h][k])]
             b == [k \in 1..m |-> E(taken[k])]
             U == {E(s) : s \in Range(content[h]) \cup Range(taken)}
  <2>1. a \in Seq(U) /\ b \in Seq(U) /\ Len(a) = n /\ Len(b) = m
    <3>1. \A k \in 1..n : E(content[h][k]) \in U
      BY <1>4 DEF Range
    <3>2. \A k \in 1..m : E(taken[k]) \in U
      BY <1>4 DEF Range
    <3> HIDE DEF U
    <3> QED BY <3>1, <3>2, <1>4
  <2>2. /\ \A k \in 1..n : a[k] = E(content[h][k])
        /\ \A k \in 1..m : b[k] = E(taken[k])
    OBVIOUS
  <2> HIDE DEF a, b, U
  <2>3. /\ a \o b = [k \in 1..n + m |-> (a \o b)[k]]
        /\ \A k \in 1..n + m : (a \o b)[k] = IF k <= n THEN a[k] ELSE b[k - n]
    <3>1. /\ a \o b \in Seq(U)
          /\ Len(a \o b) = n + m
          /\ \A k \in 1..n + m : (a \o b)[k] = IF k <= n THEN a[k] ELSE b[k - n]
      BY <2>1, ConcatProperties
    <3>2. a \o b \in [1..n + m -> U]
      BY <3>1, LenProperties
    <3> QED BY <3>1, <3>2
  <2>4. ASSUME NEW k \in 1..n + m
        PROVE  (a \o b)[k] = IF k <= n THEN E(content[h][k]) ELSE E(taken[k - n])
    <3>1. CASE k <= n
      <4>1. k \in 1..n
        BY <3>1, <1>4
      <4> QED BY <4>1, <3>1, <2>2, <2>3
    <3>2. CASE ~(k <= n)
      <4>1. k - n \in 1..m
        BY <3>2, <1>4
      <4> QED BY <4>1, <3>2, <2>2, <2>3
    <3> QED BY <3>1, <3>2
  <2>5. a \o b = [k \in 1..n + m |-> IF k <= n THEN E(content[h][k]) ELSE E(taken[k - n])]
    BY <2>3, <2>4, Zenon
  <2> QED BY <2>5, <1>7, <1>8 DEF a, b
<1>10. ASSUME NEW k \in 1..n + m
       PROVE  E(q[k]) = IF k <= n THEN E(content[h][k]) ELSE E(taken[k - n])
  BY <1>5
<1>11. Entries(h)' = Entries(h) \o new
  BY <1>6, <1>9, <1>10, Zenon
<1> QED BY <1>3, <1>11 DEF new

\* A frozen slot is occupied: only a slot that find() returns is ever frozen.
LEMMA FrozenIsOccupied ==
  ASSUME IInv, FreeSlotsEmpty, status # "aborted",
         NEW s \in SlotIds, slots[s].frozen
  PROVE  s \in Range(occupied_idxs)
<1>1. EmptySlot.frozen = FALSE
  BY DEF EmptySlot
<1>2. s \notin Range(free_idxs)
  BY <1>1 DEF FreeSlotsEmpty
<1> QED BY <1>2 DEF IInv, SlotsPartitioned

FrozenStays ==
  \A s \in SlotIds : slots[s].frozen => /\ slots'[s].block = slots[s].block
                                        /\ s \in Range(occupied_idxs')

\* Slots reserved for h and numbered or filled there leave everything else alone.
LEMMA ReserveEffect ==
  ASSUME IInv, FreeSlotsEmpty, status = "ok",
         NEW count \in Nat, NEW h \in Hashes, NEW filled(_),
         Reserve(count, h, filled),
         DOMAIN slots' = DOMAIN EnsureCapacity(count).slots,
         \A s \in DOMAIN EnsureCapacity(count).slots :
            s \notin Range(Taken(EnsureCapacity(count), count))
               => slots'[s] = EnsureCapacity(count).slots[s]
  PROVE  /\ FreeSlotsEmpty'
         /\ FrozenStays
         /\ \A g \in Hashes : g # h => Entries(g)' = Entries(g)
         /\ Entries(h)' = Entries(h) \o
              [k \in 1..count |->
                 [index |-> slots'[Taken(EnsureCapacity(count), count)[k]].block_index,
                  block |-> slots'[Taken(EnsureCapacity(count), count)[k]].block]]
<1> DEFINE p     == EnsureCapacity(count)
           taken == Taken(p, count)
           rest  == SubSeq(p.free, 1, Len(p.free) - count)
<1>1. /\ Len(p.free) >= count
      /\ free_idxs' = rest
      /\ occupied_idxs' = taken \o p.occupied
      /\ content' = [content EXCEPT ![h] = @ \o taken]
  BY DEF Reserve
<1>2. /\ p.slots \in Seq(Slot)
      /\ SlotIds \subseteq DOMAIN p.slots
      /\ p.occupied = occupied_idxs
      /\ \A s \in SlotIds : p.slots[s] = slots[s]
      /\ taken \in Seq(DOMAIN p.slots)
      /\ Len(taken) = count
      /\ IsInjective(taken)
      /\ Range(taken) \cap Range(occupied_idxs) = {}
      /\ \A s \in Range(taken) : p.slots[s] = EmptySlot
      /\ \A s \in Range(rest) : p.slots[s] = EmptySlot /\ s \notin Range(taken)
  BY <1>1, RoomTaken
<1>3. /\ DOMAIN slots' = DOMAIN p.slots
      /\ \A s \in DOMAIN p.slots : s \notin Range(taken) => slots'[s] = p.slots[s]
  OBVIOUS
<1>4. Range(rest) \subseteq DOMAIN p.slots
  <2> DEFINE f == p.free
             D == DOMAIN p.slots
  <2>1. f \in Seq(D) /\ IsInjective(f) /\ count <= Len(f)
    BY <1>1, RoomFound DEF IInv
  <2>2. rest = SubSeq(f, 1, Len(f) - count)
    OBVIOUS
  <2> HIDE DEF f, D, rest
  <2>3. rest \in Seq(D)
    BY ONLY <2>1, <2>2, count \in Nat, CutInTwo
  <2> QED BY <2>3, RangeOfSeq DEF D
<1> HIDE DEF p, taken, rest
<1>5. FreeSlotsEmpty'
  BY <1>1, <1>2, <1>3, <1>4 DEF FreeSlotsEmpty
<1>6. FrozenStays
  <2> SUFFICES ASSUME NEW s \in SlotIds, slots[s].frozen
               PROVE  slots'[s].block = slots[s].block /\ s \in Range(occupied_idxs')
    BY DEF FrozenStays
  <2>1. s \in Range(occupied_idxs)
    BY FrozenIsOccupied
  <2>2. slots'[s] = slots[s]
    BY <2>1, <1>2, <1>3
  <2>3. Range(occupied_idxs') = Range(taken) \cup Range(occupied_idxs)
    <3>1. DOMAIN p.slots \subseteq Nat
      BY <1>2
    <3>2. taken \in Seq(Nat) /\ occupied_idxs \in Seq(Nat)
      <4>1. SlotIds \subseteq Nat /\ occupied_idxs \in Seq(SlotIds)
        BY DEF IInv, TypeOK, SlotIds
      <4> QED BY <4>1, <3>1, <1>2, SeqMonotonic
    <3> QED BY <3>2, <1>1, <1>2, RangeConcatenation
  <2> QED BY <2>1, <2>2, <2>3
<1>7. taken \in Seq(Nat) /\ DOMAIN taken = 1..count
  <2>1. DOMAIN p.slots \subseteq Nat
    BY <1>2
  <2> QED BY <2>1, <1>2, SeqMonotonic
<1>8. \A s \in SlotIds : s \notin Range(taken) => slots'[s] = slots[s]
  BY <1>2, <1>3
<1>9. /\ \A g \in Hashes : g # h => Entries(g)' = Entries(g)
      /\ Entries(h)' = Entries(h) \o
           [k \in DOMAIN taken |-> [index |-> slots'[taken[k]].block_index,
                                    block |-> slots'[taken[k]].block]]
  BY <1>1, <1>2, <1>7, <1>8, EntriesAfter
<1> QED BY <1>5, <1>6, <1>7, <1>9 DEF p, taken

\* What an empty slot holds once it is filled, with and without a number.
LEMMA EmptySlotFilled ==
  ASSUME NEW c
  PROVE  /\ [EmptySlot EXCEPT !.block = c].block_index = 0
         /\ [EmptySlot EXCEPT !.block = c].block = c
<1> DEFINE r == EmptySlot
<1>1. r.block_index = 0 /\ DOMAIN r = {"block_index", "block", "frozen"}
  BY DEF EmptySlot
<1> HIDE DEF r
<1>2. [r EXCEPT !.block = c].block_index = 0 /\ [r EXCEPT !.block = c].block = c
  BY <1>1
<1> QED BY <1>2 DEF r

LEMMA EmptySlotNumbered ==
  ASSUME NEW i, NEW c
  PROVE  /\ [EmptySlot EXCEPT !.block_index = i, !.block = c].block_index = i
         /\ [EmptySlot EXCEPT !.block_index = i, !.block = c].block = c
<1> DEFINE r == EmptySlot
<1>1. DOMAIN r = {"block_index", "block", "frozen"}
  BY DEF EmptySlot
<1> HIDE DEF r
<1> DEFINE q == [r EXCEPT !.block_index = i]
<1>2. q.block_index = i /\ DOMAIN q = {"block_index", "block", "frozen"}
  BY <1>1
<1>3. [r EXCEPT !.block_index = i, !.block = c] = [q EXCEPT !.block = c]
  OBVIOUS
<1> HIDE DEF q
<1>4. [q EXCEPT !.block = c].block_index = i /\ [q EXCEPT !.block = c].block = c
  BY <1>2
<1> QED BY <1>3, <1>4 DEF r

\* store(src, size) of an unknown content: what is then cached of it is the content
\* divided into blocks.
LEMMA StoreContentEffect ==
  ASSUME IInv, FreeSlotsEmpty, NEW h \in Hashes, StoreContent(h),
         Reserve(BlockCount[h], h, LAMBDA q : FilledWithContent(h, q))
  PROVE  /\ FreeSlotsEmpty'
         /\ FrozenStays
         /\ status' = "ok"
         /\ \A g \in Hashes : g # h => Entries(g)' = Entries(g)
         /\ Entries(h) = << >>
         /\ Entries(h)' = Divided(h)
<1> DEFINE n     == BlockCount[h]
           p     == EnsureCapacity(n)
           taken == Taken(p, n)
<1>1. n \in Nat \ {0} /\ status = "ok" /\ content[h] = << >>
  BY BlockAssumption DEF StoreContent
<1>2. Len(p.free) >= n /\ slots' = FilledWithContent(h, p) /\ status' = status
  BY DEF Reserve
<1>3. /\ p.slots \in Seq(Slot)
      /\ taken \in Seq(DOMAIN p.slots)
      /\ Len(taken) = n
      /\ IsInjective(taken)
      /\ \A s \in Range(taken) : p.slots[s] = EmptySlot
  BY <1>1, <1>2, RoomTaken
<1>4. DOMAIN taken = 1..n /\ \A k \in 1..n : taken[k] \in DOMAIN p.slots
  BY <1>1, <1>3
<1> DEFINE At(s)      == CHOOSE k \in DOMAIN taken : taken[k] = s
           written(s) == IF \E k \in DOMAIN taken : taken[k] = s
                         THEN [p.slots[s] EXCEPT !.block_index = At(s) - 1,
                                                 !.block = <<h, At(s) - 1>>]
                         ELSE p.slots[s]
<1>5. slots' = [s \in DOMAIN p.slots |-> written(s)]
  BY <1>2 DEF FilledWithContent
<1>6. /\ DOMAIN slots' = DOMAIN p.slots
      /\ \A s \in DOMAIN p.slots : s \notin Range(taken) => slots'[s] = p.slots[s]
  BY <1>5 DEF Range
<1>7. ASSUME NEW k \in 1..n
      PROVE  [index |-> slots'[taken[k]].block_index, block |-> slots'[taken[k]].block]
               = [index |-> k - 1, block |-> <<h, k - 1>>]
  <2> DEFINE s == taken[k]
             i == k - 1
             c == <<h, i>>
  <2>1. s \in DOMAIN p.slots /\ s \in Range(taken)
    BY <1>4 DEF Range
  <2>2. At(s) = k
    <3>1. At(s) \in DOMAIN taken /\ taken[At(s)] = taken[k] /\ k \in DOMAIN taken
      BY <1>4
    <3> QED BY <3>1, <1>3 DEF IsInjective
  <2>3. slots'[s] = [p.slots[s] EXCEPT !.block_index = i, !.block = c]
    BY <1>4, <1>5, <2>1, <2>2
  <2>4. p.slots[s] = EmptySlot
    BY <2>1, <1>3
  <2> HIDE DEF s, c, p, taken, written, At, i
  <2>5. slots'[s] = [EmptySlot EXCEPT !.block_index = i, !.block = c]
    BY ONLY <2>3, <2>4
  <2>6. slots'[s].block_index = i /\ slots'[s].block = c
    BY ONLY <2>5, EmptySlotNumbered
  <2> QED BY <2>6 DEF s, c, i
<1>8. /\ FreeSlotsEmpty'
      /\ FrozenStays
      /\ \A g \in Hashes : g # h => Entries(g)' = Entries(g)
      /\ Entries(h)' = Entries(h) \o
           [k \in 1..n |-> [index |-> slots'[taken[k]].block_index,
                            block |-> slots'[taken[k]].block]]
  <2> HIDE DEF written
  <2> QED BY <1>1, <1>6, ReserveEffect
<1>9. Entries(h) = << >>
  BY <1>1 DEF Entries
<1>10. [k \in 1..n |-> [index |-> slots'[taken[k]].block_index,
                        block |-> slots'[taken[k]].block]] = Divided(h)
  <2> HIDE DEF taken, p
  <2> QED BY <1>7, Zenon DEF Divided
<1>11. Entries(h)' = << >> \o Divided(h)
  <2> HIDE DEF taken, p, n
  <2> QED BY <1>8, <1>9, <1>10
<1>12. << >> \o Divided(h) = Divided(h)
  <2> DEFINE U == {[index |-> k - 1, block |-> <<h, k - 1>>] : k \in 1..n}
  <2>1. Divided(h) \in Seq(U)
    BY <1>1 DEF Divided
  <2> HIDE DEF U
  <2> QED BY <2>1, ConcatEmptySeq
<1> QED BY <1>1, <1>2, <1>8, <1>9, <1>11, <1>12

\* store(ref, expected_size, src, size) of a block that is not found: its bytes are
\* added under index 0.
LEMMA StoreBlockEffect ==
  ASSUME IInv, FreeSlotsEmpty, NEW h \in Hashes,
         NEW ref \in BlocksOf(h), NEW bytes \in BlocksOf(h), status = "ok",
         Reserve(1, h, LAMBDA q : FilledWithBlock(ref, bytes, q))
  PROVE  /\ FreeSlotsEmpty'
         /\ FrozenStays
         /\ status' = "ok"
         /\ \A g \in Hashes : g # h => Entries(g)' = Entries(g)
         /\ Entries(h)' = Append(Entries(h), [index |-> 0, block |-> bytes])
<1> DEFINE p     == EnsureCapacity(1)
           taken == Taken(p, 1)
           s     == taken[1]
<1>2. Len(p.free) >= 1 /\ slots' = FilledWithBlock(ref, bytes, p) /\ status' = status
  BY DEF Reserve
<1>3. /\ p.slots \in Seq(Slot)
      /\ taken \in Seq(DOMAIN p.slots)
      /\ Len(taken) = 1
      /\ \A t \in Range(taken) : p.slots[t] = EmptySlot
  BY <1>2, RoomTaken
<1>4. DOMAIN taken = 1..1 /\ s \in DOMAIN p.slots /\ s \in Range(taken)
  BY <1>3 DEF Range
<1>5. slots' = [p.slots EXCEPT ![s] = [p.slots[s] EXCEPT !.block = bytes]]
  BY <1>2 DEF FilledWithBlock
<1>6. /\ DOMAIN slots' = DOMAIN p.slots
      /\ \A t \in DOMAIN p.slots : t \notin Range(taken) => slots'[t] = p.slots[t]
  BY <1>4, <1>5
<1>7. slots'[s].block_index = 0 /\ slots'[s].block = bytes
  <2>1. p.slots[s] = EmptySlot
    BY <1>3, <1>4
  <2>2. slots'[s] = [EmptySlot EXCEPT !.block = bytes]
    BY <2>1, <1>4, <1>5
  <2> QED BY <2>2, EmptySlotFilled
<1>8. /\ FreeSlotsEmpty'
      /\ FrozenStays
      /\ \A g \in Hashes : g # h => Entries(g)' = Entries(g)
      /\ Entries(h)' = Entries(h) \o
           [k \in 1..1 |-> [index |-> slots'[taken[k]].block_index,
                            block |-> slots'[taken[k]].block]]
  BY <1>6, ReserveEffect
<1> DEFINE e == [index |-> 0, block |-> bytes]
<1>9. [k \in 1..1 |-> [index |-> slots'[taken[k]].block_index,
                       block |-> slots'[taken[k]].block]] = <<e>>
  BY <1>7
<1>10. Entries(h)' = Entries(h) \o <<e>>
  <2> HIDE DEF taken, p, s, e
  <2> QED BY <1>8, <1>9
<1>11. Entries(h) \o <<e>> = Append(Entries(h), e)
  <2> DEFINE U == {[index |-> slots[content[h][k]].block_index,
                    block |-> slots[content[h][k]].block] : k \in DOMAIN content[h]} \cup {e}
             q == Entries(h)
  <2>1. content[h] \in Seq(SlotIds)
    BY DEF IInv, TypeOK
  <2>2. q \in Seq(U) /\ e \in U
    <3>1. q = [k \in 1..Len(content[h]) |-> [index |-> slots[content[h][k]].block_index,
                                             block |-> slots[content[h][k]].block]]
      BY <2>1 DEF Entries
    <3>2. \A k \in 1..Len(content[h]) : [index |-> slots[content[h][k]].block_index,
                                         block |-> slots[content[h][k]].block] \in U
      BY <2>1
    <3> HIDE DEF U, q
    <3> QED BY <3>1, <3>2, <2>1, IsASeq DEF U
  <2> HIDE DEF U, e, q
  <2>3. Append(q, e) = q \o <<e>>
    BY <2>2, AppendIsConcat
  <2> QED BY <2>3 DEF q
<1> QED BY <1>2, <1>8, <1>10, <1>11

\* A reservation that fails wipes and forgets slots, but none that is frozen.
LEMMA CannotReserveEffect ==
  ASSUME IInv, FreeSlotsEmpty, status = "ok", NEW count \in Nat, CannotReserve(count)
  PROVE  FrozenStays /\ status' = "aborted"
<1> DEFINE m == count - Len(free_idxs)
<1>1. /\ slots' = Wiped(Evicted(m))
      /\ occupied_idxs' = Only(occupied_idxs, SlotIds \ Evicted(m))
      /\ status' = "aborted"
  <2>1. EnsureCapacity(count) = Freed(m)
    BY CannotReserveIsFull DEF IInv
  <2>2. /\ slots' = EnsureCapacity(count).slots
        /\ occupied_idxs' = EnsureCapacity(count).occupied
        /\ status' = "aborted"
    BY DEF CannotReserve
  <2>3. /\ Freed(m).slots = Wiped(Evicted(m))
        /\ Freed(m).occupied = Only(occupied_idxs, SlotIds \ Evicted(m))
    BY DEF Freed
  <2> HIDE DEF m
  <2> QED BY ONLY <2>1, <2>2, <2>3
<1> HIDE DEF m
<1>2. ASSUME NEW s \in SlotIds, slots[s].frozen
      PROVE  slots'[s].block = slots[s].block /\ s \in Range(occupied_idxs')
  <2>1. s \notin Evicted(m)
    BY <1>2 DEF Evicted
  <2>2. s \in Range(occupied_idxs)
    BY <1>2, FrozenIsOccupied
  <2>3. slots'[s] = slots[s]
    BY <1>1, <2>1 DEF Wiped
  <2>4. Range(occupied_idxs') = Range(occupied_idxs) \cap (SlotIds \ Evicted(m))
    BY <1>1, OnlyKeeps DEF IInv, TypeOK
  <2> QED BY <2>1, <2>2, <2>3, <2>4
<1> QED BY <1>1, <1>2 DEF FrozenStays

\* Freezing changes neither what the slots hold nor which are occupied.
LEMMA SetFrozenEffect ==
  ASSUME IInv, FreeSlotsEmpty, NEW b \in Blocks, NEW enable \in BOOLEAN,
         SetFrozen(b, enable)
  PROVE  /\ FreeSlotsEmpty'
         /\ FrozenStays
         /\ status = "ok" /\ status' \in {"ok", "hung"}
         /\ content' = content
         /\ \A h \in Hashes : Entries(h)' = Entries(h)
<1> DEFINE s == FoundSlot(b[1], b[2])
<1>1. s \in SlotIds /\ s \in Range(occupied_idxs)
  BY FoundIsOccupied DEF SetFrozen
<1> HIDE DEF s
<1>2. /\ slots' = [slots EXCEPT ![s].frozen = enable]
      /\ occupied_idxs' = occupied_idxs \/ (Seen(s) /\ occupied_idxs' = Promoted(s))
      /\ status = "ok" /\ status' \in {"ok", "hung"}
      /\ free_idxs' = free_idxs /\ content' = content
  BY DEF SetFrozen, s, Promoted
<1>3. /\ \A t \in SlotIds : slots'[t].block = slots[t].block
      /\ \A t \in SlotIds : slots'[t].block_index = slots[t].block_index
      /\ \A t \in SlotIds : t # s => slots'[t] = slots[t]
  <2>1. slots \in Seq(Slot) /\ SlotIds = 1..Len(slots)
    BY DEF IInv, TypeOK, SlotIds
  <2>2. slots' = [slots EXCEPT ![s] = [slots[s] EXCEPT !.frozen = enable]]
    BY <1>2
  <2> QED BY <2>1, <2>2, <1>1 DEF Slot
<1>4. Range(occupied_idxs') = Range(occupied_idxs)
  <2>1. CASE occupied_idxs' = occupied_idxs
    BY <2>1
  <2>2. CASE Seen(s) /\ occupied_idxs' = Promoted(s)
    <3>1. occupied_idxs \in Seq(SlotIds) /\ IsInjective(occupied_idxs)
      BY <1>2 DEF IInv, TypeOK, SlotsPartitioned
    <3> QED BY ONLY <3>1, <2>2, <1>1, PromotedPermutes
  <2> QED BY <2>1, <2>2, <1>2
<1>5. FreeSlotsEmpty'
  <2>1. \A t \in Range(free_idxs) : t \in SlotIds /\ t # s
    BY <1>1, <1>2 DEF IInv, SlotsPartitioned
  <2> QED BY <2>1, <1>2, <1>3 DEF FreeSlotsEmpty
<1>6. FrozenStays
  BY <1>2, <1>3, <1>4, FrozenIsOccupied DEF FrozenStays
<1>7. ASSUME NEW h \in Hashes PROVE Entries(h)' = Entries(h)
  <2>1. \A k \in DOMAIN content[h] : content[h][k] \in SlotIds
    BY DEF IInv, TypeOK
  <2> QED BY <2>1, <1>2, <1>3 DEF Entries
<1> QED BY <1>2, <1>5, <1>6, <1>7

-----------------------------------------------------------------------------
(* What a step does to the entries of the contents: four cases, and every     *)
(* property below follows from them.                                          *)

EntriesKept(H) == \A g \in H : Entries(g)' = Entries(g)

StoresContent(h) ==
  /\ status' = "ok"
  /\ EntriesKept(Hashes \ {h})
  /\ Entries(h) = << >>
  /\ Entries(h)' = Divided(h)

StoresBlock(h, ref, bytes) ==
  /\ status' = "ok"
  /\ EntriesKept(Hashes \ {h})
  /\ ~Finds(Entries(h), ref[2])
  /\ Entries(h)' = Append(Entries(h), [index |-> 0, block |-> bytes])

Keeps == status' \in {"ok", "hung"} /\ EntriesKept(Hashes)

EntriesStep ==
  \/ \E h \in Hashes : StoresContent(h)
  \/ \E h \in Hashes : \E ref, bytes \in BlocksOf(h) : StoresBlock(h, ref, bytes)
  \/ Keeps
  \/ status' = "aborted"

\* find() looks for an index in the entries.
LEMMA SlotsForIndex ==
  ASSUME NEW h, NEW i
  PROVE  SlotsFor(h, i) = Matches(Entries(h), i)
BY DEF SlotsFor, Matches, Entries

LEMMA NextEffect ==
  ASSUME IInv, FreeSlotsEmpty, Next
  PROVE  \/ UNCHANGED vars
         \/ status = "ok" /\ EntriesStep /\ FreeSlotsEmpty' /\ FrozenStays
<1> DEFINE Effect == \/ UNCHANGED vars
                     \/ status = "ok" /\ EntriesStep /\ FreeSlotsEmpty' /\ FrozenStays
<1>1. ASSUME status = "ok", Abort PROVE Effect
  <2>1. FrozenStays
    BY <1>1, FrozenIsOccupied DEF Abort, FrozenStays
  <2> QED BY <1>1, <2>1 DEF Abort, EntriesStep, FreeSlotsEmpty
<1>2. ASSUME NEW n \in Nat, status = "ok", CannotReserve(n) PROVE Effect
  <2>1. FrozenStays /\ status' = "aborted"
    BY <1>2, CannotReserveEffect
  <2> QED BY <1>2, <2>1 DEF EntriesStep, FreeSlotsEmpty
<1>3. ASSUME NEW h \in Hashes, StoreContent(h) PROVE Effect
  <2>1. status = "ok" /\ BlockCount[h] \in Nat
    BY <1>3, BlockAssumption DEF StoreContent
  <2>2. CASE CannotReserve(BlockCount[h])
    BY <2>1, <2>2, <1>2
  <2>3. CASE Reserve(BlockCount[h], h, LAMBDA q : FilledWithContent(h, q))
    <3>1. /\ FreeSlotsEmpty'
          /\ FrozenStays
          /\ status' = "ok"
          /\ \A g \in Hashes : g # h => Entries(g)' = Entries(g)
          /\ Entries(h) = << >>
          /\ Entries(h)' = Divided(h)
      BY <1>3, <2>3, StoreContentEffect
    <3>2. StoresContent(h)
      BY <3>1 DEF StoresContent, EntriesKept
    <3> QED BY <2>1, <3>1, <3>2 DEF EntriesStep
  <2> QED BY <1>3, <2>2, <2>3 DEF StoreContent
<1>4. ASSUME NEW h \in Hashes, StoreKnownContent(h) PROVE Effect
  <2> HIDE DEF Effect
  <2>1. UNCHANGED vars => Effect
    BY DEF Effect
  <2> QED BY <1>1, <1>4, <2>1 DEF StoreKnownContent
<1>5. ASSUME NEW h \in Hashes, ValidateData(h) PROVE Effect
  <2> HIDE DEF Effect
  <2>1. UNCHANGED vars => Effect
    BY DEF Effect
  <2> QED BY <1>1, <1>5, <2>1 DEF ValidateData
<1>6. ASSUME NEW d \in Deliveries, StoreBlock(d[1], d[2]) PROVE Effect
  <2>1. PICK h \in Hashes : d \in BlocksOf(h) \X BlocksOf(h)
    BY CacheAssumption
  <2> DEFINE ref == d[1]
             bytes == d[2]
  <2>2. ref \in BlocksOf(h) /\ bytes \in BlocksOf(h) /\ ref[1] = h /\ status = "ok"
    BY <2>1, <1>6 DEF BlocksOf, StoreBlock
  <2>3. StoreBlock(ref, bytes)
    BY <1>6
  <2> HIDE DEF ref, bytes
  <2>4. CASE SlotsFor(ref[1], ref[2]) # {}
    BY <2>3, <2>4 DEF StoreBlock
  <2>5. CASE CannotReserve(1)
    BY <2>2, <2>5, <1>2
  <2>6. CASE /\ SlotsFor(h, ref[2]) = {}
             /\ Reserve(1, h, LAMBDA q : FilledWithBlock(ref, bytes, q))
    <3>1. /\ FreeSlotsEmpty'
          /\ FrozenStays
          /\ status' = "ok"
          /\ \A g \in Hashes : g # h => Entries(g)' = Entries(g)
          /\ Entries(h)' = Append(Entries(h), [index |-> 0, block |-> bytes])
      BY <2>2, <2>6, StoreBlockEffect
    <3>2. ~Finds(Entries(h), ref[2])
      BY <2>6, SlotsForIndex DEF Finds
    <3>3. StoresBlock(h, ref, bytes)
      BY <3>1, <3>2 DEF StoresBlock, EntriesKept
    <3>4. EntriesStep
      BY <2>2, <3>3 DEF EntriesStep
    <3> QED BY <2>2, <3>1, <3>4
  <2> QED BY <2>2, <2>3, <2>4, <2>5, <2>6 DEF StoreBlock
<1>7. ASSUME NEW b \in Blocks, NEW enable \in BOOLEAN, SetFrozen(b, enable)
      PROVE  Effect
  <2>1. /\ FreeSlotsEmpty'
        /\ FrozenStays
        /\ status = "ok" /\ status' \in {"ok", "hung"}
        /\ \A h \in Hashes : Entries(h)' = Entries(h)
    BY <1>7, SetFrozenEffect
  <2>2. Keeps
    BY <2>1 DEF Keeps, EntriesKept
  <2> QED BY <2>1, <2>2 DEF EntriesStep
<1> HIDE DEF Effect
<1>8. Effect
  BY <1>3, <1>4, <1>5, <1>6, <1>7 DEF Next
<1> QED BY <1>8 DEF Effect

CInv == IInv /\ FreeSlotsEmpty /\ WholeOrZero

LEMMA EntriesAreSeq ==
  ASSUME IInv, NEW h \in Hashes
  PROVE  /\ Entries(h) \in Seq({Entries(h)[k] : k \in 1..Len(content[h])})
         /\ DOMAIN Entries(h) = 1..Len(content[h]) /\ Len(content[h]) \in Nat
         /\ Len(Entries(h)) = Len(content[h])
<1>1. content[h] \in Seq(SlotIds) /\ Len(content[h]) \in Nat
      /\ DOMAIN content[h] = 1..Len(content[h])
  BY DEF IInv, TypeOK
<1>2. DOMAIN Entries(h) = 1..Len(content[h])
  BY <1>1 DEF Entries
<1> DEFINE q == Entries(h)
           n == Len(content[h])
           U == {q[k] : k \in 1..n}
<1>3. q = [k \in 1..n |-> q[k]]
  BY <1>1 DEF Entries
<1>4. \A k \in 1..n : q[k] \in U
  OBVIOUS
<1> HIDE DEF q, n
<1>5. q \in Seq(U) /\ Len(q) = n
  <2> HIDE DEF U
  <2>1. n \in Nat
    BY <1>1 DEF n
  <2>2. q \in [1..n -> U]
    BY <1>3, <1>4
  <2> QED BY <2>1, <2>2
<1> QED BY <1>1, <1>2, <1>5 DEF q, n

\* A content that is whole finds every block of it, so none is ever added.
LEMMA WholeFindsAll ==
  ASSUME NEW h \in Hashes, NEW i \in 0..BlockCount[h] - 1
  PROVE  Matches(Divided(h), i) = {i + 1}
<1>1. BlockCount[h] \in Nat \ {0}
  BY BlockAssumption
<1> QED BY <1>1 DEF Matches, Divided

LEMMA WholeOrZeroStep ==
  ASSUME IInv, WholeOrZero, status = "ok", EntriesStep
  PROVE  WholeOrZero'
<1> DEFINE Good(q, h) == q = Divided(h) \/ \A k \in DOMAIN q : q[k].index = 0
<1>1. \A h \in Hashes : Good(Entries(h), h)
  BY DEF WholeOrZero
<1>2. CASE status' = "aborted"
  BY <1>2 DEF WholeOrZero
<1>3. CASE Keeps
  BY <1>1, <1>3 DEF WholeOrZero, Keeps, EntriesKept
<1>4. ASSUME NEW h \in Hashes, StoresContent(h) PROVE WholeOrZero'
  <2>1. \A g \in Hashes : Good(Entries(g)', g)
    BY <1>1, <1>4 DEF StoresContent, EntriesKept
  <2> QED BY <2>1 DEF WholeOrZero
<1>5. ASSUME NEW h \in Hashes, NEW ref \in BlocksOf(h), NEW bytes \in BlocksOf(h),
             StoresBlock(h, ref, bytes)
      PROVE  WholeOrZero'
  <2> DEFINE q == Entries(h)
             n == Len(content[h])
             U == {q[k] : k \in 1..n} \cup {[index |-> 0, block |-> bytes]}
             e == [index |-> 0, block |-> bytes]
  <2>1. ref[2] \in 0..BlockCount[h] - 1
    BY DEF BlocksOf
  <2>2. Entries(h) # Divided(h)
    <3>1. Matches(Divided(h), ref[2]) # {}
      BY <2>1, WholeFindsAll
    <3> QED BY <3>1, <1>5 DEF StoresBlock, Finds
  <2>3. \A k \in DOMAIN q : q[k].index = 0
    BY <1>1, <2>2
  <2>4. q \in Seq(U) /\ DOMAIN q = 1..n /\ Len(q) = n /\ n \in Nat
    <3>1. q \in Seq({q[k] : k \in 1..n}) /\ DOMAIN q = 1..n /\ Len(q) = n /\ n \in Nat
      BY EntriesAreSeq
    <3>2. {q[k] : k \in 1..n} \subseteq U
      OBVIOUS
    <3> HIDE DEF q, n
    <3> QED BY <3>1, <3>2, SeqMonotonic
  <2>5. Entries(h)' = Append(q, e)
    BY <1>5 DEF StoresBlock
  <2>6. e \in U /\ e.index = 0
    OBVIOUS
  <2> HIDE DEF q, n, U, e
  <2>7. \A k \in DOMAIN Append(q, e) : Append(q, e)[k].index = 0
    <3>1. DOMAIN Append(q, e) = 1..n + 1
      BY <2>4, <2>6
    <3>2. \A k \in 1..n : Append(q, e)[k] = q[k]
      BY <2>4, <2>6
    <3>3. Append(q, e)[n + 1] = e
      BY <2>4, <2>6
    <3> QED BY <3>1, <3>2, <3>3, <2>3, <2>4, <2>6
  <2>8. \A g \in Hashes : Good(Entries(g)', g)
    <3>1. \A g \in Hashes : g # h => Entries(g)' = Entries(g)
      BY <1>5 DEF StoresBlock, EntriesKept
    <3>2. Good(Entries(h)', h)
      BY <2>5, <2>7
    <3> QED BY <1>1, <3>1, <3>2
  <2> QED BY <2>8 DEF WholeOrZero
<1> QED BY <1>2, <1>3, <1>4, <1>5 DEF EntriesStep

LEMMA InitCInv == Init => CInv
<1> SUFFICES ASSUME Init PROVE CInv
  OBVIOUS
<1>1. IInv
  BY InitIInv
<1>2. FreeSlotsEmpty
  <2>1. \A s \in Range(free_idxs) : s \in 1..capacity
    BY CacheAssumption DEF Init, Range
  <2> QED BY <2>1 DEF Init, FreeSlotsEmpty
<1>3. WholeOrZero
  BY DEF Init, WholeOrZero, Entries
<1> QED BY <1>1, <1>2, <1>3 DEF CInv

LEMMA NextCInv == CInv /\ [Next]_vars => CInv'
<1> SUFFICES ASSUME CInv, [Next]_vars PROVE CInv'
  OBVIOUS
<1>1. IInv'
  BY NextIInv DEF CInv
<1>2. CASE UNCHANGED vars
  BY <1>1, <1>2 DEF CInv, vars, FreeSlotsEmpty, WholeOrZero, Entries
<1>3. CASE status = "ok" /\ EntriesStep /\ FreeSlotsEmpty'
  BY <1>1, <1>3, WholeOrZeroStep DEF CInv
<1> QED BY <1>2, <1>3, NextEffect DEF CInv

\* Only a content stored whole has slots for an index above 0, and all of it is
\* then found and right (store(src, size), find()), also after blocks of it arrive
\* again: the block-wise store() finds them and adds nothing.
THEOREM CacheWholeAboveZero == Spec => []WholeAboveZero
<1>1. ASSUME CInv PROVE WholeAboveZero
  <2> SUFFICES ASSUME status # "aborted", NEW h \in Hashes,
                      NEW i \in 1..BlockCount[h] - 1, SlotsFor(h, i) # {}
               PROVE  /\ Len(content[h]) = BlockCount[h]
                      /\ \A j \in 0..BlockCount[h] - 1 :
                            SlotsFor(h, j) # {} /\ slots[FoundSlot(h, j)].block = <<h, j>>
    BY DEF WholeAboveZero
  <2>1. BlockCount[h] \in Nat \ {0} /\ i # 0
    BY BlockAssumption
  <2>2. PICK k \in DOMAIN Entries(h) : Entries(h)[k].index = i
    BY SlotsForIndex DEF Matches
  <2>3. Entries(h) = Divided(h)
    BY <1>1, <2>1, <2>2 DEF CInv, WholeOrZero
  <2>4. Len(content[h]) = BlockCount[h]
    <3>1. DOMAIN Entries(h) = 1..Len(content[h]) /\ Len(content[h]) \in Nat
      BY <1>1, EntriesAreSeq DEF CInv
    <3>2. DOMAIN Entries(h) = 1..BlockCount[h]
      BY <2>3 DEF Divided
    <3> QED BY <3>1, <3>2, <2>1
  <2>5. ASSUME NEW j \in 0..BlockCount[h] - 1
        PROVE  SlotsFor(h, j) # {} /\ slots[FoundSlot(h, j)].block = <<h, j>>
    <3>1. SlotsFor(h, j) = {j + 1}
      BY <2>3, SlotsForIndex, WholeFindsAll
    <3>2. FoundSlot(h, j) = content[h][j + 1]
      <4> DEFINE x == CHOOSE k1 \in SlotsFor(h, j) : \A k2 \in SlotsFor(h, j) : k1 <= k2
      <4>1. \E k1 \in SlotsFor(h, j) : \A k2 \in SlotsFor(h, j) : k1 <= k2
        BY <3>1
      <4>2. x \in SlotsFor(h, j)
        BY <4>1
      <4> QED BY <4>2, <3>1 DEF FoundSlot
    <3>3. /\ j + 1 \in DOMAIN Entries(h)
          /\ Entries(h)[j + 1].block = slots[content[h][j + 1]].block
      <4>1. j + 1 \in DOMAIN content[h]
        BY <3>1 DEF SlotsFor
      <4> QED BY <4>1 DEF Entries
    <3>4. Divided(h)[j + 1].block = <<h, j>>
      BY <2>1 DEF Divided
    <3> QED BY <3>1, <3>2, <3>3, <3>4, <2>3
  <2> QED BY <2>4, <2>5
<1> QED BY <1>1, InitCInv, NextCInv, PTL DEF Spec

\* A frozen slot "can't be evicted or recycled" (contentcache.hpp): in no step, not
\* even one that ends the process, do its data change or does it leave the occupied
\* list.
THEOREM CacheKeepsFrozen == Spec => FrozenKept
<1> DEFINE Kept == \A s \in SlotIds :
                      slots[s].frozen => /\ slots'[s].block = slots[s].block
                                         /\ s \in Range(occupied_idxs')
<1>1. ASSUME CInv, [Next]_vars PROVE [Kept]_vars
  <2>1. FrozenStays => Kept
    BY DEF FrozenStays
  <2> HIDE DEF Kept
  <2> QED BY <1>1, <2>1, NextEffect DEF CInv
<1>2. CInv /\ [Next]_vars => [Kept]_vars
  BY <1>1
<1> QED BY <1>2, InitCInv, NextCInv, PTL DEF Spec, FrozenKept

-----------------------------------------------------------------------------
(* The refinement.  Held is what the abstract store holds; the operators of   *)
(* BlockEntries mean the same there.                                          *)

Held == [h \in Hashes |-> IF status = "ok" THEN Entries(h) ELSE << >>]

LEMMA AbstractInit == Init => Abstract!Init
<1> SUFFICES ASSUME Init PROVE Abstract!Init
  OBVIOUS
<1>1. \A h \in Hashes : Entries(h) = << >>
  BY DEF Init, Entries
<1>2. status = "ok"
  BY DEF Init
<1> QED BY <1>1, <1>2 DEF Abstract!Init, Abstract!Nothing

LEMMA AbstractStoreContent ==
  ASSUME status = "ok", NEW h \in Hashes, StoresContent(h)
  PROVE  Abstract!StoreContent(h)
<1>1. status' = "ok"
  BY DEF StoresContent
<1>2. Held[h] = << >>
  BY DEF Held, StoresContent
<1>3. Held' = [Held EXCEPT ![h] = Abstract!Divided(h)]
  <2>1. Abstract!Divided(h) = Divided(h)
    BY DEF Abstract!Divided, Divided
  <2>2. Held' = [g \in Hashes |-> Entries(g)']
    BY <1>1 DEF Held
  <2>3. Held = [g \in Hashes |-> Entries(g)]
    BY DEF Held
  <2>4. \A g \in Hashes : Entries(g)' = IF g = h THEN Divided(h) ELSE Entries(g)
    BY DEF StoresContent, EntriesKept
  <2> QED BY <2>1, <2>2, <2>3, <2>4
<1> QED BY <1>1, <1>2, <1>3 DEF Abstract!StoreContent, Held

LEMMA AbstractStoreBlock ==
  ASSUME status = "ok", NEW h \in Hashes,
         NEW ref \in BlocksOf(h), NEW bytes \in BlocksOf(h), StoresBlock(h, ref, bytes)
  PROVE  Abstract!StoreBlock(ref, bytes)
<1>1. status' = "ok" /\ ref[1] = h
  BY DEF StoresBlock, BlocksOf
<1> DEFINE e == [index |-> 0, block |-> bytes]
<1>2. Abstract!WithBlock(Entries(h), ref, bytes) = Append(Entries(h), e)
  <2>1. Abstract!Matches(Entries(h), ref[2]) = {}
    BY DEF StoresBlock, Finds, Matches, Abstract!Matches
  <2> QED BY <2>1 DEF Abstract!WithBlock, Abstract!Finds
<1>3. Held[ref[1]] = Entries(h)
  BY <1>1 DEF Held
<1>4. Held' = [Held EXCEPT ![ref[1]] = Abstract!WithBlock(Held[ref[1]], ref, bytes)]
  <2>1. Held' = [g \in Hashes |-> Entries(g)']
    BY <1>1 DEF Held
  <2>2. Held = [g \in Hashes |-> Entries(g)]
    BY DEF Held
  <2>3. \A g \in Hashes :
          Entries(g)' = IF g = h THEN Append(Entries(h), e) ELSE Entries(g)
    BY DEF StoresBlock, EntriesKept
  <2> HIDE DEF e
  <2> QED BY <2>1, <2>2, <2>3, <1>1, <1>2, <1>3
<1> QED BY <1>1, <1>4 DEF Abstract!StoreBlock, Held

LEMMA AbstractStop ==
  ASSUME status = "ok", status' # "ok"
  PROVE  Abstract!Stop
BY DEF Abstract!Stop, Abstract!Nothing

LEMMA AbstractNext == CInv /\ [Next]_vars => [Abstract!Next]_(Abstract!vars)
<1> SUFFICES ASSUME CInv, [Next]_vars PROVE [Abstract!Next]_(Abstract!vars)
  OBVIOUS
<1>1. CASE UNCHANGED vars
  BY <1>1 DEF vars, Abstract!vars, Entries
<1>2. CASE status = "ok" /\ EntriesStep
  <2>1. ASSUME NEW h \in Hashes, StoresContent(h) PROVE Abstract!Next
    BY <2>1, <1>2, AbstractStoreContent DEF Abstract!Next
  <2>2. ASSUME NEW h \in Hashes, NEW ref \in BlocksOf(h), NEW bytes \in BlocksOf(h),
               StoresBlock(h, ref, bytes)
        PROVE  Abstract!Next
    <3>1. Abstract!StoreBlock(ref, bytes)
      BY <2>2, <1>2, AbstractStoreBlock
    <3>2. ref \in Abstract!BlocksOf(h) /\ bytes \in Abstract!BlocksOf(h)
      BY DEF BlocksOf, Abstract!BlocksOf
    <3> QED BY <3>1, <3>2 DEF Abstract!Next
  <2>3. CASE status' # "ok"
    BY <2>3, <1>2, AbstractStop DEF Abstract!Next
  <2>4. CASE Keeps /\ status' = "ok"
    BY <2>4, <1>2 DEF Abstract!vars, Keeps, EntriesKept
  <2> QED BY <1>2, <2>1, <2>2, <2>3, <2>4 DEF EntriesStep, Keeps
<1> QED BY <1>1, <1>2, NextEffect DEF CInv

\* Memory management is invisible to the callers of find() and store(): whatever a
\* cache does with its slots, the entries it holds are those of a BlockStore, until
\* an assertion or promote()'s loop stops the process.
THEOREM CacheImplementsBlockStore == Spec => ImplementsBlockStore
BY AbstractInit, AbstractNext, InitCInv, NextCInv, PTL
   DEF Spec, ImplementsBlockStore, Abstract!Spec
===============================================================================
