----------------------------- MODULE ContentCache -----------------------------
(***************************************************************************)
(* The slot cache of src/src/ccn/contentcache.cpp.  A node has two of      *)
(* them: `cache`, bounded to 16 slots, and `store`, which grows without    *)
(* bound (capacity 0).                                                   *)
(*                                                                         *)
(* Slots are numbered from 1 where the code counts from 0.  The bytes in a *)
(* slot are the block they belong to; a slot is always filled completely,  *)
(* as every caller passes size = expected_size.  The build has assertions  *)
(* on: a failed assertion ends the process with the state as it is at the  *)
(* assertion.                                                              *)
(***************************************************************************)
EXTENDS BlockEntries, Functions, Lists

CONSTANTS Capacities,   \* slots a cache may be constructed with; 0: unbounded
          Deliveries,   \* (reference, bytes) pairs the block-wise store() may get
          MaxSlots      \* bound: an unbounded cache grows up to here

ASSUME CacheAssumption ==
  /\ Capacities \subseteq Nat
  /\ \A d \in Deliveries : \E h \in Hashes : d \in BlocksOf(h) \X BlocksOf(h)
  /\ MaxSlots \in Nat

NoBlock == <<>>

Slot == [block_index : Nat, block : Blocks \cup {NoBlock}, frozen : BOOLEAN]
EmptySlot == [block_index |-> 0, block |-> NoBlock, frozen |-> FALSE]

VARIABLES capacity,       \* the slots of a bounded cache, 0 for an unbounded one
          slots,          \* the slots allocated so far
          free_idxs,      \* indices of the free ones; taken from the back
          occupied_idxs,  \* indices of the occupied ones, most recent first
          content,        \* content[h]: the slots of content h; << >> when unknown
          status          \* "ok", "aborted" (failed assertion) or "hung"

vars == <<capacity, slots, free_idxs, occupied_idxs, content, status>>

SlotIds == DOMAIN slots

TypeOK ==
  /\ capacity \in Capacities
  /\ slots \in Seq(Slot)
  /\ free_idxs \in Seq(SlotIds)
  /\ status # "aborted" => occupied_idxs \in Seq(SlotIds)
  /\ content \in [Hashes -> Seq(SlotIds)]
  /\ status \in {"ok", "aborted", "hung"}

Init ==
  /\ capacity \in Capacities
  /\ slots = [k \in 1..capacity |-> EmptySlot]
  /\ free_idxs = [k \in 1..capacity |-> k]
  /\ occupied_idxs = << >>
  /\ content = [h \in Hashes |-> << >>]
  /\ status = "ok"

-----------------------------------------------------------------------------
(* Making room: grow_to_fit, free_slots and ensure_capacity map the pool   *)
(* (slots, free list, occupied list) to a new pool.                        *)

Pool == [slots |-> slots, free |-> free_idxs, occupied |-> occupied_idxs]

\* Mutants: the new indices are one too high, or continue the free list.
MutantGrown(missing) ==
  [slots    |-> slots \o [k \in 1..missing |-> EmptySlot],
   free     |-> free_idxs \o [k \in 1..missing |-> Len(slots) + k + 1],
   occupied |-> occupied_idxs]

MutantGrownFromFree(missing) ==
  [slots    |-> slots \o [k \in 1..missing |-> EmptySlot],
   free     |-> free_idxs \o [k \in 1..missing |-> Len(free_idxs) + k],
   occupied |-> occupied_idxs]

\* An unbounded cache appends empty slots, and their indices to the free list.
Grown(missing) ==
  [slots    |-> slots \o [k \in 1..missing |-> EmptySlot],
   free     |-> free_idxs \o [k \in 1..missing |-> Len(slots) + k],
   occupied |-> occupied_idxs]

\* Mutant: frozen slots are evicted too.
MutantEvicted(missing) ==
  {occupied_idxs[k] : k \in {j \in DOMAIN occupied_idxs : j > Len(occupied_idxs) - missing}}

\* A bounded cache walks the last `missing` occupied slots from the tail, wipes
\* those that are not frozen and takes them off the occupied list.
Evicted(missing) ==
  {s \in SlotIds : ~slots[s].frozen
      /\ \E k \in DOMAIN occupied_idxs :
            k > Len(occupied_idxs) - missing /\ occupied_idxs[k] = s}

Wiped(evicted) ==
  [s \in SlotIds |->
     IF s \in evicted
     THEN [slots[s] EXCEPT !.block_index = 0, !.block = NoBlock]
     ELSE slots[s]]

Freed(missing) ==
  [slots    |-> Wiped(Evicted(missing)),
   free     |-> free_idxs,
   occupied |-> Only(occupied_idxs, SlotIds \ Evicted(missing))]

EnsureCapacity(count) ==
  IF Len(free_idxs) >= count THEN Pool
  ELSE IF capacity = 0 THEN Grown(count - Len(free_idxs))
  ELSE Freed(count - Len(free_idxs))

-----------------------------------------------------------------------------
(* Operations *)

Abort ==
  /\ status' = "aborted"
  /\ UNCHANGED <<capacity, slots, free_idxs, occupied_idxs, content>>

\* The assertion of reserve_slot(s) fails: "cache is full and no slots can be
\* freed".
CannotReserve(count) ==
  LET p == EnsureCapacity(count)
  IN  /\ Len(p.free) < count
      /\ slots' = p.slots
      /\ free_idxs' = p.free
      /\ occupied_idxs' = p.occupied
      /\ status' = "aborted"
      /\ UNCHANGED <<capacity, content>>

\* The slots reserve_slots(count) returns: the last `count` of the free list.
Taken(p, count) == SubSeq(p.free, Len(p.free) - count + 1, Len(p.free))

\* reserve_slots(count) succeeds; `filled` is what the caller makes of the slots
\* and h the content it adds them to.
Reserve(count, h, filled(_)) ==
  LET p     == EnsureCapacity(count)
      taken == Taken(p, count)
  IN  /\ Len(p.free) >= count
      /\ Len(p.slots) <= capacity + MaxSlots
      /\ slots' = filled(p)
      /\ free_idxs' = SubSeq(p.free, 1, Len(p.free) - count)
      /\ occupied_idxs' = taken \o p.occupied
      /\ content' = [content EXCEPT ![h] = @ \o taken]
      /\ UNCHANGED <<capacity, status>>

\* The loop of store(src, size) over the slots it has reserved.
FilledWithContent(h, p) ==
  LET taken == Taken(p, BlockCount[h])
  IN  [s \in DOMAIN p.slots |->
         IF \E k \in DOMAIN taken : taken[k] = s
         THEN LET i == (CHOOSE k \in DOMAIN taken : taken[k] = s) - 1
              IN  [p.slots[s] EXCEPT !.block_index = i, !.block = <<h, i>>]
         ELSE p.slots[s]]

\* store(src, size): divide a whole content into blocks.
StoreContent(h) ==
  /\ status = "ok"
  /\ content[h] = << >>
  /\ \/ Reserve(BlockCount[h], h, LAMBDA p : FilledWithContent(h, p))
     \/ CannotReserve(BlockCount[h])

\* store(src, size) of a hash that is known: nothing is overwritten, and the
\* number of blocks is asserted.
StoreKnownContent(h) ==
  /\ status = "ok"
  /\ content[h] # << >>
  /\ IF Len(content[h]) = BlockCount[h] THEN UNCHANGED vars ELSE Abort

\* The slots of h that find() accepts for block index i.
SlotsFor(h, i) == {k \in DOMAIN content[h] : slots[content[h][k]].block_index = i}

\* find(): the slot of the first entry with that block_index.
FoundSlot(h, i) ==
  content[h][CHOOSE k \in SlotsFor(h, i) : \A j \in SlotsFor(h, i) : k <= j]

\* The slot the block-wise store() writes to: its bytes, not its block_index.
FilledWithBlock(ref, bytes, p) ==
  [p.slots EXCEPT ![Taken(p, 1)[1]].block = bytes]

\* Mutant: no look for a slot with that index.
MutantStoreBlock(ref, bytes) ==
  /\ status = "ok"
  /\ \/ Reserve(1, ref[1], LAMBDA p : FilledWithBlock(ref, bytes, p))
     \/ CannotReserve(1)

\* store(ref, expected_size, src, size): the bytes of one block; returns end()
\* when a slot is found for the index.
StoreBlock(ref, bytes) ==
  /\ status = "ok"
  /\ IF SlotsFor(ref[1], ref[2]) # {}
     THEN UNCHANGED vars
     ELSE \/ Reserve(1, ref[1], LAMBDA p : FilledWithBlock(ref, bytes, p))
          \/ CannotReserve(1)

\* promote(): the iterator is advanced twice per round, so of the 0-based
\* positions only the even ones are looked at.  With an odd number of entries
\* it steps over end() and starts again.
Position(s) == CHOOSE k \in DOMAIN occupied_idxs : occupied_idxs[k] = s
Seen(s)  == Position(s) % 2 = 1
Spins(s) == ~Seen(s) /\ Len(occupied_idxs) % 2 = 1

\* The mutant does not erase the slot where it was.
MutantPromoted(s) == IF Seen(s) THEN <<s>> \o occupied_idxs ELSE occupied_idxs

Promoted(s) ==
  IF Seen(s)
  THEN [k \in DOMAIN occupied_idxs |->
          IF k = 1 THEN s
          ELSE IF k <= Position(s) THEN occupied_idxs[k - 1]
          ELSE occupied_idxs[k]]
  ELSE occupied_idxs

\* ContentHelperImpl::frozen() on a block that is found: freezing promotes.
SetFrozen(b, enable) ==
  /\ status = "ok"
  /\ SlotsFor(b[1], b[2]) # {}
  /\ LET s == FoundSlot(b[1], b[2])
     IN  /\ slots' = [slots EXCEPT ![s].frozen = enable]
         /\ occupied_idxs' = IF enable /\ ~Spins(s) THEN Promoted(s)
                                                   ELSE occupied_idxs
         /\ status' = IF enable /\ Spins(s) THEN "hung" ELSE "ok"
         /\ UNCHANGED <<capacity, free_idxs, content>>

\* The entries of a content, in order, as BlockEntries has them.
Entries(h) ==
  [k \in DOMAIN content[h] |->
     [index |-> slots[content[h][k]].block_index,
      block |-> slots[content[h][k]].block]]

\* validate_data()
ValidateData(h) ==
  /\ status = "ok"
  /\ IF CountMatches(Entries(h), h) /\ ~SizeMatches(Entries(h), h)
     THEN Abort ELSE UNCHANGED vars

Next ==
  \/ \E h \in Hashes : StoreContent(h) \/ StoreKnownContent(h) \/ ValidateData(h)
  \/ \E d \in Deliveries : StoreBlock(d[1], d[2])
  \/ \E b \in Blocks, enable \in BOOLEAN : SetFrozen(b, enable)

Spec == Init /\ [][Next]_vars

-----------------------------------------------------------------------------
(* Properties *)

\* Until an assertion fails, the free and the occupied list partition the slots
\* and name no slot twice (reserve_slot(s), grow_to_fit, promote).
SlotsPartitioned ==
  status # "aborted" =>
    /\ IsInjective(free_idxs)
    /\ IsInjective(occupied_idxs)
    /\ Range(free_idxs) \cap Range(occupied_idxs) = {}
    /\ Range(free_idxs) \cup Range(occupied_idxs) = SlotIds

\* Every occupied slot belongs to exactly one content, once, and holds a block
\* of that content; no content refers to a slot that is not occupied.  This is
\* what lets find() hand out slot indices that outlive the call (BlockData).
SingleOwner ==
  status # "aborted" =>
    /\ \A h \in Hashes : \A k \in DOMAIN content[h] :
         /\ content[h][k] \in Range(occupied_idxs)
         /\ slots[content[h][k]].block \in BlocksOf(h)
    /\ \A s \in Range(occupied_idxs) :
         \E h \in Hashes : s \in Range(content[h])
    /\ \A g, h \in Hashes : \A j \in DOMAIN content[g], k \in DOMAIN content[h] :
         content[g][j] = content[h][k] => g = h /\ j = k

\* Only a content stored whole has slots for an index above 0, and all of it is
\* then found and right, also after blocks of it arrive again.  (Received blocks
\* all carry index 0.)
WholeAboveZero ==
  status # "aborted" =>
    \A h \in Hashes : \A i \in 1..BlockCount[h] - 1 :
      SlotsFor(h, i) # {} =>
        /\ Len(content[h]) = BlockCount[h]
        /\ \A j \in 0..BlockCount[h] - 1 :
              SlotsFor(h, j) # {} /\ slots[FoundSlot(h, j)].block = <<h, j>>

\* "True if this slot can't be evicted or recycled" (contentcache.hpp): no step
\* changes the data of a frozen slot or takes it off the occupied list.
FrozenKept ==
  [][\A s \in SlotIds :
       slots[s].frozen => /\ slots'[s].block = slots[s].block
                          /\ s \in Range(occupied_idxs')]_vars

\* Memory management is invisible to the callers of find() and store(): what a
\* cache holds is what a BlockStore holds.
Abstract == INSTANCE BlockStore WITH
  held   <- [h \in Hashes |-> IF status = "ok" THEN Entries(h) ELSE << >>],
  status <- IF status = "ok" THEN "ok" ELSE "stopped"

ImplementsBlockStore == Abstract!Spec

\* "When a bounded cache is full it will overwrite these from the tail"
\* (contentcache.hpp): storing one block in a full cache with a slot that is not
\* frozen does not end the process.  The code violates it.
FullCacheMakesRoom ==
  [][\A b \in Blocks :
       (/\ StoreBlock(b, b)
        /\ \A s \in SlotIds : ~slots[s].frozen) => status' = "ok"]_vars

===============================================================================
