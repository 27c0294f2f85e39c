----------------------------- MODULE BlockEntries -----------------------------
(***************************************************************************)
(* What the cache of src/src/ccn/contentcache.cpp knows of one content: a  *)
(* list of entries in the order they were stored.                          *)
(*                                                                         *)
(* An entry is the pair of the block_index kept in a slot, which find()    *)
(* compares with, and the block whose bytes the slot holds.  The two       *)
(* differ: the block-wise store() never writes block_index, so a received  *)
(* block keeps the 0 its slot was created with.  Bytes may also arrive     *)
(* under the reference of another block of the same content, once such an  *)
(* entry has been broadcast.                                               *)
(***************************************************************************)
EXTENDS Integers, Sequences, FiniteSets

CONSTANTS Hashes,       \* content hashes
          BlockCount,   \* BlockCount[h]: number of blocks of content h
          ShortLast     \* contents whose last block is shorter than block_size

ASSUME BlockAssumption ==
  /\ BlockCount \in [Hashes -> Nat \ {0}]
  /\ ShortLast \subseteq Hashes

\* A block reference (hash, index); indices count from 0.
BlocksOf(h) == {h} \X (0..BlockCount[h] - 1)
Blocks == UNION {BlocksOf(h) : h \in Hashes}

Entry == [index : Nat, block : Blocks]

-----------------------------------------------------------------------------
(* Operations on the list of entries of one content *)

\* The positions find() could stop at, and whether it finds anything.
Matches(entries, i) == {k \in DOMAIN entries : entries[k].index = i}
Finds(entries, i)   == Matches(entries, i) # {}

\* The block whose bytes find() returns for index i: the first match.
Found(entries, i) ==
  entries[CHOOSE k \in Matches(entries, i) :
            \A j \in Matches(entries, i) : k <= j].block

\* Content divided into blocks by the whole-content store().
Divided(h) == [k \in 1..BlockCount[h] |-> [index |-> k - 1, block |-> <<h, k - 1>>]]

\* Mutant: whatever arrives is added.
MutantWithBlock(entries, ref, bytes) == Append(entries, [index |-> 0, block |-> bytes])

\* Bytes added by the block-wise store(), unless an entry is found for the index.
WithBlock(entries, ref, bytes) ==
  IF Finds(entries, ref[2]) THEN entries
                            ELSE Append(entries, [index |-> 0, block |-> bytes])

\* validate_data(): as many entries as blocks, and then the sizes must add up,
\* which they do when exactly one entry is the last block or when that block is
\* as long as the others.
CountMatches(entries, h) == entries # << >> /\ Len(entries) = BlockCount[h]

LastBlocks(entries, h) ==
  {k \in DOMAIN entries : entries[k].block = <<h, BlockCount[h] - 1>>}

SizeMatches(entries, h) == h \notin ShortLast \/ Cardinality(LastBlocks(entries, h)) = 1
===============================================================================
