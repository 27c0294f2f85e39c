------------------------------ MODULE BlockStore ------------------------------
(***************************************************************************)
(* What a ContentCache (src/src/ccn/contentcache.cpp) looks like from the  *)
(* outside: for every content hash the list of entries cached for it.  The *)
(* memory management behind it, slots, the free list and the occupied      *)
(* list, is in ContentCache, which implements this module.                 *)
(***************************************************************************)
EXTENDS BlockEntries

VARIABLES held,     \* held[h]: the entries of content h
          status    \* "ok", or "stopped" once an assertion failed or a loop spins

vars == <<held, status>>

Nothing == [h \in Hashes |-> << >>]

TypeOK ==
  /\ held \in [Hashes -> Seq(Entry)]
  /\ status \in {"ok", "stopped"}

Init ==
  /\ held = Nothing
  /\ status = "ok"

\* store(src, size): whole content, ignored when anything of it is held.
StoreContent(h) ==
  /\ status = "ok"
  /\ held[h] = << >>
  /\ held' = [held EXCEPT ![h] = Divided(h)]
  /\ UNCHANGED status

\* store(ref, expected_size, src, size): the bytes of one block.
StoreBlock(ref, bytes) ==
  /\ status = "ok"
  /\ held' = [held EXCEPT ![ref[1]] = WithBlock(held[ref[1]], ref, bytes)]
  /\ UNCHANGED status

\* The process stops and what it held is gone.
Stop ==
  /\ status = "ok"
  /\ status' = "stopped"
  /\ held' = Nothing

Next ==
  \/ \E h \in Hashes : StoreContent(h)
  \/ \E h \in Hashes : \E ref, bytes \in BlocksOf(h) : StoreBlock(ref, bytes)
  \/ Stop

Spec == Init /\ [][Next]_vars
===============================================================================
