------------------------- MODULE MCForwardScheduler -------------------------
(* Two neighbours and two blocks: long and short requests, alone and in one   *)
(* message.  An interval of 1000 ms is observed after 1 ms and before its end.  *)
EXTENDS ForwardScheduler

CONSTANTS n1, n2, bA, bB

Request(b, ttl) == [block |-> b, left |-> ttl]

MCNeighbors == {n1, n2}
MCBlocks    == {bA, bB}
MCSymmetry  == Permutations(MCNeighbors)
MCPhases    == <<1, 998, 1>>
MCMessages  == {<<Request(bA, 1)>>, <<Request(bA, 1500)>>,
                <<Request(bB, 1000), Request(bA, 1)>>}
=============================================================================
