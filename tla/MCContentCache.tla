---------------------------- MODULE MCContentCache ----------------------------
(* Two contents of two blocks and one of one block, which is more than a      *)
(* bounded cache of four slots can hold.                                      *)
EXTENDS ContentCache, TLC

CONSTANTS hA, hB, hC

MCHashes     == {hA, hB, hC}
MCBlockCount == hA :> 2 @@ hB :> 2 @@ hC :> 1
MCShortLast  == {hA}

\* Callers store a block under its own reference; a block broadcast by a node
\* that found the wrong one arrives under the reference of another.
MCExact == {<<b, b>> : b \in Blocks}
MCMixed == MCExact \cup {<<<<hA, 0>>, <<hA, 1>>>>, <<<<hB, 1>>, <<hB, 0>>>>}
===============================================================================
