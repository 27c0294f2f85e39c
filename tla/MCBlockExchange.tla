--------------------------- MODULE MCBlockExchange ---------------------------
(* Two networks: a pair that exchanges a content of two blocks, asked for up *)
(* to three times, and a chain of three nodes that relays a content of one.  *)
EXTENDS BlockExchange

CONSTANTS n1, n2, n3, hA, hB

MCNodes      == {n1, n2, n3}
MCHashes     == {hA, hB}
MCBlockCount == hA :> 2 @@ hB :> 1
MCPublisher  == hA :> n1 @@ hB :> n1

Pair  == [reach |-> n1 :> {n2} @@ n2 :> {n1}, contents |-> {hA}, asks |-> 3]
Chain == [reach |-> n1 :> {n2} @@ n2 :> {n1, n3} @@ n3 :> {n2},
          contents |-> {hB}, asks |-> 1]

MCPairAndChain == {Pair, Chain}
MCPair         == {Pair}
===============================================================================
