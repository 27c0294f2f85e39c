-------------------------- MODULE MCMetadataExchange --------------------------
(* One content, published by n1.  Times and the fetch batch are scaled down.  *)
EXTENDS MetadataExchange

CONSTANTS n1, n2, n3, hA

MCNodes      == {n1, n2, n3}
MCHashes     == {hA}
MCBlockCount == hA :> 2
MCPublisher  == hA :> n1
MCTriangle   == n1 :> {n2, n3} @@ n2 :> {n1, n3} @@ n3 :> {n1, n2}
===============================================================================
