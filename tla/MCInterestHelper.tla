--------------------------- MODULE MCInterestHelper ---------------------------
(* Times are scaled: an interest lives for 3 ticks instead of 120 s.           *)
EXTENDS InterestHelper

CONSTANTS n1, n2, fav, other

\* What bytes misread as an interest may look like: an interest with the longest ttl.
MCGarbage == {[type |-> fav, ttl |-> TTLRange - 1, hops |-> 0]}

MCNodes == {n1, n2}
MCTypes == {fav, other}
===============================================================================
