-------------------------------- MODULE Lists --------------------------------
(***************************************************************************)
(* What the program does to its deques, lists and vectors in a loop over   *)
(* all entries, as a recursive function on the prefixes of the list.       *)
(***************************************************************************)
EXTENDS Naturals, Sequences

\* The entries of s that are in S, in order: an erase while iterating, or a copy
\* of the entries that pass a test.
Only(s, S) ==
  LET only[k \in 0..Len(s)] ==
        IF k = 0 THEN << >>
        ELSE IF s[k] \in S THEN Append(only[k - 1], s[k]) ELSE only[k - 1]
  IN  only[Len(s)]
===============================================================================
