------------------------------- MODULE Lists -------------------------------
(***************************************************************************)
(* What several parts of the library do with their lists: take elements    *)
(* out of one, and search one that is in order.                            *)
(***************************************************************************)
EXTENDS Integers, Sequences

\* What is left of a list when only the elements at some places stay in it, in order.
Only(list, places) ==
    LET only[n \in 0..Len(list)] ==
            IF n = 0 THEN <<>>
            ELSE IF n \in places THEN Append(only[n - 1], list[n])
            ELSE only[n - 1]
    IN  only[Len(list)]

\* The elements of s are all different.
Distinct(s) == \A i, j \in DOMAIN s : s[i] = s[j] => i = j

\* What is left to be searched: <<lower, upper>>, indices from 0 as in the code.
Intervals(n) == {b \in (0..n) \X (0..n) : b[1] <= b[2]}

Middle(b) == b[1] + (b[2] - b[1]) \div 2

\* The loop of a binary search of n elements: the index at which it ends.  It goes on
\* below an index of lefts and above one of rights, and ends at any other.
BinarySearch(n, lefts, rights) ==
    LET search[b \in Intervals(n)] ==
            LET index == Middle(b)
            IN  IF b[1] = b[2] THEN index
                ELSE IF index \in lefts THEN search[<<b[1], index>>]
                ELSE IF index \in rights THEN search[<<index + 1, b[2]>>]
                ELSE index
    IN  search[<<0, n>>]
=============================================================================
