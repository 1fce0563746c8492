------------------------------ MODULE NameMap ------------------------------
(***************************************************************************)
(* The array in which gdomap keeps registered names (Tools/gdomap.c): in   *)
(* the order of compare(), found by binary search.  A name is its rank in  *)
(* that order, so compare() is the comparison of two integers.  Places are *)
(* counted from 1; 0 is the null pointer.                                  *)
(***************************************************************************)
EXTENDS Lists

\* A mutant: every entry goes to the end.
AddPlace_End(map, name) == Len(map) + 1

\* The first entry that compare() finds greater, or the end: where map_add()
\* puts an entry.
AddPlace(map, name) ==
    CHOOSE i \in 1..Len(map) + 1 :
        /\ i <= Len(map) => map[i].name > name
        /\ \A j \in 1..i - 1 : map[j].name <= name

\* map_add(): the entries from that place on move up by one.
MapAdd(map, e) ==
    LET i == AddPlace(map, e.name)
    IN  [j \in 1..Len(map) + 1 |->
            IF j < i THEN map[j] ELSE IF j = i THEN e ELSE map[j - 1]]

\* map_del(): the entries behind it move down by one.
MapDel(map, i) ==
    [j \in 1..Len(map) - 1 |-> IF j < i THEN map[j] ELSE map[j + 1]]

\* map_by_name(): the index, from 0, at which the loop ends.
SearchIndex(map, name) ==
    BinarySearch(Len(map), {i \in 0..Len(map) - 1 : map[i + 1].name > name},
                           {i \in 0..Len(map) - 1 : map[i + 1].name < name})

MapByName(map, name) ==
    LET index == SearchIndex(map, name)
    IN  IF index < Len(map) /\ map[index + 1].name = name THEN index + 1 ELSE 0

\* map_by_port(), called until it finds nothing: what is left.
MapWithoutPort(map, port, type) ==
    Only(map, {i \in 1..Len(map) : ~(map[i].port = port /\ map[i].type = type)})

-----------------------------------------------------------------------------
\* The array is in order and holds a name at most once.
Sorted(map) == \A i, j \in 1..Len(map) : i < j => map[i].name <= map[j].name

NoNameTwice(map) == \A i, j \in 1..Len(map) : map[i].name = map[j].name => i = j
=============================================================================
