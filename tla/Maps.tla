-------------------------------- MODULE Maps --------------------------------
(***************************************************************************)
(* Go maps and SQL tables with a primary key: functions whose domain is    *)
(* the set of keys present.                                                *)
(***************************************************************************)
EXTENDS Functions

\* m[k] = v for a map m, and delete(m, k) for every k in S.
Put(m, k, v) == [x \in DOMAIN m \cup {k} |-> IF x = k THEN v ELSE m[x]]
Without(m, S) == Restrict(m, DOMAIN m \ S)

\* A row after UPDATE ... SET for the columns in the domain of set.
Merge(row, set) ==
    [c \in DOMAIN row |-> IF c \in DOMAIN set THEN set[c] ELSE row[c]]
=============================================================================
