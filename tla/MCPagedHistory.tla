--------------------------- MODULE MCPagedHistory ---------------------------
EXTENDS PagedHistory

O(id, data) == [id |-> id, data |-> data]

\* Two and three leaves, an empty payload, a payload that is a footer, a duplicate.
MCBatches == {{O(1, "x"), O(3, "none")}, {O(2, "footer")}, {O(4, "y"), O(5, "none"), O(6, "x")},
              {}, {O(3, "x"), O(3, "y")}}

MCRootSets == {{1}, {1, 3}, {2, 3}}

MCLimits == [file |-> 60, commit |-> 40, pages |-> 9, depth |-> 4, objects |-> 8, payload |-> 9,
             hashed |-> 90, roots |-> 4, pagereads |-> 9, ops |-> 90, read |-> 120, block |-> 3,
             request |-> 4]

MCRecovery == [scan |-> 22, matches |-> 5, tried |-> 5, results |-> 2, read |-> 60, scanreads |-> 9,
               candidates |-> 60, depth |-> 2, chain |-> 60]
=============================================================================
