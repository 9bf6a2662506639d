---------------------------- MODULE MCTreeHistory ----------------------------
EXTENDS TreeHistory

O(id, payload) == [id |-> id, kind |-> 1, payload |-> payload]
X == [t |-> "data", v |-> "x"]

\* Two leaves and a root over them; without object 2 a single leaf.
MCGenesis == {{O(1, <<X>>), O(2, <<>>), O(3, <<X>>)}}
MCPuts == {O(3, <<[t |-> "copy"]>>)}
U(puts, deletes) == [puts |-> puts, deletes |-> deletes]
\* Tails of every kind: an insertion splits a leaf or finds room, a deletion merges, or
\* borrows from the left or the right, or leaves the root with one child.
MCPublished == {U({O(4, <<X>>)}, {}), U({}, {2})}
MCPlanned ==
    {U({O(1, <<X>>)}, {}), U({O(4, <<X>>)}, {}), U({O(1, <<>>), O(4, <<X>>)}, {}), U({}, {1}),
     U({O(1, <<X>>)}, {2})}
MCUpdates ==
    MCPlanned \cup {U({o}, {}) : o \in MCPuts} \cup {U({o}, {2}) : o \in MCPuts} \cup
    MCPublished \cup {U({O(5, <<>>)}, {}), U({}, {3}), U({}, {7}), U({O(4, <<>>), O(5, <<>>)}, {}),
                     U({O(1, <<>>)}, {7}), U({O(2, <<>>)}, {2}),
                     U({[O(1, <<>>) EXCEPT !.kind = 0]}, {7}), U({}, {1, 2, 3})}
MCSelections == {{1}, {1, 4}}
MCSequences == {<<1, 0>>}
MCLimits == [file |-> 60, output |-> 60, pages |-> 9, depth |-> 3, objects |-> 6,
             alloc |-> 40, history |-> 3, scan |-> 26, attempts |-> 4, candidates |-> 2,
             ops |-> 300, units |-> 900, request |-> 3]
=============================================================================
