------------------------- MODULE MCSequentialStream -------------------------
EXTENDS SequentialStream

MCByte(v) == [t |-> "byte", v |-> v]
MCPayloads == {<<>>, <<MCByte(1)>>, <<MCByte(0), MCByte(1), MCByte(0)>>}
MCManifests == {[roots |-> {1}, required |-> {}], [roots |-> {1, 2}, required |-> {7}],
                [roots |-> {0}, required |-> {}]}

\* Nothing is refused, and payloads are read in chunks of two.
MCGenerous == [name \in LimitNames |-> CASE name = "chunk" -> 2 [] name = "read" -> 198
                                           [] OTHER -> 99]
MCTight == {[MCGenerous EXCEPT !.chunk = 0],
            [MCGenerous EXCEPT !.file = 8, !.metadata = 2],
            [MCGenerous EXCEPT !.read = 9, !.logical = 4, !.alloc = 1],
            [MCGenerous EXCEPT !.records = 2, !.payload = 2]}

MCHarms == {"more", "cut", "changed", "lost"}
MCUnharmed == {[writer |-> MCGenerous, reader |-> MCGenerous, harm |-> {}]}
MCJobs == {[writer |-> MCGenerous, reader |-> MCGenerous, harm |-> MCHarms]}
          \cup {[writer |-> MCGenerous, reader |-> limits, harm |-> {}] : limits \in MCTight}
          \cup {[writer |-> limits, reader |-> MCGenerous, harm |-> {}] : limits \in MCTight}

\* Files of another implementation: the footer may name an object that is no manifest;
\* between the object and the manifest of a second file stands a manifest with a root
\* that is zero, which the footer may name, or one that is only bytes, or a directory.
MCObject == [kind |-> "Opaque", id |-> 1, payload |-> <<MCByte(0)>>]
MCManifest(id, m) == [kind |-> "Manifest", id |-> id, payload |-> EncodeManifest(m)]
MCLast == MCManifest(2, [roots |-> {1}, required |-> {}])
MCBetween ==
    {MCManifest(3, [roots |-> {0}, required |-> {}]),
     [kind |-> "Manifest", id |-> 3, payload |-> <<MCByte(1)>>],
     [kind |-> "Directory", id |-> 0, payload |-> EncodeDirectory(<<Entry("Opaque", 1, 1, 1)>>)]}

MCForeign ==
    {[records |-> <<MCObject, MCLast>>, manifest |-> id] : id \in {1, 2}}
    \cup {[records |-> <<MCObject, r, MCLast>>, manifest |-> id] :
             r \in MCBetween, id \in {2, 3}}
=============================================================================
