---------------------------- MODULE MCTreeUpdate ----------------------------
EXTENDS TreeUpdate

MCIds == 1..10

MCOps(ids, op) == {[id |-> i, op |-> op] : i \in ids}
MCPlain == MCOps(Ids, "put") \cup MCOps(Ids, "delete")
MCBad == [id |-> 1, op |-> "badput"]
\* Any operation alone or with one on three of the ids, runs of neighbouring ids
\* put or deleted, a run deleted with one object put; nothing at all, and a put of
\* kind zero.
MCBatches ==
    {{o} : o \in MCPlain}
    \cup {{o, q} : o \in MCPlain, q \in {p \in MCPlain : p.id \in {2, 5, 8}}}
    \cup {MCOps(i..j, op) : i \in Ids, j \in Ids, op \in {"put", "delete"}}
    \cup {MCOps(i..(i + 2), "delete") \cup MCOps({j}, "put") :
             i \in {2, 4, 6}, j \in {1, 5, 8}}
    \cup {{}, {MCBad}, {MCBad, [id |-> 1, op |-> "put"]}, {MCBad, [id |-> 3, op |-> "delete"]}}
=============================================================================
