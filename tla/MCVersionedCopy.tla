--------------------------- MODULE MCVersionedCopy ---------------------------
EXTENDS VersionedCopy, TLC

\* The pinned contents, one that shares its first range, a shorter one, and
\* the pinned contents again under another token; last an empty object.
MCBytes == 0 :> <<11, 12>> @@ 1 :> <<11, 13>> @@ 2 :> <<11>> @@ 3 :> <<11, 12>> @@ 4 :> <<>>

\* A pinned base of two ranges, and one of length zero.
MCIdentities == {<<11, 12>>, <<>>}
MCTail == <<21, 22>>
=============================================================================
