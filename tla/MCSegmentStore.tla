--------------------------- MODULE MCSegmentStore ---------------------------
(* Small instances of SegmentStore for TLC. *)
EXTENDS SegmentStoreInvariant, TLC

B(t, v) == [t |-> t, v |-> v]

\* A batch that overlaps the tail, one that conflicts with it, an empty one.
MCAppendInputs == {<<B(1, 1), B(2, 1)>>, <<B(2, 2)>>, <<>>}
MCReplaceInputs == {<<B(1, 1)>>}
MCUpsertInputs == {B(1, 1)}
MCLegacyRows == {<<B(1, 1)>>}

Symmetry == Permutations(Proc) \cup Permutations(Inodes)
=============================================================================
