------------------------ MODULE MCSegmentStoreEdited ------------------------
(* A small instance of SegmentStoreEdited for TLC. *)
EXTENDS SegmentStoreEdited

B(t, v) == [t |-> t, v |-> v]

MCAppendInputs == {<<B(1, 1), B(2, 1)>>}
MCReplaceInputs == {<<B(1, 1)>>}
MCLegacyRows == {<<B(1, 1)>>}
=============================================================================
