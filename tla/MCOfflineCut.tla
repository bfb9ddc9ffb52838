----------------------------- MODULE MCOfflineCut -----------------------------
(***************************************************************************)
(* Small instances of OfflineCut: lengths that are a multiple of a second,  *)
(* one sample less, one more, and short of a second.                        *)
(***************************************************************************)
EXTENDS OfflineCut
MCLengths == {1, 5, 11, 12, 13}
MCBatchSizes == {1, 3}
=============================================================================
