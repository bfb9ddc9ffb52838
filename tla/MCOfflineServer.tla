---------------------------- MODULE MCOfflineServer ----------------------------
(***************************************************************************)
(* Small instances of OfflineServer: two decoder threads, so that jobs of   *)
(* one connection, or of two, run side by side, and two settings of the     *)
(* VAD's options.                                                           *)
(***************************************************************************)
EXTENDS OfflineServer, TLC

CONSTANTS c1, c2, d1, d2

MCConns == {c1, c2}
MCOneConn == {c1}
MCDecoders == {d1, d2}
MCOptions == {"default", "short"}
MCOneOption == {"default"}

MCSymmetry == Permutations(MCConns) \cup Permutations(MCDecoders)
MCDecoderSymmetry == Permutations(MCDecoders)
=============================================================================
