---------------------------- MODULE MCOnlineFeats ----------------------------
(***************************************************************************)
(* The sizes of the code in units of 80 samples (5 ms): frames of 5 every   *)
(* 2, blocks of 10 for the VAD, chunks of 120 for the recogniser with its   *)
(* default chunk_size 5, 10, 5.  A piece in the middle of an utterance is a *)
(* whole chunk; a last one has any length up to one sample more, a segment  *)
(* told as a whole up to 900 ms.                                            *)
(***************************************************************************)
EXTENDS OnlineFeats
MCBlocks == {9, 10, 11, 20}
MCLastBlocks == 0..11 \cup {20}
MCPieces == {120}
MCRests == 0..13 \cup {60, 61, 72, 73, 84, 85, 119, 120, 121, 150, 180}
=============================================================================
