----------------------------- MODULE MCTpassServer -----------------------------
(***************************************************************************)
(* Small instances of TpassServer.  Setp is two units of audio: the         *)
(* messages of MCMsgSizes then exercise every branch of the cut.  Exactly   *)
(* one Setp waits (it is not strictly more than Setp), one unit more leaves *)
(* a rest, and two Setps are cut as one job of two recogniser calls.        *)
(***************************************************************************)
EXTENDS TpassServer, TLC

CONSTANTS c1, c2, d1, d2

MCConns == {c1, c2}
MCOneConn == {c1}
MCDecoders == {d1, d2}
MCOneDecoder == {d1}
MCOneSize == {3}
MCChunks == {"absent", "valid", "wrong"}
MCValidChunk == {"valid"}
MCMsgSizes == {2, 3}

\* Neither the handles nor the threads are told apart by any property of the
\* runs that use the symmetry; none of those properties is a liveness property.
MCConnSymmetry == Permutations(MCConns)
MCDecoderSymmetry == Permutations(MCDecoders)
=============================================================================
