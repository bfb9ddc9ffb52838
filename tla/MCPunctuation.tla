----------------------------- MODULE MCPunctuation -----------------------------
(***************************************************************************)
(* Batches of two tokens and a limit of three: a text of three words after  *)
(* a cache of two makes three batches, of which a rest may grow past the    *)
(* limit and be cut at a comma.                                             *)
(***************************************************************************)
EXTENDS Punctuation
=============================================================================
