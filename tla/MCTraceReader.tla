--------------------------- MODULE MCTraceReader ---------------------------
(***************************************************************************)
(* A trace of three blocks for TLC.  Two records fill a block and a decoded*)
(* block has three, so that one slot is never filled; two nested frames may*)
(* stay open over both ends of blocks, and the last block may be short.    *)
(***************************************************************************)
EXTENDS TraceReader, TLC

CONSTANTS f, g

MCFunctions == {f, g}
MCSymmetry == Permutations(MCFunctions)
=============================================================================
