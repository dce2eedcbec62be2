--------------------------- MODULE MCBlockLoader ---------------------------
(***************************************************************************)
(* Instances of BlockLoader for TLC.  A view of two blocks is detailed only *)
(* when it reaches past the end of what is loaded.                         *)
(***************************************************************************)
EXTENDS BlockLoader

LastViews  == [start: {1, 2}, width: {2}]
CloseViews == [start: {0, 1, 2}, width: {1}]
=============================================================================
