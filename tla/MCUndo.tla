------------------------------- MODULE MCUndo -------------------------------
(***************************************************************************)
(* UndoHistory on a small instance.                                        *)
(***************************************************************************)
EXTENDS UndoHistory, TLC

ValueSymmetry == Permutations(Values)
=============================================================================
