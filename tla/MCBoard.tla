------------------------------- MODULE MCBoard -------------------------------
(***************************************************************************)
(* Small boards for TLC.  Column keys are interchangeable: no action or    *)
(* property names one.                                                     *)
(***************************************************************************)
EXTENDS Board, TLC

KeySymmetry == Permutations(Keys)
=============================================================================
