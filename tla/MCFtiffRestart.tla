-------------------------- MODULE MCFtiffRestart ---------------------------
(***************************************************************************)
(* FtiffRestart with what a configuration file cannot spell: the           *)
(* variables are interchangeable, as files only hold sets of them and no   *)
(* property names one.                                                     *)
(***************************************************************************)
EXTENDS FtiffRestart, TLC

VarSymmetry == Permutations(Var)
=============================================================================
