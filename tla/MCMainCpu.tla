------------------------------ MODULE MCMainCpu ------------------------------
(* The main CPU for TLC: its chips differ in nothing but their names.        *)
EXTENDS MainCpu, TLC

MCSymmetry == Permutations(Lines)
=============================================================================
