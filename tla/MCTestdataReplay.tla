-------------------------- MODULE MCTestdataReplay -------------------------
(***************************************************************************)
(* A small instance of TestdataReplay for TLC: model values for the        *)
(* dissector threads, which are interchangeable.                           *)
(***************************************************************************)
EXTENDS TestdataReplay, TLC

CONSTANTS w1, w2

WorkerSymmetry == Permutations(Workers)
=============================================================================
