----------------------------- MODULE MCFluxRepo -----------------------------
(***************************************************************************)
(* FluxRepo for TLC.  Processes, file names and file contents are          *)
(* interchangeable: no definition names one of them.                       *)
(***************************************************************************)
EXTENDS FluxRepo, TLC

Symmetries == Permutations(Proc) \cup Permutations(Name) \cup Permutations(Data)
=============================================================================
