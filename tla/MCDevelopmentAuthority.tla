----------------------- MODULE MCDevelopmentAuthority -----------------------
(***************************************************************************)
(* Instances of DevelopmentAuthority.                                      *)
(***************************************************************************)
EXTENDS DevelopmentAuthority, TLC

MCSymmetry == Permutations(Procs)
=============================================================================
