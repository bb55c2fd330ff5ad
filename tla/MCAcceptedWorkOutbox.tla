----------------------- MODULE MCAcceptedWorkOutbox -----------------------
(***************************************************************************)
(* Small instances of AcceptedWorkOutbox for TLC.                          *)
(***************************************************************************)
EXTENDS AcceptedWorkOutbox, TLC

\* Workers that do not stop are compared and never ordered, so they may be permuted.
Identifiers == Permutations(Workers \ Crashable)
=============================================================================
