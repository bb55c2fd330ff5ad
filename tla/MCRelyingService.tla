-------------------------- MODULE MCRelyingService --------------------------
(***************************************************************************)
(* Small instances of RelyingService for TLC.                              *)
(***************************************************************************)
EXTENDS RelyingService, TLC

\* Every pass of the instance is for one action.
OneAction == [p \in Passes |-> CHOOSE a \in Actions : TRUE]

\* Passes that expire within the instance.
ShortLived == [p \in Passes |-> 1]
=============================================================================
