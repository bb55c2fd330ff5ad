-------------------------- MODULE MCGateAuthority --------------------------
(***************************************************************************)
(* Small instances of GateAuthority for TLC.                               *)
(***************************************************************************)
EXTENDS GateAuthority, TLC

\* Requirements of the instances: one unit, or two that need two shares.
OneUnit  == [c \in Challenges |-> 1]
TwoUnits == [c \in Challenges |-> 2]

\* Identifiers are compared and never ordered, so they may be permuted.
Identifiers ==
  Permutations(Challenges) \cup Permutations(Sessions) \cup Permutations(Events)
    \cup Permutations(Shares) \cup Permutations(Boots)
=============================================================================
