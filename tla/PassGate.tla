------------------------------ MODULE PassGate ------------------------------
(***************************************************************************)
(* What the Gate Authority promises, without sessions, leases, workers or  *)
(* clocks: credited work opens the gate once, an earned challenge ends in  *)
(* one pass or in none, and a challenge closed before it was earned never  *)
(* yields one.                                                             *)
(***************************************************************************)
EXTENDS Naturals

CONSTANTS Challenges, Requirement, Passes, NoPass

VARIABLES work, stage, pass

gateVars == <<work, stage, pass>>

GateInit ==
  /\ work  = [c \in Challenges |-> 0]
  /\ stage = [c \in Challenges |-> "open"]
  /\ pass  = [c \in Challenges |-> NoPass]

\* Credited work moves an open challenge forward, and across the threshold.
Credit(c) ==
  /\ stage[c] = "open"
  /\ work' = [work EXCEPT ![c] = work'[c]]
  /\ work'[c] \in Nat /\ work'[c] > work[c]
  /\ stage' = [stage EXCEPT ![c] = IF work'[c] >= Requirement[c] THEN "earned" ELSE "open"]
  /\ UNCHANGED pass

\* Cancellation or expiry of a challenge that was not earned.
Close(c) ==
  /\ stage[c] = "open"
  /\ stage' = [stage EXCEPT ![c] = "closed"]
  /\ UNCHANGED <<work, pass>>

Grant(c) ==
  /\ stage[c] = "earned"
  /\ stage' = [stage EXCEPT ![c] = "granted"]
  /\ pass' = [pass EXCEPT ![c] = pass'[c]]
  /\ pass'[c] \in Passes
  /\ UNCHANGED work

\* The deadline passes for some earned challenges before they are granted.
Lapse(S) ==
  /\ \A c \in S : stage[c] = "earned"
  /\ stage' = [c \in Challenges |-> IF c \in S THEN "lapsed" ELSE stage[c]]
  /\ UNCHANGED <<work, pass>>

GateNext ==
  \/ \E c \in Challenges : Credit(c) \/ Close(c) \/ Grant(c)
  \/ \E S \in SUBSET Challenges : Lapse(S)

GateSpec == GateInit /\ [][GateNext]_gateVars
=============================================================================
