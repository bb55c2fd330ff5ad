-------------------------- MODULE ProtectedAction --------------------------
(***************************************************************************)
(* What the Reference Relying Service promises for a Protected Action,     *)
(* without leases, attempts, workers or clocks: the first pass accepted    *)
(* for it creates one outcome, every pass is spent at most once, and the   *)
(* outcome ends once, with one account exactly when it succeeds.           *)
(***************************************************************************)
CONSTANTS Actions, Passes, PassFor, Makers, Nobody

VARIABLES outcome, spent, maker

actionVars == <<outcome, spent, maker>>

ActionInit ==
  /\ outcome = [a \in Actions |-> "none"]
  /\ spent   = [p \in Passes |-> FALSE]
  /\ maker   = [a \in Actions |-> Nobody]

\* The first pass opens the outcome; a later one is spent on the same outcome.
Accept(p) ==
  LET a == PassFor[p] IN
  /\ ~spent[p]
  /\ spent' = [spent EXCEPT ![p] = TRUE]
  /\ outcome' = [outcome EXCEPT ![a] = IF outcome[a] = "none" THEN "pending" ELSE outcome[a]]
  /\ UNCHANGED maker

\* Execution succeeds: the account is created together with the outcome.
Succeed(a, by) ==
  /\ outcome[a] = "pending"
  /\ outcome' = [outcome EXCEPT ![a] = "succeeded"]
  /\ maker' = [maker EXCEPT ![a] = by]
  /\ UNCHANGED spent

\* Execution fails for good, for some actions at once.
Fail(S) ==
  /\ \A a \in S : outcome[a] = "pending"
  /\ outcome' = [a \in Actions |-> IF a \in S THEN "failed" ELSE outcome[a]]
  /\ UNCHANGED <<spent, maker>>

ActionNext ==
  \/ \E p \in Passes : Accept(p)
  \/ \E a \in Actions, by \in Makers : Succeed(a, by)
  \/ \E S \in SUBSET Actions : Fail(S)

ActionSpec == ActionInit /\ [][ActionNext]_actionVars
=============================================================================
