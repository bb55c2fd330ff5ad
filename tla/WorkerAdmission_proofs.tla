----------------------- MODULE WorkerAdmission_proofs -----------------------
(***************************************************************************)
(* Which authorizations take effect at most once, and which marks can be   *)
(* lost, whatever the number of keys, leases, admissions in progress and   *)
(* possession contexts.                                                    *)
(*                                                                         *)
(* EffectOnce is not inductive: for a key whose mark was not put back it   *)
(* needs that a committed plan has not acted yet, that no other committed  *)
(* plan is of the same sequence, that what has acted is at or below the    *)
(* stored sequence, and that no plan has read a mark above the stored one. *)
(* OneLeasePerContext needs that possession contexts are never used again  *)
(* and that the lease of the current one is the lease of everything        *)
(* admitted in it.  StartOnce follows from it and not from the marks: a    *)
(* start is committed only where nothing was admitted.  The marks that a   *)
(* plan would put back are those of renewals of its own context.           *)
(***************************************************************************)
EXTENDS WorkerAdmission, TLAPS

\* A plan is of a sequence above the one it read.
PlansAreNew == \A s \in Slots : plans[s].stage = "planned" => plans[s].marks[plans[s].auth.kid] < plans[s].auth.sequence

\* A plan has read no mark above the stored one, unless that one was put back since.
MarksWereStored ==
  \A s \in Slots, k \in Keys \ putBack : plans[s].stage = "planned" => plans[s].marks[k] <= highWater[k]

\* A committed plan whose key keeps its mark is stored and has not acted.
CommittedIsStored ==
  \A s \in Slots : plans[s].stage = "committed" /\ plans[s].auth.kid \notin putBack =>
    /\ plans[s].auth.sequence <= highWater[plans[s].auth.kid]
    /\ effects[<<plans[s].auth.kid, plans[s].auth.sequence>>] = 0

SameSequence(a, b) == a.kid = b.kid /\ a.sequence = b.sequence

\* Two such plans are of different sequences.
CommittedAreDistinct ==
  \A s, t \in Slots : s # t /\ plans[s].stage = "committed" /\ plans[t].stage = "committed"
                     /\ plans[s].auth.kid \notin putBack
    => ~SameSequence(plans[s].auth, plans[t].auth)

IInv ==
  /\ TypeOK
  /\ PlansAreNew /\ MarksWereStored /\ CommittedIsStored /\ CommittedAreDistinct
  /\ EffectOnce /\ DurableBeforeEffect

USE AdmissionAssumption

-----------------------------------------------------------------------------
\* A slot holds a plan of the declared shape, or none.
LEMMA PlanTypes ==
  ASSUME TypeOK, NEW s \in Slots
  PROVE  /\ plans[s].stage \in {"planned", "committed"} => plans[s] \in Plans
         /\ plans[s] \notin Plans => plans[s] = NoPlan
  BY DEF TypeOK, NoPlan

\* A plan names an authorization with a key and a sequence; one that is not committed yet
\* has read marks and a context.
LEMMA AuthorizationTypes ==
  ASSUME NEW p \in Plans
  PROVE  /\ p.auth \in Authorizations /\ p.auth.kid \in Keys
         /\ p.auth.sequence \in Sequences /\ p.auth.sequence \in Nat
         /\ p.stage = "planned" => /\ p.marks \in [Keys -> 0..MaxSequence] /\ p.expected \in Contexts
                                  /\ \A k \in Keys : p.marks[k] \in Nat
  BY DEF Plans, Authorizations, Sequences

\* The initial state has the declared types.
LEMMA TypeInit == Init => TypeOK
  BY DEF Init, TypeOK, NoContext, Contexts, NoLease, Sequences

\* Signing an authorization keeps the types.
LEMMA TypeSign ==
  ASSUME TypeOK, NEW k \in Keys, NEW o \in Operations, NEW l \in Leases, NEW b \in Bindings, Sign(k, o, l, b)
  PROVE  TypeOK'
<1>1. allocated[k] \in 0..MaxSequence /\ allocated[k] < MaxSequence
  BY DEF Sign, Exhausted, TypeOK
<1>2. allocated' \in [Keys -> 0..MaxSequence]
  BY <1>1 DEF Sign, TypeOK
<1>3. signed' \subseteq Authorizations
  BY <1>1 DEF Sign, TypeOK, Authorizations, Sequences
<1> QED BY <1>2, <1>3 DEF Sign, TypeOK, durableVars, contextVars

\* Planning an admission keeps the types.
LEMMA TypePlan ==
  ASSUME TypeOK, NEW s \in Slots, NEW auth \in signed, NEW o \in Operations, NEW l \in Leases, NEW b \in Bindings,
         Plan(s, auth, o, l, b)
  PROVE  TypeOK'
<1>1. auth \in Authorizations /\ auth.kid \in Keys BY DEF TypeOK, Authorizations
<1>2. [stage |-> "planned", auth |-> auth, marks |-> highWater, expected |-> context] \in Plans
  BY <1>1 DEF TypeOK, Plans
<1>3. plans' \in [Slots -> Plans \cup {NoPlan}] BY <1>2 DEF Plan, TypeOK
<1> QED BY <1>3 DEF Plan, TypeOK, authorityVars, durableVars, contextVars

\* Comparing and storing a plan keeps the types.
LEMMA TypePersist ==
  ASSUME TypeOK, NEW s \in Slots, Persist(s)
  PROVE  TypeOK'
<1> DEFINE p == plans[s]
<1>1. p \in Plans /\ p.stage = "planned" BY PlanTypes DEF Persist
<1>2. /\ p.auth \in Authorizations /\ p.expected \in Contexts /\ p.auth.kid \in Keys
      /\ p.auth.sequence \in 0..MaxSequence /\ p.marks \in [Keys -> 0..MaxSequence]
  BY <1>1, AuthorizationTypes DEF Sequences
<1>3. highWater' \in [Keys -> 0..MaxSequence] BY <1>2 DEF Persist
<1>4. context' \in Contexts BY <1>2 DEF Persist, Contexts, Authorizations
<1>5. [stage |-> "committed", auth |-> p.auth] \in Plans BY <1>2 DEF Plans
<1>6. plans' \in [Slots -> Plans \cup {NoPlan}] BY <1>5 DEF Persist, TypeOK
<1>7. admitted' \subseteq Authorizations BY <1>2 DEF Persist, TypeOK
<1>8. putBack' \subseteq Keys BY DEF Persist, TypeOK
<1> QED BY <1>3, <1>4, <1>6, <1>7, <1>8 DEF Persist, TypeOK, authorityVars

\* Acting on a stored plan keeps the types.
LEMMA TypeEffect ==
  ASSUME TypeOK, NEW s \in Slots, Effect(s)
  PROVE  TypeOK'
<1> DEFINE a == plans[s].auth
<1>1. a.kid \in Keys /\ a.sequence \in Sequences BY PlanTypes, AuthorizationTypes DEF Effect
<1>2. effects' \in [Keys \X Sequences -> 0..2] BY <1>1 DEF Effect, TypeOK
<1>3. plans' \in [Slots -> Plans \cup {NoPlan}] BY DEF Effect, TypeOK
<1> QED BY <1>2, <1>3 DEF Effect, TypeOK, authorityVars, durableVars, contextVars

\* A change of the trust keeps the types.
LEMMA TypeInstallTrust ==
  ASSUME TypeOK, NEW keys \in SUBSET Keys, InstallTrust(keys)
  PROVE  TypeOK'
<1>1. highWater' \in [Keys -> 0..MaxSequence] BY DEF InstallTrust, TypeOK
<1>2. putBack' \subseteq Keys /\ trusted' \subseteq Keys BY DEF InstallTrust, TypeOK
<1> QED BY <1>1, <1>2 DEF InstallTrust, TypeOK, contextVars

\* Every step keeps the types.
LEMMA TypeStep == TypeOK /\ [Next]_vars => TypeOK'
<1> SUFFICES ASSUME TypeOK, [Next]_vars PROVE TypeOK'
  OBVIOUS
<1>1. ASSUME NEW k \in Keys, NEW o \in Operations, NEW l \in Leases, NEW b \in Bindings, Sign(k, o, l, b)
      PROVE  TypeOK'
  BY <1>1, TypeSign
<1>2. ASSUME NEW keys \in SUBSET Keys, InstallTrust(keys) PROVE TypeOK'
  BY <1>2, TypeInstallTrust
<1>3. CASE Establish
  BY <1>3 DEF Establish, TypeOK, Contexts, authorityVars, durableVars
<1>4. CASE Invalidate
  BY <1>4 DEF Invalidate, TypeOK, NoContext, Contexts, authorityVars, durableVars
<1>5. CASE Reboot
  BY <1>5 DEF Reboot, TypeOK, NoContext, Contexts, authorityVars, durableVars
<1>6. CASE Tick
  BY <1>6 DEF Tick, TypeOK, authorityVars, durableVars
<1>7. CASE Damage
  BY <1>7 DEF Damage, TypeOK, authorityVars, contextVars
<1>8. ASSUME NEW s \in Slots, NEW auth \in signed, NEW o \in Operations, NEW l \in Leases, NEW b \in Bindings,
             Plan(s, auth, o, l, b)
      PROVE  TypeOK'
  BY <1>8, TypePlan
<1>9. ASSUME NEW s \in Slots, Persist(s) PROVE TypeOK'
  BY <1>9, TypePersist
<1>10. ASSUME NEW s \in Slots, Reject(s) PROVE TypeOK'
  BY <1>10 DEF Reject, TypeOK, authorityVars, durableVars, contextVars
<1>11. ASSUME NEW s \in Slots, Effect(s) PROVE TypeOK'
  BY <1>11, TypeEffect
<1>12. CASE UNCHANGED vars
  BY <1>12 DEF vars, TypeOK, authorityVars, durableVars, contextVars
<1> QED BY <1>1, <1>2, <1>3, <1>4, <1>5, <1>6, <1>7, <1>8, <1>9, <1>10, <1>11, <1>12 DEF Next

\* Every variable keeps its type, in particular every allocated and every stored
\* sequence stays within the last one (parseSequence).
THEOREM TypeCorrectness == Spec => []TypeOK
<1>1. Init => TypeOK BY TypeInit
<1>2. TypeOK /\ [Next]_vars => TypeOK' BY TypeStep
<1> QED BY <1>1, <1>2, PTL DEF Spec

-----------------------------------------------------------------------------
\* The inductive invariant holds initially.
LEMMA InitInv == Init => IInv
<1> SUFFICES ASSUME Init PROVE IInv
  OBVIOUS
<1>1. TypeOK BY TypeInit
<1>2. \A s \in Slots : plans[s].stage = "none" BY DEF Init, NoPlan
<1>3. \A k \in Keys, n \in Sequences : effects[<<k, n>>] = 0 BY DEF Init
<1>4. PlansAreNew /\ MarksWereStored BY <1>2 DEF PlansAreNew, MarksWereStored
<1>5. CommittedIsStored /\ CommittedAreDistinct BY <1>2 DEF CommittedIsStored, CommittedAreDistinct
<1>6. EffectOnce /\ DurableBeforeEffect BY <1>3 DEF EffectOnce, DurableBeforeEffect
<1> QED BY <1>1, <1>4, <1>5, <1>6 DEF IInv

\* A step that acts on nothing, adds no plan and changes no mark but those it puts back
\* keeps the invariant.
LEMMA DroppedPlans ==
  ASSUME IInv, TypeOK', effects' = effects, putBack \subseteq putBack',
         \A k \in Keys \ putBack' : highWater'[k] = highWater[k],
         \A s \in Slots : plans'[s] = plans[s] \/ plans'[s].stage = "none"
  PROVE  IInv'
<1>1. PlansAreNew' BY DEF IInv, PlansAreNew
<1>2. MarksWereStored' BY DEF IInv, MarksWereStored
<1>3. CommittedIsStored'
  <2> SUFFICES ASSUME NEW s \in Slots, plans'[s].stage = "committed", plans'[s].auth.kid \notin putBack'
               PROVE  /\ plans'[s].auth.sequence <= highWater'[plans'[s].auth.kid]
                      /\ effects'[<<plans'[s].auth.kid, plans'[s].auth.sequence>>] = 0
    BY DEF CommittedIsStored
  <2>1. plans'[s] = plans[s] OBVIOUS
  <2>2. plans[s].auth.kid \in Keys BY <2>1, PlanTypes, AuthorizationTypes DEF IInv
  <2> QED BY <2>1, <2>2 DEF IInv, CommittedIsStored
<1>4. CommittedAreDistinct' BY DEF IInv, CommittedAreDistinct, SameSequence
<1>5. EffectOnce' /\ DurableBeforeEffect' BY DEF IInv, EffectOnce, DurableBeforeEffect
<1> QED BY <1>1, <1>2, <1>3, <1>4, <1>5 DEF IInv

\* A retirement removes the marks of the keys it retires and no others.
LEMMA TrustMarks ==
  ASSUME TypeOK, NEW keys \in SUBSET Keys, InstallTrust(keys)
  PROVE  putBack \subseteq putBack' /\ \A k \in Keys \ putBack' : highWater'[k] = highWater[k]
<1>1. putBack \subseteq putBack' BY DEF InstallTrust
<1>2. ASSUME NEW k \in Keys, k \notin putBack' PROVE highWater'[k] = highWater[k]
  <2>1. highWater[k] \in Nat BY DEF TypeOK
  <2>2. highWater'[k] = IF k \in trusted \ keys THEN 0 ELSE highWater[k] BY DEF InstallTrust
  <2>3. k \in trusted \ keys => highWater[k] <= 0 BY <1>2, <2>1 DEF InstallTrust
  <2> QED BY <2>1, <2>2, <2>3
<1> QED BY <1>1, <1>2

\* A new plan carries a sequence above everything stored for its key.
LEMMA InvPlan ==
  ASSUME IInv, TypeOK', NEW s \in Slots, NEW auth \in signed, NEW o \in Operations, NEW l \in Leases,
         NEW b \in Bindings, Plan(s, auth, o, l, b)
  PROVE  IInv'
<1>1. TypeOK BY DEF IInv
<1>2. UNCHANGED <<highWater, putBack, effects>> BY DEF Plan, durableVars
<1>3. /\ plans'[s].stage = "planned" /\ plans'[s].marks = highWater /\ plans'[s].auth = auth
      /\ \A t \in Slots : t # s => plans'[t] = plans[t]
  BY <1>1 DEF Plan, TypeOK
<1>4. PlansAreNew' BY <1>3 DEF Plan, NotReplayed, IInv, PlansAreNew
<1>5. MarksWereStored'
  <2>1. \A k \in Keys : highWater[k] <= highWater[k] BY <1>1 DEF TypeOK
  <2> QED BY <1>2, <1>3, <2>1 DEF IInv, MarksWereStored
<1>6. CommittedIsStored' BY <1>2, <1>3 DEF IInv, CommittedIsStored
<1>7. CommittedAreDistinct' BY <1>2, <1>3 DEF IInv, CommittedAreDistinct, SameSequence
<1>8. EffectOnce' /\ DurableBeforeEffect' BY <1>2 DEF IInv, EffectOnce, DurableBeforeEffect
<1> QED BY <1>4, <1>5, <1>6, <1>7, <1>8 DEF IInv

\* Storing a plan raises the mark of its own key, and changes the mark of another key only
\* by putting it back.
LEMMA PersistMarks ==
  ASSUME IInv, NEW s \in Slots, Persist(s)
  PROVE  /\ plans[s].stage = "planned" /\ plans[s] \in Plans
         /\ plans[s].auth.kid \in Keys /\ plans[s].auth.sequence \in Sequences /\ plans[s].auth.sequence \in Nat
         /\ highWater[plans[s].auth.kid] \in Nat /\ highWater[plans[s].auth.kid] < plans[s].auth.sequence
         /\ highWater'[plans[s].auth.kid] = plans[s].auth.sequence
         /\ \A k \in Keys : k # plans[s].auth.kid => highWater'[k] = plans[s].marks[k]
         /\ putBack \subseteq putBack'
         /\ \A k \in Keys \ putBack' : k # plans[s].auth.kid => highWater'[k] = highWater[k]
<1> DEFINE a == plans[s].auth
<1>1. TypeOK BY DEF IInv
<1>2. plans[s].stage = "planned" /\ plans[s] \in Plans BY <1>1, PlanTypes DEF Persist
<1>3. /\ a.kid \in Keys /\ a.sequence \in Sequences /\ a.sequence \in Nat
      /\ plans[s].marks \in [Keys -> 0..MaxSequence] /\ \A k \in Keys : plans[s].marks[k] \in Nat
  BY <1>2, AuthorizationTypes
<1>4. highWater[a.kid] \in Nat /\ highWater[a.kid] < a.sequence
  BY <1>1, <1>2, <1>3 DEF IInv, PlansAreNew, Persist, Compares, TypeOK
<1>5. highWater'[a.kid] = a.sequence /\ \A k \in Keys : k # a.kid => highWater'[k] = plans[s].marks[k]
  BY <1>3 DEF Persist
<1>6. putBack \subseteq putBack' BY DEF Persist
<1>7. ASSUME NEW k \in Keys, k \notin putBack', k # a.kid PROVE highWater'[k] = highWater[k]
  <2>1. highWater[k] \in Nat /\ plans[s].marks[k] \in Nat BY <1>1, <1>3 DEF TypeOK
  <2>2. ~(plans[s].marks[k] < highWater[k]) BY <1>7 DEF Persist
  <2>3. plans[s].marks[k] <= highWater[k] BY <1>2, <1>6, <1>7 DEF IInv, MarksWereStored
  <2>4. plans[s].marks[k] = highWater[k] BY <2>1, <2>2, <2>3
  <2> QED BY <2>4, <1>5, <1>7
<1> QED BY <1>2, <1>3, <1>4, <1>5, <1>6, <1>7

\* What storing a plan does to the plans.
LEMMA PersistPlans ==
  ASSUME TypeOK, NEW s \in Slots, Persist(s)
  PROVE  /\ plans'[s].stage = "committed" /\ plans'[s].auth = plans[s].auth
         /\ \A t \in Slots : t # s => plans'[t] = plans[t]
  BY DEF Persist, TypeOK

\* The comparison of persist keeps committed plans distinct and stored.
LEMMA InvPersist ==
  ASSUME IInv, TypeOK', NEW s \in Slots, Persist(s)
  PROVE  IInv'
<1> DEFINE a == plans[s].auth
<1>1. TypeOK BY DEF IInv
<1>2. /\ plans[s].stage = "planned" /\ plans[s] \in Plans
      /\ a.kid \in Keys /\ a.sequence \in Sequences /\ a.sequence \in Nat
      /\ highWater[a.kid] \in Nat /\ highWater[a.kid] < a.sequence /\ highWater'[a.kid] = a.sequence
      /\ putBack \subseteq putBack' /\ \A k \in Keys \ putBack' : k # a.kid => highWater'[k] = highWater[k]
  BY PersistMarks
<1>3. effects' = effects BY DEF Persist
<1>4. /\ plans'[s].stage = "committed" /\ plans'[s].auth = a
      /\ \A t \in Slots : t # s => plans'[t] = plans[t]
  BY <1>1, PersistPlans
<1>5. ASSUME NEW k \in Keys, k \notin putBack' PROVE highWater[k] <= highWater'[k] /\ highWater[k] \in Nat /\ highWater'[k] \in Nat
  BY <1>1, <1>2, <1>5 DEF TypeOK
<1>6. a.kid \notin putBack' => effects[<<a.kid, a.sequence>>] = 0
  <2> SUFFICES ASSUME a.kid \notin putBack PROVE effects[<<a.kid, a.sequence>>] = 0
    BY <1>2
  <2>1. effects[<<a.kid, a.sequence>>] \in Nat BY <1>1, <1>2 DEF TypeOK
  <2>2. effects[<<a.kid, a.sequence>>] > 0 => highWater[a.kid] >= a.sequence
    BY <1>2 DEF IInv, DurableBeforeEffect
  <2> QED BY <1>2, <2>1, <2>2
<1>7. ASSUME NEW t \in Slots, plans[t].stage = "committed", plans[t].auth.kid \notin putBack'
      PROVE  /\ plans[t].auth.kid \in Keys /\ plans[t].auth.sequence \in Nat
             /\ plans[t].auth.sequence <= highWater[plans[t].auth.kid]
             /\ ~SameSequence(plans[t].auth, a)
  <2>1. plans[t].auth.kid \in Keys /\ plans[t].auth.sequence \in Nat
    BY <1>1, <1>7, PlanTypes, AuthorizationTypes
  <2>2. plans[t].auth.sequence <= highWater[plans[t].auth.kid] BY <1>2, <1>7 DEF IInv, CommittedIsStored
  <2>3. ~SameSequence(plans[t].auth, a) BY <1>2, <2>1, <2>2 DEF SameSequence
  <2> QED BY <2>1, <2>2, <2>3
<1>8. PlansAreNew' BY <1>4 DEF IInv, PlansAreNew
<1>9. MarksWereStored'
  <2> SUFFICES ASSUME NEW t \in Slots, NEW k \in Keys, k \notin putBack', plans'[t].stage = "planned"
               PROVE  plans'[t].marks[k] <= highWater'[k]
    BY DEF MarksWereStored
  <2>1. plans'[t] = plans[t] /\ plans[t].stage = "planned" BY <1>4
  <2>2. plans[t].marks[k] \in Nat BY <1>1, <2>1, PlanTypes, AuthorizationTypes
  <2>3. plans[t].marks[k] <= highWater[k] BY <1>2, <2>1 DEF IInv, MarksWereStored
  <2>4. highWater[k] <= highWater'[k] /\ highWater[k] \in Nat /\ highWater'[k] \in Nat BY <1>5
  <2> QED BY <2>1, <2>2, <2>3, <2>4
<1>10. CommittedIsStored'
  <2> SUFFICES ASSUME NEW t \in Slots, plans'[t].stage = "committed", plans'[t].auth.kid \notin putBack'
               PROVE  /\ plans'[t].auth.sequence <= highWater'[plans'[t].auth.kid]
                      /\ effects'[<<plans'[t].auth.kid, plans'[t].auth.sequence>>] = 0
    BY DEF CommittedIsStored
  <2>1. CASE t = s BY <2>1, <1>2, <1>3, <1>4, <1>6
  <2>2. CASE t # s
    <3>1. plans'[t] = plans[t] /\ plans[t].stage = "committed" BY <2>2, <1>4
    <3>2. plans[t].auth.kid \notin putBack BY <3>1, <1>2
    <3>3. effects[<<plans[t].auth.kid, plans[t].auth.sequence>>] = 0 BY <3>1, <3>2 DEF IInv, CommittedIsStored
    <3>4. /\ plans[t].auth.kid \in Keys /\ plans[t].auth.sequence \in Nat
          /\ plans[t].auth.sequence <= highWater[plans[t].auth.kid]
      BY <3>1, <1>7
    <3>5. plans[t].auth.sequence <= highWater'[plans[t].auth.kid] BY <3>1, <3>4, <1>5
    <3> QED BY <3>1, <3>3, <3>5, <1>3
  <2> QED BY <2>1, <2>2
<1>11. CommittedAreDistinct'
  <2> SUFFICES ASSUME NEW t \in Slots, NEW u \in Slots, t # u, plans'[t].auth.kid \notin putBack',
                      plans'[t].stage = "committed", plans'[u].stage = "committed",
                      SameSequence(plans'[t].auth, plans'[u].auth)
               PROVE  FALSE
    BY DEF CommittedAreDistinct, SameSequence
  <2>1. CASE t = s BY <2>1, <1>4, <1>7 DEF SameSequence
  <2>2. CASE u = s BY <2>2, <1>4, <1>7 DEF SameSequence
  <2>3. CASE t # s /\ u # s BY <2>3, <1>2, <1>4 DEF IInv, CommittedAreDistinct
  <2> QED BY <2>1, <2>2, <2>3
<1>12. EffectOnce' BY <1>2, <1>3 DEF IInv, EffectOnce
<1>13. DurableBeforeEffect'
  <2> SUFFICES ASSUME NEW k \in Keys, k \notin putBack', NEW n \in Sequences, effects[<<k, n>>] > 0
               PROVE  highWater'[k] >= n
    BY <1>3 DEF DurableBeforeEffect
  <2>1. highWater[k] >= n /\ n \in Nat
    BY <1>2 DEF IInv, DurableBeforeEffect, Sequences
  <2> QED BY <2>1, <1>5
<1> QED BY <1>8, <1>9, <1>10, <1>11, <1>12, <1>13 DEF IInv

\* What acting on a plan changes.
LEMMA EffectChanges ==
  ASSUME TypeOK, NEW s \in Slots, Effect(s)
  PROVE  /\ plans[s].stage = "committed" /\ plans[s].auth.kid \in Keys
         /\ plans[s].auth.sequence \in Sequences /\ plans[s].auth.sequence \in Nat
         /\ effects'[<<plans[s].auth.kid, plans[s].auth.sequence>>] =
              IF effects[<<plans[s].auth.kid, plans[s].auth.sequence>>] = 0 THEN 1 ELSE 2
         /\ \A k \in Keys, n \in Sequences : k # plans[s].auth.kid \/ n # plans[s].auth.sequence
              => effects'[<<k, n>>] = effects[<<k, n>>]
         /\ plans'[s] = NoPlan /\ \A t \in Slots : t # s => plans'[t] = plans[t]
<1> DEFINE a == plans[s].auth
<1>1. /\ plans[s].stage = "committed" /\ a.kid \in Keys /\ a.sequence \in Sequences /\ a.sequence \in Nat
  BY PlanTypes, AuthorizationTypes DEF Effect
<1>2. plans'[s] = NoPlan /\ \A t \in Slots : t # s => plans'[t] = plans[t] BY DEF Effect, TypeOK
<1>3. <<a.kid, a.sequence>> \in Keys \X Sequences BY <1>1
<1>4. effects' = [effects EXCEPT ![<<a.kid, a.sequence>>] = IF @ = 0 THEN 1 ELSE 2] BY DEF Effect
<1>5. effects'[<<a.kid, a.sequence>>] = IF effects[<<a.kid, a.sequence>>] = 0 THEN 1 ELSE 2
  BY <1>3, <1>4 DEF TypeOK
<1>6. ASSUME NEW k \in Keys, NEW n \in Sequences, k # a.kid \/ n # a.sequence
      PROVE  effects'[<<k, n>>] = effects[<<k, n>>]
  BY <1>4, <1>6 DEF TypeOK
<1> QED BY <1>1, <1>2, <1>5, <1>6

\* Acting uses a committed plan up, so no sequence is acted on twice.
LEMMA InvEffect ==
  ASSUME IInv, TypeOK', NEW s \in Slots, Effect(s)
  PROVE  IInv'
<1> DEFINE a == plans[s].auth
<1>1. TypeOK BY DEF IInv
<1>2. /\ plans[s].stage = "committed" /\ a.kid \in Keys /\ a.sequence \in Sequences /\ a.sequence \in Nat
      /\ effects'[<<a.kid, a.sequence>>] = IF effects[<<a.kid, a.sequence>>] = 0 THEN 1 ELSE 2
      /\ \A k \in Keys, n \in Sequences : k # a.kid \/ n # a.sequence => effects'[<<k, n>>] = effects[<<k, n>>]
      /\ plans'[s] = NoPlan /\ \A t \in Slots : t # s => plans'[t] = plans[t]
  BY <1>1, EffectChanges
<1>3. a.kid \notin putBack => a.sequence <= highWater[a.kid] /\ effects[<<a.kid, a.sequence>>] = 0
  BY <1>2 DEF IInv, CommittedIsStored
<1>4. UNCHANGED <<highWater, putBack>> BY DEF Effect, durableVars
<1>5. PlansAreNew' /\ MarksWereStored' BY <1>2, <1>4 DEF IInv, PlansAreNew, MarksWereStored, NoPlan
<1>6. CommittedAreDistinct' BY <1>2, <1>4 DEF IInv, CommittedAreDistinct, SameSequence, NoPlan
<1>7. CommittedIsStored'
  <2> SUFFICES ASSUME NEW t \in Slots, plans'[t].stage = "committed", plans'[t].auth.kid \notin putBack
               PROVE  /\ plans'[t].auth.sequence <= highWater'[plans'[t].auth.kid]
                      /\ effects'[<<plans'[t].auth.kid, plans'[t].auth.sequence>>] = 0
    BY <1>4 DEF CommittedIsStored
  <2>1. t # s /\ plans'[t] = plans[t] BY <1>2 DEF NoPlan
  <2>2. plans[t].auth.kid \in Keys /\ plans[t].auth.sequence \in Sequences
    BY <1>1, <2>1, PlanTypes, AuthorizationTypes
  <2>3. ~SameSequence(plans[t].auth, a) BY <1>2, <2>1 DEF IInv, CommittedAreDistinct
  <2> QED BY <1>2, <1>4, <2>1, <2>2, <2>3 DEF IInv, CommittedIsStored, SameSequence
<1>8. EffectOnce'
  <2> SUFFICES ASSUME NEW k \in Keys, k \notin putBack, NEW n \in Sequences PROVE effects'[<<k, n>>] <= 1
    BY <1>4 DEF EffectOnce
  <2>1. effects[<<k, n>>] <= 1 BY DEF IInv, EffectOnce
  <2>2. CASE k = a.kid /\ n = a.sequence BY <1>2, <1>3, <2>2
  <2>3. CASE k # a.kid \/ n # a.sequence BY <1>2, <2>1, <2>3
  <2> QED BY <2>2, <2>3
<1>9. DurableBeforeEffect'
  <2> SUFFICES ASSUME NEW k \in Keys, k \notin putBack, NEW n \in Sequences, effects'[<<k, n>>] > 0
               PROVE  highWater[k] >= n
    BY <1>4 DEF DurableBeforeEffect
  <2>1. CASE k = a.kid /\ n = a.sequence BY <1>1, <1>2, <1>3, <2>1 DEF TypeOK
  <2>2. CASE k # a.kid \/ n # a.sequence
    BY <1>2, <2>2 DEF IInv, DurableBeforeEffect
  <2> QED BY <2>1, <2>2
<1> QED BY <1>5, <1>6, <1>7, <1>8, <1>9 DEF IInv

\* Every step preserves the inductive invariant.
LEMMA InvStep == IInv /\ [Next]_vars => IInv'
<1> SUFFICES ASSUME IInv, [Next]_vars PROVE IInv'
  OBVIOUS
<1>1. TypeOK' BY TypeStep DEF IInv
<1>2. ASSUME NEW k \in Keys, NEW o \in Operations, NEW l \in Leases, NEW b \in Bindings, Sign(k, o, l, b)
      PROVE  IInv'
  BY <1>1, <1>2, DroppedPlans DEF Sign, durableVars
<1>3. ASSUME NEW keys \in SUBSET Keys, InstallTrust(keys) PROVE IInv'
  <2>1. putBack \subseteq putBack' /\ \A k \in Keys \ putBack' : highWater'[k] = highWater[k]
    BY <1>3, TrustMarks DEF IInv
  <2> QED BY <1>1, <1>3, <2>1, DroppedPlans DEF InstallTrust
<1>4. CASE Establish BY <1>1, <1>4, DroppedPlans DEF Establish, durableVars
<1>5. CASE Invalidate BY <1>1, <1>5, DroppedPlans DEF Invalidate, durableVars
<1>6. CASE Reboot BY <1>1, <1>6, DroppedPlans DEF Reboot, durableVars, NoPlan
<1>7. CASE Tick BY <1>1, <1>7, DroppedPlans DEF Tick, durableVars
<1>8. CASE Damage BY <1>1, <1>8, DroppedPlans DEF Damage
<1>9. ASSUME NEW s \in Slots, NEW auth \in signed, NEW o \in Operations, NEW l \in Leases, NEW b \in Bindings,
             Plan(s, auth, o, l, b)
      PROVE  IInv'
  BY <1>1, <1>9, InvPlan
<1>10. ASSUME NEW s \in Slots, Persist(s) PROVE IInv'
  BY <1>1, <1>10, InvPersist
<1>11. ASSUME NEW s \in Slots, Reject(s) PROVE IInv'
  <2>1. \A t \in Slots : plans'[t] = plans[t] \/ plans'[t].stage = "none"
    BY <1>11 DEF Reject, IInv, TypeOK, NoPlan
  <2> QED BY <1>1, <1>11, <2>1, DroppedPlans DEF Reject, durableVars
<1>12. ASSUME NEW s \in Slots, Effect(s) PROVE IInv'
  BY <1>1, <1>12, InvEffect
<1>13. CASE UNCHANGED vars
  BY <1>1, <1>13, DroppedPlans DEF vars, durableVars
<1> QED BY <1>2, <1>3, <1>4, <1>5, <1>6, <1>7, <1>8, <1>9, <1>10, <1>11, <1>12, <1>13 DEF Next

\* The strengthening of EffectOnce that every step of planning, persisting and acting keeps.
THEOREM InductiveInvariant == Spec => []IInv
<1>1. Init => IInv BY InitInv
<1>2. IInv /\ [Next]_vars => IInv' BY InvStep
<1> QED BY <1>1, <1>2, PTL DEF Spec

-----------------------------------------------------------------------------
\* Contexts are numbered in the order they were established.
BindingsAreUsed == context.binding <= contexts /\ \A a \in admitted : a.binding <= contexts

\* What was admitted in the current context is of its lease.
ContextIsOfLease == \A a \in admitted : a.binding = context.binding => context.lease = a.lease

\* The lease of the current context was started in it.
LeaseWasStarted ==
  context.lease # NoLease => \E a \in admitted : a.op = "start" /\ a.binding = context.binding

\* A plan fits the context it was made in.
PlansFit ==
  \A s \in Slots : plans[s].stage = "planned" =>
    /\ plans[s].expected.binding = plans[s].auth.binding
    /\ plans[s].auth.op = "start" => plans[s].expected.lease = NoLease
    /\ plans[s].auth.op = "renew" => plans[s].expected.lease = plans[s].auth.lease

ContextInv == TypeOK /\ BindingsAreUsed /\ ContextIsOfLease /\ LeaseWasStarted /\ PlansFit /\ OneLeasePerContext

\* The context invariant holds initially.
LEMMA ContextInit == Init => ContextInv
<1> SUFFICES ASSUME Init PROVE ContextInv
  OBVIOUS
<1>1. \A s \in Slots : plans[s].stage = "none" BY DEF Init, NoPlan
<1>2. context.binding = 0 /\ context.lease = NoLease /\ contexts = 0 /\ admitted = {} BY DEF Init, NoContext
<1> QED BY <1>1, <1>2, TypeInit DEF ContextInv, BindingsAreUsed, ContextIsOfLease, LeaseWasStarted, PlansFit,
                                  OneLeasePerContext

\* A step that admits nothing, adds no plan and keeps the context or replaces it by one
\* that nothing was admitted in.
LEMMA ContextKept ==
  ASSUME ContextInv, TypeOK', admitted' = admitted, contexts <= contexts',
         \A s \in Slots : plans'[s] = plans[s] \/ plans'[s].stage # "planned",
         \/ context' = context
         \/ context'.lease = NoLease /\ context'.binding <= contexts' /\ \A a \in admitted : a.binding # context'.binding
  PROVE  ContextInv'
<1>1. /\ TypeOK /\ contexts \in Nat /\ contexts' \in Nat /\ context.binding \in Nat
      /\ \A a \in admitted : a.binding \in Nat
  BY DEF ContextInv, TypeOK, Contexts, Authorizations, Bindings
<1>2. BindingsAreUsed' BY <1>1 DEF ContextInv, BindingsAreUsed
<1>3. ContextIsOfLease' BY DEF ContextInv, ContextIsOfLease
<1>4. LeaseWasStarted' BY DEF ContextInv, LeaseWasStarted
<1>5. PlansFit' BY DEF ContextInv, PlansFit
<1>6. OneLeasePerContext' BY DEF ContextInv, OneLeasePerContext
<1> QED BY <1>2, <1>3, <1>4, <1>5, <1>6 DEF ContextInv

\* A plan fits the context it was read from.
LEMMA ContextPlan ==
  ASSUME ContextInv, TypeOK', NEW s \in Slots, NEW auth \in signed, NEW o \in Operations, NEW l \in Leases,
         NEW b \in Bindings, Plan(s, auth, o, l, b)
  PROVE  ContextInv'
<1>1. TypeOK BY DEF ContextInv
<1>2. /\ plans'[s].stage = "planned" /\ plans'[s].auth = auth /\ plans'[s].expected = context
      /\ \A t \in Slots : t # s => plans'[t] = plans[t]
  BY <1>1 DEF Plan, TypeOK
<1>3. context.binding = auth.binding /\ (auth.op = "start" => context.lease = NoLease)
      /\ (auth.op = "renew" => context.lease = auth.lease)
  BY DEF Plan, Verified, Fits
<1>4. PlansFit' BY <1>2, <1>3 DEF ContextInv, PlansFit
<1>5. UNCHANGED <<admitted, context, contexts>> BY DEF Plan, durableVars, contextVars
<1> QED BY <1>4, <1>5 DEF ContextInv, BindingsAreUsed, ContextIsOfLease, LeaseWasStarted, OneLeasePerContext

\* The context comparison of persist admits one start for each context.
LEMMA ContextPersist ==
  ASSUME ContextInv, TypeOK', NEW s \in Slots, Persist(s)
  PROVE  ContextInv'
<1> DEFINE a == plans[s].auth
<1>1. TypeOK BY DEF ContextInv
<1>2. plans[s].stage = "planned" /\ plans[s] \in Plans BY <1>1, PlanTypes DEF Persist
<1>3. /\ a \in Authorizations /\ a.op \in Operations /\ a.lease \in Leases /\ a.lease # NoLease
      /\ context \in Contexts /\ context = plans[s].expected
  BY <1>1, <1>2, AuthorizationTypes DEF Authorizations, NoLease, Persist, Compares, TypeOK
<1>4. /\ context.binding = a.binding
      /\ a.op = "start" => context.lease = NoLease
      /\ a.op = "renew" => context.lease = a.lease
  BY <1>2, <1>3 DEF ContextInv, PlansFit
<1>5. /\ context'.binding = a.binding /\ context'.lease = a.lease
      /\ admitted' = admitted \cup {a} /\ contexts' = contexts
  BY <1>3, <1>4 DEF Persist, Contexts, Operations
<1>6. \A t \in Slots : plans'[t] = plans[t] \/ plans'[t].stage = "committed"
  BY <1>1, <1>2 DEF Persist, TypeOK, Plans
<1>7. \A c \in admitted : c.lease \in Leases /\ c.lease # NoLease BY <1>1 DEF TypeOK, Authorizations, NoLease
<1>8. \A c \in admitted : c.binding = a.binding => context.lease = c.lease
  BY <1>4 DEF ContextInv, ContextIsOfLease
<1>9. a.op = "start" => \A c \in admitted : c.binding # a.binding BY <1>4, <1>7, <1>8
<1>10. \A c \in admitted : c.binding = a.binding => c.lease = a.lease
  BY <1>3, <1>4, <1>8, <1>9 DEF Operations
<1>11. \E c \in admitted' : c.op = "start" /\ c.binding = a.binding
  <2>1. CASE a.op = "start" BY <2>1, <1>5
  <2>2. CASE a.op = "renew" BY <2>2, <1>3, <1>4, <1>5 DEF ContextInv, LeaseWasStarted
  <2> QED BY <2>1, <2>2, <1>3 DEF Operations
<1>12. BindingsAreUsed' BY <1>4, <1>5 DEF ContextInv, BindingsAreUsed
<1>13. ContextIsOfLease' BY <1>5, <1>10 DEF ContextIsOfLease
<1>14. LeaseWasStarted' BY <1>5, <1>11 DEF LeaseWasStarted
<1>15. PlansFit' BY <1>6 DEF ContextInv, PlansFit
<1>16. OneLeasePerContext'
  <2>1. \A c, d \in admitted' : c.binding = d.binding => c.lease = d.lease
    BY <1>5, <1>10 DEF ContextInv, OneLeasePerContext
  <2>2. \A c, d \in admitted' : c.op = "start" /\ d.op = "start" /\ c.binding = d.binding => c = d
    BY <1>5, <1>9 DEF ContextInv, OneLeasePerContext
  <2>3. \A c \in admitted' : c.op = "renew" => \E d \in admitted' : d.op = "start" /\ d.binding = c.binding
    BY <1>5, <1>11 DEF ContextInv, OneLeasePerContext
  <2> QED BY <2>1, <2>2, <2>3 DEF OneLeasePerContext
<1> QED BY <1>12, <1>13, <1>14, <1>15, <1>16 DEF ContextInv

\* Every step preserves the context invariant.
LEMMA ContextStep == ContextInv /\ [Next]_vars => ContextInv'
<1> SUFFICES ASSUME ContextInv, [Next]_vars PROVE ContextInv'
  OBVIOUS
<1>1. /\ TypeOK /\ TypeOK' /\ contexts \in Nat
      /\ \A a \in admitted : a.binding \in Nat /\ a.binding >= 1 /\ a.binding <= contexts
  BY TypeStep DEF ContextInv, TypeOK, BindingsAreUsed, Authorizations, Bindings
<1>2. ASSUME NEW k \in Keys, NEW o \in Operations, NEW l \in Leases, NEW b \in Bindings, Sign(k, o, l, b)
      PROVE  ContextInv'
  BY <1>1, <1>2, ContextKept DEF Sign, durableVars, contextVars
<1>3. ASSUME NEW keys \in SUBSET Keys, InstallTrust(keys) PROVE ContextInv'
  BY <1>1, <1>3, ContextKept DEF InstallTrust, durableVars, contextVars
<1>4. CASE Establish
  <2>1. context'.lease = NoLease /\ context'.binding = contexts + 1 /\ contexts' = contexts + 1
    BY <1>4 DEF Establish
  <2>2. \A a \in admitted : a.binding # context'.binding BY <1>1, <2>1
  <2> QED BY <1>1, <1>4, <2>1, <2>2, ContextKept DEF Establish, durableVars
<1>5. CASE Invalidate
  <2>1. context'.lease = NoLease /\ context'.binding = 0 BY <1>5 DEF Invalidate, NoContext
  <2>2. \A a \in admitted : a.binding # context'.binding BY <1>1, <2>1
  <2> QED BY <1>1, <1>5, <2>1, <2>2, ContextKept DEF Invalidate, durableVars
<1>6. CASE Reboot
  <2>1. context'.lease = NoLease /\ context'.binding = 0 BY <1>6 DEF Reboot, NoContext
  <2>2. \A a \in admitted : a.binding # context'.binding BY <1>1, <2>1
  <2> QED BY <1>1, <1>6, <2>1, <2>2, ContextKept DEF Reboot, durableVars, NoPlan
<1>7. CASE Tick BY <1>1, <1>7, ContextKept DEF Tick, durableVars
<1>8. CASE Damage BY <1>1, <1>8, ContextKept DEF Damage, contextVars
<1>9. ASSUME NEW s \in Slots, NEW auth \in signed, NEW o \in Operations, NEW l \in Leases, NEW b \in Bindings,
             Plan(s, auth, o, l, b)
      PROVE  ContextInv'
  BY <1>1, <1>9, ContextPlan
<1>10. ASSUME NEW s \in Slots, Persist(s) PROVE ContextInv'
  BY <1>1, <1>10, ContextPersist
<1>11. ASSUME NEW s \in Slots, Reject(s) \/ Effect(s) PROVE ContextInv'
  <2>1. \A t \in Slots : plans'[t] = plans[t] \/ plans'[t].stage # "planned"
    BY <1>1, <1>11 DEF Reject, Effect, TypeOK, NoPlan
  <2> QED BY <1>1, <1>11, <2>1, ContextKept DEF Reject, Effect, durableVars, contextVars
<1>12. CASE UNCHANGED vars
  BY <1>1, <1>12, ContextKept DEF vars, durableVars, contextVars
<1> QED BY <1>2, <1>3, <1>4, <1>5, <1>6, <1>7, <1>8, <1>9, <1>10, <1>11, <1>12 DEF Next

\* A possession context serves one lease: planWorkerLeaseAdmission admits one start in
\* it and renewals of that lease only, although plans are made from states that other
\* admissions, invalidations and reboots replace before they are persisted.
THEOREM ContextsServeOneLease == Spec => []OneLeasePerContext
<1>1. Init => ContextInv BY ContextInit
<1>2. ContextInv /\ [Next]_vars => ContextInv' BY ContextStep
<1>3. ContextInv => OneLeasePerContext BY DEF ContextInv
<1> QED BY <1>1, <1>2, <1>3, PTL DEF Spec

-----------------------------------------------------------------------------
\* The Authority hands every sequence of a key out once.
SignedAreDistinct ==
  /\ \A a \in signed : a.sequence <= allocated[a.kid]
  /\ \A a, b \in signed : SameSequence(a, b) => a = b

\* What is planned or admitted was signed, and what is committed was admitted.
AdmittedAreSigned ==
  /\ admitted \subseteq signed
  /\ \A s \in Slots : plans[s] # NoPlan => plans[s].auth \in signed
  /\ \A s \in Slots : plans[s].stage = "committed" => plans[s].auth \in admitted

\* What was acted on was admitted.
ActedAreAdmitted ==
  \A k \in Keys, n \in Sequences : effects[<<k, n>>] # 0 => \E a \in admitted : a.kid = k /\ a.sequence = n

\* A committed start has not acted, and is committed in one place.
StartsAreNew ==
  /\ \A s \in Slots : plans[s].stage = "committed" /\ plans[s].auth.op = "start" =>
       effects[<<plans[s].auth.kid, plans[s].auth.sequence>>] = 0
  /\ \A s, t \in Slots : s # t /\ plans[s].stage = "committed" /\ plans[t].stage = "committed"
                         /\ plans[s].auth = plans[t].auth => plans[s].auth.op # "start"

StartInv == ContextInv /\ SignedAreDistinct /\ AdmittedAreSigned /\ ActedAreAdmitted /\ StartsAreNew /\ StartOnce

\* The start invariant holds initially.
LEMMA StartInit == Init => StartInv
<1> SUFFICES ASSUME Init PROVE StartInv
  OBVIOUS
<1>1. ContextInv BY ContextInit
<1>2. \A s \in Slots : plans[s] = NoPlan /\ plans[s].stage = "none" BY DEF Init, NoPlan
<1>3. signed = {} /\ admitted = {} /\ \A k \in Keys, n \in Sequences : effects[<<k, n>>] = 0 BY DEF Init
<1>4. SignedAreDistinct /\ StartOnce BY <1>3 DEF SignedAreDistinct, StartOnce
<1>5. AdmittedAreSigned BY <1>2, <1>3 DEF AdmittedAreSigned
<1>6. ActedAreAdmitted BY <1>3 DEF ActedAreAdmitted
<1>7. StartsAreNew BY <1>2 DEF StartsAreNew
<1> QED BY <1>1, <1>4, <1>5, <1>6, <1>7 DEF StartInv

\* A step that signs, admits and acts on nothing, and drops plans or makes one from what was
\* signed, keeps the start invariant.
LEMMA StartKept ==
  ASSUME StartInv, ContextInv', UNCHANGED <<allocated, signed, admitted, effects>>,
         \A s \in Slots : \/ plans'[s] = plans[s]
                          \/ plans'[s] = NoPlan
                          \/ plans'[s].stage = "planned" /\ plans'[s].auth \in signed
  PROVE  StartInv'
<1>1. SignedAreDistinct' BY DEF StartInv, SignedAreDistinct, SameSequence
<1>2. AdmittedAreSigned' BY DEF StartInv, AdmittedAreSigned, NoPlan
<1>3. ActedAreAdmitted' BY DEF StartInv, ActedAreAdmitted
<1>4. StartsAreNew' BY DEF StartInv, StartsAreNew, NoPlan
<1>5. StartOnce' BY DEF StartInv, StartOnce
<1> QED BY <1>1, <1>2, <1>3, <1>4, <1>5 DEF StartInv

\* A new authorization has a sequence nothing was acted on for.
LEMMA StartSign ==
  ASSUME StartInv, ContextInv', NEW k \in Keys, NEW o \in Operations, NEW l \in Leases, NEW b \in Bindings,
         Sign(k, o, l, b)
  PROVE  StartInv'
<1> DEFINE n == allocated[k] + 1
           new == [op |-> o, lease |-> l, binding |-> b, kid |-> k, sequence |-> n]
<1>1. TypeOK BY DEF StartInv, ContextInv
<1>2. allocated[k] \in Nat /\ n \in Sequences /\ n \in Nat BY <1>1 DEF TypeOK, Sign, Exhausted, Sequences
<1>3. /\ signed' = signed \cup {new} /\ UNCHANGED <<admitted, plans, effects>>
      /\ allocated'[k] = n /\ \A j \in Keys : j # k => allocated'[j] = allocated[j]
  BY <1>1 DEF Sign, TypeOK, durableVars
<1>4. \A a \in signed : a.kid \in Keys /\ a.sequence \in Nat /\ allocated[a.kid] \in Nat /\ a.sequence <= allocated[a.kid]
  BY <1>1 DEF TypeOK, Authorizations, Sequences, StartInv, SignedAreDistinct
<1>5. \A a \in signed : ~SameSequence(a, new) /\ ~SameSequence(new, a) BY <1>2, <1>4 DEF SameSequence
<1>6. SignedAreDistinct'
  <2>1. \A a \in signed' : a.sequence <= allocated'[a.kid] BY <1>2, <1>3, <1>4
  <2>2. \A a, c \in signed' : SameSequence(a, c) => a = c BY <1>3, <1>5 DEF StartInv, SignedAreDistinct
  <2> QED BY <2>1, <2>2 DEF SignedAreDistinct, SameSequence
<1>7. effects[<<k, n>>] = 0
  <2> SUFFICES ASSUME effects[<<k, n>>] # 0 PROVE FALSE
    OBVIOUS
  <2>1. PICK a \in admitted : a.kid = k /\ a.sequence = n BY <1>2 DEF StartInv, ActedAreAdmitted
  <2>2. a \in signed BY DEF StartInv, AdmittedAreSigned
  <2> QED BY <1>5, <2>1, <2>2 DEF SameSequence
<1>8. AdmittedAreSigned' BY <1>3 DEF StartInv, AdmittedAreSigned
<1>9. ActedAreAdmitted' BY <1>3 DEF StartInv, ActedAreAdmitted
<1>10. StartsAreNew' BY <1>3 DEF StartInv, StartsAreNew
<1>11. StartOnce' BY <1>3, <1>7 DEF StartInv, StartOnce
<1> QED BY <1>6, <1>8, <1>9, <1>10, <1>11 DEF StartInv

\* A start is committed only where nothing was admitted, so it is new.
LEMMA StartPersist ==
  ASSUME StartInv, ContextInv', NEW s \in Slots, Persist(s)
  PROVE  StartInv'
<1> DEFINE a == plans[s].auth
<1>1. TypeOK BY DEF StartInv, ContextInv
<1>2. plans[s].stage = "planned" /\ plans[s] \in Plans /\ plans[s] # NoPlan BY <1>1, PlanTypes DEF Persist, NoPlan
<1>3. a \in signed /\ a.kid \in Keys /\ a.sequence \in Sequences
  BY <1>2, AuthorizationTypes DEF StartInv, AdmittedAreSigned
<1>4. /\ plans'[s].stage = "committed" /\ plans'[s].auth = a
      /\ \A t \in Slots : t # s => plans'[t] = plans[t]
  BY <1>1, PersistPlans
<1>5. admitted' = admitted \cup {a} /\ UNCHANGED <<allocated, signed, effects>> BY DEF Persist, authorityVars
<1>6. a.op = "start" => a \notin admitted
  <2>1. \A c \in admitted : c.lease # NoLease BY <1>1 DEF TypeOK, Authorizations, NoLease
  <2>2. a.op = "start" => context.lease = NoLease /\ context.binding = a.binding
    BY <1>2 DEF StartInv, ContextInv, PlansFit, Persist, Compares
  <2> QED BY <2>1, <2>2 DEF StartInv, ContextInv, ContextIsOfLease
<1>7. a.op = "start" => effects[<<a.kid, a.sequence>>] = 0
  <2> SUFFICES ASSUME a.op = "start", effects[<<a.kid, a.sequence>>] # 0 PROVE FALSE
    OBVIOUS
  <2>1. PICK c \in admitted : c.kid = a.kid /\ c.sequence = a.sequence BY <1>3 DEF StartInv, ActedAreAdmitted
  <2>2. c = a BY <1>3, <2>1 DEF StartInv, AdmittedAreSigned, SignedAreDistinct, SameSequence
  <2> QED BY <1>6, <2>2
<1>8. SignedAreDistinct' /\ StartOnce' BY <1>5 DEF StartInv, SignedAreDistinct, SameSequence, StartOnce
<1>9. AdmittedAreSigned' BY <1>3, <1>4, <1>5 DEF StartInv, AdmittedAreSigned
<1>10. ActedAreAdmitted' BY <1>5 DEF StartInv, ActedAreAdmitted
<1>11. StartsAreNew'
  <2>1. ASSUME NEW t \in Slots, plans'[t].stage = "committed", plans'[t].auth.op = "start"
        PROVE  effects'[<<plans'[t].auth.kid, plans'[t].auth.sequence>>] = 0
    BY <1>4, <1>5, <1>7, <2>1 DEF StartInv, StartsAreNew
  <2>2. \A t \in Slots : plans[t].stage = "committed" => plans[t].auth \in admitted
    BY DEF StartInv, AdmittedAreSigned
  <2>3. ASSUME NEW t \in Slots, NEW u \in Slots, t # u, plans'[t].stage = "committed", plans'[u].stage = "committed",
               plans'[t].auth = plans'[u].auth, plans'[t].auth.op = "start"
        PROVE  FALSE
    <3>1. CASE t = s BY <1>4, <1>6, <2>2, <2>3, <3>1
    <3>2. CASE u = s BY <1>4, <1>6, <2>2, <2>3, <3>2
    <3>3. CASE t # s /\ u # s BY <1>4, <2>3, <3>3 DEF StartInv, StartsAreNew
    <3> QED BY <3>1, <3>2, <3>3
  <2> QED BY <2>1, <2>3 DEF StartsAreNew
<1> QED BY <1>8, <1>9, <1>10, <1>11 DEF StartInv

\* Acting on a start uses its one committed plan up.
LEMMA StartEffect ==
  ASSUME StartInv, ContextInv', NEW s \in Slots, Effect(s)
  PROVE  StartInv'
<1> DEFINE a == plans[s].auth
<1>1. TypeOK BY DEF StartInv, ContextInv
<1>2. /\ plans[s].stage = "committed" /\ a.kid \in Keys /\ a.sequence \in Sequences
      /\ effects'[<<a.kid, a.sequence>>] = IF effects[<<a.kid, a.sequence>>] = 0 THEN 1 ELSE 2
      /\ \A k \in Keys, n \in Sequences : k # a.kid \/ n # a.sequence => effects'[<<k, n>>] = effects[<<k, n>>]
      /\ plans'[s] = NoPlan /\ \A t \in Slots : t # s => plans'[t] = plans[t]
  BY <1>1, EffectChanges
<1>3. a \in admitted /\ a \in signed BY <1>2 DEF StartInv, AdmittedAreSigned
<1>4. UNCHANGED <<allocated, signed, admitted>> BY DEF Effect, authorityVars, durableVars
<1>5. \A c \in signed : c # a => effects'[<<c.kid, c.sequence>>] = effects[<<c.kid, c.sequence>>]
  <2> SUFFICES ASSUME NEW c \in signed, c # a PROVE effects'[<<c.kid, c.sequence>>] = effects[<<c.kid, c.sequence>>]
    OBVIOUS
  <2>1. c.kid \in Keys /\ c.sequence \in Sequences BY <1>1 DEF TypeOK, Authorizations
  <2>2. c.kid # a.kid \/ c.sequence # a.sequence BY <1>3 DEF StartInv, SignedAreDistinct, SameSequence
  <2> QED BY <1>2, <2>1, <2>2
<1>6. SignedAreDistinct' BY <1>4 DEF StartInv, SignedAreDistinct, SameSequence
<1>7. AdmittedAreSigned' BY <1>2, <1>4 DEF StartInv, AdmittedAreSigned, NoPlan
<1>8. ActedAreAdmitted' BY <1>2, <1>3, <1>4 DEF StartInv, ActedAreAdmitted
<1>9. StartsAreNew'
  <2>1. ASSUME NEW t \in Slots, plans'[t].stage = "committed", plans'[t].auth.op = "start"
        PROVE  effects'[<<plans'[t].auth.kid, plans'[t].auth.sequence>>] = 0
    <3>1. t # s /\ plans'[t] = plans[t] BY <1>2, <2>1 DEF NoPlan
    <3>2. plans[t].auth # a BY <1>2, <2>1, <3>1 DEF StartInv, StartsAreNew
    <3>3. plans[t].auth \in signed BY <2>1, <3>1 DEF StartInv, AdmittedAreSigned
    <3> QED BY <1>5, <2>1, <3>1, <3>2, <3>3 DEF StartInv, StartsAreNew
  <2>2. ASSUME NEW t \in Slots, NEW u \in Slots, t # u, plans'[t].stage = "committed", plans'[u].stage = "committed",
               plans'[t].auth = plans'[u].auth
        PROVE  plans'[t].auth.op # "start"
    BY <1>2, <2>2 DEF StartInv, StartsAreNew, NoPlan
  <2> QED BY <2>1, <2>2 DEF StartsAreNew
<1>10. StartOnce'
  <2> SUFFICES ASSUME NEW c \in signed, c.op = "start" PROVE effects'[<<c.kid, c.sequence>>] <= 1
    BY <1>4 DEF StartOnce
  <2>1. CASE c = a BY <1>2, <2>1 DEF StartInv, StartsAreNew
  <2>2. CASE c # a BY <1>5, <2>2 DEF StartInv, StartOnce
  <2> QED BY <2>1, <2>2
<1> QED BY <1>6, <1>7, <1>8, <1>9, <1>10 DEF StartInv

\* Every step preserves the start invariant.
LEMMA StartStep == StartInv /\ [Next]_vars => StartInv'
<1> SUFFICES ASSUME StartInv, [Next]_vars PROVE StartInv'
  OBVIOUS
<1>1. ContextInv' BY ContextStep DEF StartInv
<1>2. ASSUME NEW k \in Keys, NEW o \in Operations, NEW l \in Leases, NEW b \in Bindings, Sign(k, o, l, b)
      PROVE  StartInv'
  BY <1>1, <1>2, StartSign
<1>3. ASSUME NEW keys \in SUBSET Keys, InstallTrust(keys) PROVE StartInv'
  BY <1>1, <1>3, StartKept DEF InstallTrust
<1>4. CASE Establish BY <1>1, <1>4, StartKept DEF Establish, authorityVars, durableVars
<1>5. CASE Invalidate BY <1>1, <1>5, StartKept DEF Invalidate, authorityVars, durableVars
<1>6. CASE Reboot BY <1>1, <1>6, StartKept DEF Reboot, authorityVars, durableVars
<1>7. CASE Tick BY <1>1, <1>7, StartKept DEF Tick, authorityVars, durableVars
<1>8. CASE Damage BY <1>1, <1>8, StartKept DEF Damage, authorityVars
<1>9. ASSUME NEW s \in Slots, NEW auth \in signed, NEW o \in Operations, NEW l \in Leases, NEW b \in Bindings,
             Plan(s, auth, o, l, b)
      PROVE  StartInv'
  <2>1. TypeOK BY DEF StartInv, ContextInv
  <2>2. plans'[s].stage = "planned" /\ plans'[s].auth = auth /\ \A t \in Slots : t # s => plans'[t] = plans[t]
    BY <1>9, <2>1 DEF Plan, TypeOK
  <2> QED BY <1>1, <1>9, <2>2, StartKept DEF Plan, authorityVars, durableVars
<1>10. ASSUME NEW s \in Slots, Persist(s) PROVE StartInv'
  BY <1>1, <1>10, StartPersist
<1>11. ASSUME NEW s \in Slots, Reject(s) PROVE StartInv'
  <2>1. \A t \in Slots : plans'[t] = plans[t] \/ plans'[t] = NoPlan
    BY <1>11 DEF Reject, StartInv, ContextInv, TypeOK
  <2> QED BY <1>1, <1>11, <2>1, StartKept DEF Reject, authorityVars, durableVars
<1>12. ASSUME NEW s \in Slots, Effect(s) PROVE StartInv'
  BY <1>1, <1>12, StartEffect
<1>13. CASE UNCHANGED vars
  BY <1>1, <1>13, StartKept DEF vars, authorityVars, durableVars
<1> QED BY <1>2, <1>3, <1>4, <1>5, <1>6, <1>7, <1>8, <1>9, <1>10, <1>11, <1>12, <1>13 DEF Next

\* Whatever became of its key's mark, the one context a start is bound to lets it act once.
THEOREM StartsActOnce == Spec => []StartInv
<1>1. Init => StartInv BY StartInit
<1>2. StartInv /\ [Next]_vars => StartInv' BY StartStep
<1> QED BY <1>1, <1>2, PTL DEF Spec

\* commitWorkerLeaseAdmission acts at most once on every start, and on every renewal whose
\* key kept its mark, the latter only after the sequence is stored: for any number of keys,
\* admissions in progress and contexts, although each plan stores the marks of all keys.
THEOREM EffectsSoundness == Spec => []EffectsSound
<1>1. IInv /\ StartInv => EffectsSound BY DEF IInv, StartInv, EffectsSound
<1> QED BY <1>1, InductiveInvariant, StartsActOnce, PTL

-----------------------------------------------------------------------------
\* A plan was made in a context that was established, and a context that had a lease when
\* the plan was made has one still.
PlannedInUsed ==
  \A s \in Slots : plans[s].stage = "planned" =>
    /\ 1 <= plans[s].expected.binding /\ plans[s].expected.binding <= contexts
    /\ plans[s].expected.binding = context.binding /\ plans[s].expected.lease # NoLease => context.lease # NoLease

\* A mark that a plan of the current context would put back is that of a renewal of that context.
LostAreRenewals ==
  \A s \in Slots, k \in Keys \ putBack :
    plans[s].stage = "planned" /\ plans[s].expected = context /\ plans[s].marks[k] < highWater[k] =>
      \E a \in admitted : a.op = "renew" /\ a.kid = k /\ a.sequence = highWater[k] /\ a.binding = context.binding

MarksInv == IInv /\ ContextInv /\ PlannedInUsed /\ LostAreRenewals

\* The invariant of the marks holds initially.
LEMMA MarksInit == Init => MarksInv
<1> SUFFICES ASSUME Init PROVE MarksInv
  OBVIOUS
<1>1. \A s \in Slots : plans[s].stage = "none" BY DEF Init, NoPlan
<1> QED BY <1>1, InitInv, ContextInit DEF MarksInv, PlannedInUsed, LostAreRenewals

\* A step that admits nothing, adds no plan, changes no mark but those it puts back and keeps
\* the context, or replaces it by one no plan was made in, keeps the invariant of the marks.
LEMMA MarksKept ==
  ASSUME MarksInv, IInv', ContextInv', admitted' = admitted, contexts <= contexts', putBack \subseteq putBack',
         \A k \in Keys \ putBack' : highWater'[k] = highWater[k],
         \A s \in Slots : plans'[s] = plans[s] \/ plans'[s].stage # "planned",
         \/ context' = context
         \/ \A s \in Slots : plans[s].stage = "planned" => plans[s].expected.binding # context'.binding
  PROVE  MarksInv'
<1>1. contexts \in Nat /\ contexts' \in Nat BY DEF MarksInv, ContextInv, TypeOK
<1>2. ASSUME NEW s \in Slots, plans[s].stage = "planned" PROVE plans[s].expected.binding \in Nat
  BY <1>2, PlanTypes, AuthorizationTypes DEF MarksInv, ContextInv, Contexts
<1>3. PlannedInUsed' BY <1>1, <1>2 DEF MarksInv, PlannedInUsed
<1>4. LostAreRenewals' BY DEF MarksInv, LostAreRenewals
<1> QED BY <1>3, <1>4 DEF MarksInv

\* A plan reads the marks as they are.
LEMMA MarksPlan ==
  ASSUME MarksInv, IInv', ContextInv', NEW s \in Slots, NEW auth \in signed, NEW o \in Operations, NEW l \in Leases,
         NEW b \in Bindings, Plan(s, auth, o, l, b)
  PROVE  MarksInv'
<1>1. TypeOK BY DEF MarksInv, IInv
<1>2. /\ plans'[s].stage = "planned" /\ plans'[s].marks = highWater /\ plans'[s].expected = context
      /\ \A t \in Slots : t # s => plans'[t] = plans[t]
  BY <1>1 DEF Plan, TypeOK
<1>3. UNCHANGED <<highWater, putBack, admitted, context, contexts>> BY DEF Plan, durableVars, contextVars
<1>4. 1 <= context.binding /\ context.binding <= contexts
  BY DEF Plan, Bindings, MarksInv, ContextInv, BindingsAreUsed
<1>5. \A k \in Keys : ~(highWater[k] < highWater[k]) BY <1>1 DEF TypeOK
<1>6. PlannedInUsed' BY <1>2, <1>3, <1>4 DEF MarksInv, PlannedInUsed
<1>7. LostAreRenewals' BY <1>2, <1>3, <1>5 DEF MarksInv, LostAreRenewals
<1> QED BY <1>6, <1>7 DEF MarksInv

\* What a stored plan leaves for the others to lose is itself, a renewal of the context.
LEMMA MarksPersist ==
  ASSUME MarksInv, IInv', ContextInv', NEW s \in Slots, Persist(s)
  PROVE  MarksInv'
<1> DEFINE a == plans[s].auth
<1>1. TypeOK BY DEF MarksInv, IInv
<1>2. /\ plans[s].stage = "planned" /\ plans[s] \in Plans /\ a.kid \in Keys /\ highWater'[a.kid] = a.sequence
      /\ putBack \subseteq putBack' /\ \A k \in Keys \ putBack' : k # a.kid => highWater'[k] = highWater[k]
  BY PersistMarks DEF MarksInv
<1>3. /\ plans'[s].stage = "committed" /\ \A t \in Slots : t # s => plans'[t] = plans[t]
  BY <1>1, PersistPlans
<1>4. /\ a \in Authorizations /\ a.op \in {"start", "renew"} /\ a.lease # NoLease
      /\ context \in Contexts /\ context = plans[s].expected
  BY <1>1, <1>2, AuthorizationTypes DEF Authorizations, Operations, NoLease, Persist, Compares, TypeOK
<1>5. /\ context.binding = a.binding
      /\ a.op = "start" => context.lease = NoLease
      /\ a.op = "renew" => context.lease = a.lease
  BY <1>2, <1>4 DEF MarksInv, ContextInv, PlansFit
<1>6. /\ context'.binding = context.binding /\ context'.lease = a.lease
      /\ admitted' = admitted \cup {a} /\ contexts' = contexts
  BY <1>4, <1>5 DEF Persist, Contexts
<1>7. a.op = "renew" => context' = context
  BY <1>4, <1>5 DEF Persist, Contexts
<1>8. PlannedInUsed'
  BY <1>3, <1>4, <1>6 DEF MarksInv, PlannedInUsed
<1>9. LostAreRenewals'
  <2> SUFFICES ASSUME NEW t \in Slots, NEW k \in Keys, k \notin putBack', plans'[t].stage = "planned",
                      plans'[t].expected = context', plans'[t].marks[k] < highWater'[k]
               PROVE  \E c \in admitted' : c.op = "renew" /\ c.kid = k /\ c.sequence = highWater'[k]
                                           /\ c.binding = context'.binding
    BY DEF LostAreRenewals
  <2>1. t # s /\ plans'[t] = plans[t] /\ plans[t].stage = "planned" BY <1>3
  <2>2. a.op = "renew"
    <3> SUFFICES ASSUME a.op = "start" PROVE FALSE
      BY <1>4
    <3>1. plans[t].expected.binding = context.binding /\ plans[t].expected.lease # NoLease BY <1>4, <1>6, <2>1
    <3> QED BY <1>5, <2>1, <3>1 DEF MarksInv, PlannedInUsed
  <2>3. CASE k = a.kid BY <1>2, <1>5, <1>6, <2>2, <2>3
  <2>4. CASE k # a.kid
    <3>1. highWater'[k] = highWater[k] /\ k \notin putBack BY <1>2, <2>4
    <3>2. \E c \in admitted : c.op = "renew" /\ c.kid = k /\ c.sequence = highWater[k] /\ c.binding = context.binding
      BY <1>7, <2>1, <2>2, <3>1 DEF MarksInv, LostAreRenewals
    <3> QED BY <1>6, <3>1, <3>2
  <2> QED BY <2>3, <2>4
<1> QED BY <1>8, <1>9 DEF MarksInv

\* Every step preserves the invariant of the marks.
LEMMA MarksStep == MarksInv /\ [Next]_vars => MarksInv'
<1> SUFFICES ASSUME MarksInv, [Next]_vars PROVE MarksInv'
  OBVIOUS
<1>1. IInv' /\ ContextInv' /\ TypeOK /\ contexts \in Nat BY InvStep, ContextStep DEF MarksInv, IInv, TypeOK
<1>2. ASSUME NEW s \in Slots, plans[s].stage = "planned"
      PROVE  /\ plans[s].expected.binding \in Nat
             /\ 1 <= plans[s].expected.binding /\ plans[s].expected.binding <= contexts
  BY <1>1, <1>2, PlanTypes, AuthorizationTypes DEF MarksInv, PlannedInUsed, Contexts
<1>3. ASSUME NEW k \in Keys, NEW o \in Operations, NEW l \in Leases, NEW b \in Bindings, Sign(k, o, l, b)
      PROVE  MarksInv'
  BY <1>1, <1>3, MarksKept DEF Sign, durableVars, contextVars
<1>4. ASSUME NEW keys \in SUBSET Keys, InstallTrust(keys) PROVE MarksInv'
  <2>1. putBack \subseteq putBack' /\ \A k \in Keys \ putBack' : highWater'[k] = highWater[k]
    BY <1>1, <1>4, TrustMarks
  <2> QED BY <1>1, <1>4, <2>1, MarksKept DEF InstallTrust, contextVars
<1>5. CASE Establish
  <2>1. context'.binding = contexts + 1 /\ contexts' = contexts + 1 BY <1>5 DEF Establish
  <2>2. \A s \in Slots : plans[s].stage = "planned" => plans[s].expected.binding # context'.binding
    BY <1>1, <1>2, <2>1
  <2> QED BY <1>1, <1>5, <2>1, <2>2, MarksKept DEF Establish, durableVars
<1>6. CASE Invalidate
  <2>1. context'.binding = 0 BY <1>6 DEF Invalidate, NoContext
  <2>2. \A s \in Slots : plans[s].stage = "planned" => plans[s].expected.binding # context'.binding BY <1>2, <2>1
  <2> QED BY <1>1, <1>6, <2>2, MarksKept DEF Invalidate, durableVars
<1>7. CASE Reboot
  <2>1. context'.binding = 0 BY <1>7 DEF Reboot, NoContext
  <2>2. \A s \in Slots : plans[s].stage = "planned" => plans[s].expected.binding # context'.binding BY <1>2, <2>1
  <2> QED BY <1>1, <1>7, <2>2, MarksKept DEF Reboot, durableVars, NoPlan
<1>8. CASE Tick BY <1>1, <1>8, MarksKept DEF Tick, durableVars
<1>9. CASE Damage BY <1>1, <1>9, MarksKept DEF Damage, contextVars
<1>10. ASSUME NEW s \in Slots, NEW auth \in signed, NEW o \in Operations, NEW l \in Leases, NEW b \in Bindings,
              Plan(s, auth, o, l, b)
       PROVE  MarksInv'
  BY <1>1, <1>10, MarksPlan
<1>11. ASSUME NEW s \in Slots, Persist(s) PROVE MarksInv'
  BY <1>1, <1>11, MarksPersist
<1>12. ASSUME NEW s \in Slots, Reject(s) \/ Effect(s) PROVE MarksInv'
  <2>1. \A t \in Slots : plans'[t] = plans[t] \/ plans'[t].stage # "planned"
    BY <1>1, <1>12 DEF Reject, Effect, TypeOK, NoPlan
  <2> QED BY <1>1, <1>12, <2>1, MarksKept DEF Reject, Effect, durableVars, contextVars
<1>13. CASE UNCHANGED vars
  BY <1>1, <1>13, MarksKept DEF vars, durableVars, contextVars
<1> QED BY <1>3, <1>4, <1>5, <1>6, <1>7, <1>8, <1>9, <1>10, <1>11, <1>12, <1>13 DEF Next

\* A mark falls for the first time only by the retirement of its key, or when the plan of a
\* renewal under another key is stored that was made before a renewal of the same possession
\* context raised it (nextState of planWorkerLeaseAdmission): for any number of keys, slots
\* and contexts, a start or a new context never loses a mark.
THEOREM MarksFallByOverlapAlone == Spec => MarksFallOnlyByOverlap
<1> DEFINE Excused(k) ==
      \/ k \in trusted \ trusted'
      \/ /\ \E s \in Slots : plans[s].stage = "planned" /\ plans'[s].stage = "committed"
                             /\ plans[s].auth.op = "renew" /\ plans[s].auth.kid # k
         /\ \E a \in admitted : a.op = "renew" /\ a.kid = k /\ a.sequence = highWater[k] /\ a.binding = context.binding
<1>1. ASSUME MarksInv, [Next]_vars
      PROVE  \A k \in Keys \ putBack : highWater'[k] < highWater[k] => Excused(k)
  <2> SUFFICES ASSUME NEW k \in Keys, k \notin putBack, highWater'[k] < highWater[k] PROVE Excused(k)
    OBVIOUS
  <2>1. TypeOK /\ IInv /\ highWater[k] \in Nat BY <1>1 DEF MarksInv, IInv, TypeOK
  <2>2. ASSUME NEW s \in Slots, Persist(s) PROVE Excused(k)
    <3> DEFINE a == plans[s].auth
    <3>1. /\ plans[s].stage = "planned" /\ plans[s] \in Plans /\ a.sequence \in Nat
          /\ highWater[a.kid] \in Nat /\ highWater[a.kid] < a.sequence /\ highWater'[a.kid] = a.sequence
          /\ \A j \in Keys : j # a.kid => highWater'[j] = plans[s].marks[j]
      BY <2>1, <2>2, PersistMarks
    <3>2. k # a.kid
      <4> SUFFICES ASSUME k = a.kid PROVE FALSE
        OBVIOUS
      <4> QED BY <3>1
    <3>3. plans[s].marks[k] < highWater[k] BY <3>1, <3>2
    <3>4. plans'[s].stage = "committed" BY <2>1, <2>2, PersistPlans
    <3>5. plans[s].expected = context BY <2>2 DEF Persist, Compares
    <3>6. PICK c \in admitted : c.op = "renew" /\ c.kid = k /\ c.sequence = highWater[k] /\ c.binding = context.binding
      BY <1>1, <3>1, <3>3, <3>5 DEF MarksInv, LostAreRenewals
    <3>7. context.lease # NoLease
      BY <1>1, <2>1, <3>6 DEF MarksInv, ContextInv, ContextIsOfLease, TypeOK, Authorizations, NoLease
    <3>8. a.op \in {"start", "renew"} BY <3>1, AuthorizationTypes DEF Authorizations, Operations
    <3>9. a.op = "renew" BY <1>1, <3>1, <3>5, <3>7, <3>8 DEF MarksInv, ContextInv, PlansFit
    <3> QED BY <3>1, <3>2, <3>4, <3>6, <3>9
  <2>3. ASSUME NEW keys \in SUBSET Keys, InstallTrust(keys) PROVE Excused(k)
    <3>1. trusted' = keys BY <2>3 DEF InstallTrust
    <3>2. k \notin trusted \ keys => highWater'[k] = highWater[k] BY <2>3 DEF InstallTrust
    <3>3. k \in trusted \ keys BY <2>1, <3>2
    <3> QED BY <3>1, <3>3
  <2>4. CASE UNCHANGED highWater BY <2>1, <2>4
  <2>5. (\E s \in Slots : Persist(s)) \/ (\E keys \in SUBSET Keys : InstallTrust(keys)) \/ UNCHANGED highWater
    BY <1>1 DEF Next, vars, durableVars, Sign, Establish, Invalidate, Reboot, Tick, Damage, Plan, Reject, Effect
  <2> QED BY <2>2, <2>3, <2>4, <2>5
<1>2. MarksInv /\ [Next]_vars => [\A k \in Keys \ putBack : highWater'[k] < highWater[k] => Excused(k)]_vars BY <1>1
<1>3. Init => MarksInv BY MarksInit
<1>4. MarksInv /\ [Next]_vars => MarksInv' BY MarksStep
<1> QED BY <1>2, <1>3, <1>4, PTL DEF Spec, MarksFallOnlyByOverlap
=============================================================================
