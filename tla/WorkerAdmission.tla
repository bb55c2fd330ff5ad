--------------------------- MODULE WorkerAdmission ---------------------------
(***************************************************************************)
(* Signed Work Lease authorizations at the Worker.  Each is bound to an    *)
(* operation, a request and the possession context it was prepared for,    *)
(* and carries the next sequence of its key.  The Worker plans an          *)
(* admission from the state it reads, compares and stores that plan, and   *)
(* only then acts; frames arrive late, twice or out of order, several of   *)
(* them are in progress at once, and contexts end at any time.             *)
(*                                                                         *)
(* A plan carries the whole next state, the marks of all keys among it,    *)
(* but only the mark of its own key is compared before it is stored.       *)
(* Renewals under two keys that were planned from one state are therefore  *)
(* both stored, and the second puts the mark of the first back.            *)
(***************************************************************************)
EXTENDS Naturals

CONSTANTS
  Keys,           \* Work Lease Authority keys
  Leases,
  Slots,          \* admissions in progress
  MaxSequence,    \* the last sequence (2^64 - 1 in the code)
  UnusedLimit,    \* UNUSED_WORKER_LEASE_CONTEXT_MILLISECONDS
  ContextLimit, ClockLimit  \* bounds of the instance

ASSUME AdmissionAssumption ==
  "none" \notin Leases /\ MaxSequence \in Nat /\ UnusedLimit \in Nat \ {0} /\ ContextLimit \in Nat /\ ClockLimit \in Nat

VARIABLES
  allocated,  \* the last sequence of each key the Authority handed out
  signed,     \* the authorizations it wrote
  trusted,    \* the keys of the installed trust
  highWater,  \* highWaterByKeyId, durable
  legible,    \* the durable record parses
  context,    \* maybeContext
  contexts,   \* possession contexts established so far
  now,        \* the Worker's monotonic clock
  putBack,    \* keys whose mark was put back by another key's plan, or removed (history)
  plans,
  admitted,   \* authorizations whose plan was stored
  effects     \* how often each was acted on: never, once, or more often (2)

authorityVars == <<allocated, signed, trusted>>
durableVars == <<highWater, putBack, legible, admitted>>
contextVars == <<context, contexts, now>>
vars == <<authorityVars, durableVars, contextVars, plans, effects>>

Operations == {"start", "renew"}
Sequences == 1..MaxSequence
Bindings == 1..ContextLimit
NoLease == "none"

Authorizations == [op : Operations, lease : Leases, binding : Bindings, kid : Keys, sequence : Sequences]
NoContext == [binding |-> 0, since |-> 0, lease |-> NoLease]
Contexts == [binding : 0..ContextLimit, since : 0..ClockLimit, lease : Leases \cup {NoLease}]
NoPlan == [stage |-> "none"]
Plans ==
  [stage : {"planned"}, auth : Authorizations, marks : [Keys -> 0..MaxSequence], expected : Contexts] \cup
  [stage : {"committed"}, auth : Authorizations]

Init ==
  /\ allocated = [k \in Keys |-> 0] /\ signed = {} /\ trusted \in SUBSET Keys \ {{}}
  /\ highWater = [k \in Keys |-> 0] /\ putBack = {} /\ legible = TRUE
  /\ context = NoContext /\ contexts = 0 /\ now = 0
  /\ plans = [s \in Slots |-> NoPlan]
  /\ admitted = {} /\ effects = [kn \in Keys \X Sequences |-> 0]

-----------------------------------------------------------------------------
\* The Authority and the trust.

\* parseSequence refuses what is past the last sequence.
Exhausted(k) == allocated[k] >= MaxSequence

\* signWorkerLeaseAuthorization, for a context some page has prepared.
Sign(k, op, lease, binding) ==
  /\ ~Exhausted(k) /\ binding \in 1..contexts
  /\ allocated' = [allocated EXCEPT ![k] = @ + 1]
  /\ signed' = signed \cup {[op |-> op, lease |-> lease, binding |-> binding, kid |-> k, sequence |-> allocated[k] + 1]}
  /\ UNCHANGED <<trusted, durableVars, contextVars, plans, effects>>

\* The trust (parseWorkLeaseAuthorityTrust) has at least one key.  A rotation adds one; a
\* destructive retirement removes a key and its mark together.
InstallTrust(keys) ==
  LET retired == trusted \ keys IN
  /\ keys # {} /\ trusted' = keys
  /\ highWater' = [k \in Keys |-> IF k \in retired THEN 0 ELSE highWater[k]]
  /\ putBack' = putBack \cup {k \in retired : highWater[k] > 0}
  /\ UNCHANGED <<allocated, signed, legible, admitted, contextVars, plans, effects>>

-----------------------------------------------------------------------------
\* The possession context.

Establish ==
  /\ contexts < ContextLimit
  /\ contexts' = contexts + 1
  /\ context' = [binding |-> contexts + 1, since |-> now, lease |-> NoLease]
  /\ UNCHANGED <<now, authorityVars, durableVars, plans, effects>>

\* invalidateWorkerLeaseAdmissionContext, on a restoration or a disconnect.
Invalidate ==
  /\ legible /\ context' = NoContext
  /\ UNCHANGED <<contexts, now, authorityVars, durableVars, plans, effects>>

\* A reboot also forgets what was in progress, committed or not, and restarts the clock.
Reboot ==
  /\ context' = NoContext /\ now' = 0
  /\ plans' = [s \in Slots |-> NoPlan]
  /\ UNCHANGED <<contexts, authorityVars, durableVars, effects>>

Tick ==
  /\ now < ClockLimit /\ now' = now + 1
  /\ UNCHANGED <<context, contexts, authorityVars, durableVars, plans, effects>>

Damage ==
  /\ legible /\ legible' = FALSE
  /\ UNCHANGED <<highWater, putBack, admitted, authorityVars, contextVars, plans, effects>>

-----------------------------------------------------------------------------
\* Admission.

\* verifyWorkerLeaseAuthorization: the operation, the request digest and the binding are those
\* of the frame, and exactly one trusted key made the signature.
Verified(auth, op, lease, binding) ==
  auth \in signed /\ auth.kid \in trusted /\ auth.op = op /\ auth.lease = lease /\ auth.binding = binding

\* Fault: an old frame of the same context is admitted again.
NotReplayedBlindly(auth) == TRUE

NotReplayed(auth) == auth.sequence > highWater[auth.kid]

\* Fault: a renewal is admitted for any lease once the context has one.
FitsAnyLease(op, lease) ==
  \/ op = "start" /\ context.lease = NoLease /\ now - context.since < UnusedLimit
  \/ op = "renew" /\ context.lease # NoLease

\* A start needs a context without a lease that is not too old; a renewal its own lease.
Fits(op, lease) ==
  \/ op = "start" /\ context.lease = NoLease /\ now - context.since < UnusedLimit
  \/ op = "renew" /\ context.lease = lease

\* planWorkerLeaseAdmission reads the marks of all keys; a refusal changes nothing.
Plan(s, auth, op, lease, binding) ==
  /\ plans[s] = NoPlan /\ Verified(auth, op, lease, binding)
  /\ legible /\ context.binding = binding /\ now >= context.since
  /\ Fits(op, lease) /\ NotReplayed(auth)
  /\ plans' = [plans EXCEPT ![s] = [stage |-> "planned", auth |-> auth, marks |-> highWater, expected |-> context]]
  /\ UNCHANGED <<authorityVars, durableVars, contextVars, effects>>

\* Fault: only the context is compared again.
ComparesContext(plan) == context = plan.expected

\* persist compares the mark of the plan's own key, and the context.
Compares(plan) == highWater[plan.auth.kid] = plan.marks[plan.auth.kid] /\ context = plan.expected

\* Committed: the next state, with the marks the plan was made from, replaces the stored one.
Persist(s) ==
  LET plan == plans[s] auth == plan.auth IN
  /\ plans[s].stage = "planned" /\ legible /\ Compares(plan)
  /\ highWater' = [plan.marks EXCEPT ![auth.kid] = auth.sequence]
  /\ putBack' = putBack \cup {k \in Keys \ {auth.kid} : plan.marks[k] < highWater[k]}
  /\ context' = [plan.expected EXCEPT !.lease = IF auth.op = "start" THEN auth.lease ELSE @]
  /\ admitted' = admitted \cup {auth}
  /\ plans' = [plans EXCEPT ![s] = [stage |-> "committed", auth |-> auth]]
  /\ UNCHANGED <<legible, contexts, now, authorityVars, effects>>

\* Stale, already committed, or the write failed: the admission is rejected.
Reject(s) ==
  /\ plans[s].stage = "planned"
  /\ plans' = [plans EXCEPT ![s] = NoPlan]
  /\ UNCHANGED <<authorityVars, durableVars, contextVars, effects>>

\* commitWorkerLeaseAdmission acts once its plan is committed.
Effect(s) ==
  LET auth == plans[s].auth IN
  /\ plans[s].stage = "committed"
  /\ effects' = [effects EXCEPT ![<<auth.kid, auth.sequence>>] = IF @ = 0 THEN 1 ELSE 2]
  /\ plans' = [plans EXCEPT ![s] = NoPlan]
  /\ UNCHANGED <<authorityVars, durableVars, contextVars>>

Next ==
  \/ \E k \in Keys, op \in Operations, lease \in Leases, binding \in Bindings : Sign(k, op, lease, binding)
  \/ \E keys \in SUBSET Keys : InstallTrust(keys)
  \/ Establish \/ Invalidate \/ Reboot \/ Tick \/ Damage
  \/ \E s \in Slots, auth \in signed, op \in Operations, lease \in Leases, binding \in Bindings : Plan(s, auth, op, lease, binding)
  \/ \E s \in Slots : Persist(s) \/ Reject(s) \/ Effect(s)

Spec == Init /\ [][Next]_vars

-----------------------------------------------------------------------------
\* Properties.

\* Every variable has its type.
TypeOK ==
  /\ allocated \in [Keys -> 0..MaxSequence] /\ signed \subseteq Authorizations /\ trusted \subseteq Keys
  /\ highWater \in [Keys -> 0..MaxSequence] /\ putBack \subseteq Keys /\ legible \in BOOLEAN
  /\ context \in Contexts /\ contexts \in 0..ContextLimit /\ now \in 0..ClockLimit
  /\ plans \in [Slots -> Plans \cup {NoPlan}]
  /\ admitted \subseteq Authorizations /\ effects \in [Keys \X Sequences -> 0..2]

\* An authorization of a key whose mark was not put back is acted on at most once, although
\* frames repeat, admissions plan from the same state and a reboot may fall between the store
\* and the action.
EffectOnce == \A k \in Keys \ putBack, n \in Sequences : effects[<<k, n>>] <= 1

\* For such a key nothing is acted on that a reboot could forget: its sequence is stored before.
DurableBeforeEffect == \A k \in Keys \ putBack, n \in Sequences : effects[<<k, n>>] > 0 => highWater[k] >= n

\* A start is acted on at most once whatever became of its key's mark: the context it is bound
\* to has a lease from then on.
StartOnce == \A a \in signed : a.op = "start" => effects[<<a.kid, a.sequence>>] <= 1

\* Together: a frame that is repeated, delayed or overtaken, with any reboot between store and
\* action, leads to at most one action, and to none that the durable record does not know.
\* Excepted are the renewals of a key whose mark a plan of another key has put back, or a
\* retirement removed; starts are not (commitWorkerLeaseAdmission).
EffectsSound == EffectOnce /\ DurableBeforeEffect /\ StartOnce

\* One possession context serves one lease: it admits one start, and renewals only of the
\* lease it started (planWorkerLeaseAdmission and the context comparison of persist).
OneLeasePerContext ==
  /\ \A a, b \in admitted : a.binding = b.binding => a.lease = b.lease
  /\ \A a, b \in admitted : a.op = "start" /\ b.op = "start" /\ a.binding = b.binding => a = b
  /\ \A a \in admitted : a.op = "renew" => \E b \in admitted : b.op = "start" /\ b.binding = a.binding

\* What is stored for a key falls for the first time only when the key is retired, or when a
\* renewal under another key is stored and what is lost is a renewal of the possession context
\* still in use: no start, no other context and no admission of the key itself loses a mark
\* (nextState of planWorkerLeaseAdmission against the comparison of persist).
MarksFallOnlyByOverlap ==
  [][\A k \in Keys \ putBack : highWater'[k] < highWater[k] =>
       \/ k \in trusted \ trusted'
       \/ /\ \E s \in Slots : plans[s].stage = "planned" /\ plans'[s].stage = "committed"
                              /\ plans[s].auth.op = "renew" /\ plans[s].auth.kid # k
          /\ \E a \in admitted : a.op = "renew" /\ a.kid = k /\ a.sequence = highWater[k] /\ a.binding = context.binding
    ]_vars

\* What is stored for a key never falls while it is trusted ("Overlap rotation retains
\* independent high-water marks", docs/adr/0093).  Two renewals under two keys, planned from one
\* state, refute it.
HighWaterGrows == [][\A k \in trusted' : highWater'[k] >= highWater[k]]_vars
=============================================================================
