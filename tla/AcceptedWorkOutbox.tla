------------------------ MODULE AcceptedWorkOutbox ------------------------
(***************************************************************************)
(* The Pool Adapter's outbox for one Work Session: shares that the Mining  *)
(* Pool accepted are stored under their event id and delivered at least    *)
(* once to the Gate Authority by competing delivery workers.               *)
(*                                                                         *)
(* Every SQL statement of the outbox commits by itself, so a delivery is   *)
(* three actions: ClaimNext, the Authority's answer, and the statement     *)
(* that settles or defers the row.  deliver_one reads the clock once; the  *)
(* last statement compares the lease with that old reading.                *)
(*                                                                         *)
(* The Authority is kept down to what decides a delivery: the lease that   *)
(* the session holds and the events it has stored.  GateAuthority models   *)
(* the rest of its transaction.                                            *)
(***************************************************************************)
EXTENDS Naturals

CONSTANTS
  Events,        \* event ids: the digest of the session and the submitted frame
  Workers,       \* delivery workers; a restarted process is a new one
  Crashable,     \* the workers that may stop for good
  DeliveryLease, \* DELIVERY_LEASE_SECONDS
  MaxRetry,      \* MAX_DELIVERY_RETRY_SECONDS
  Retention,     \* HOSTED_OPERATIONAL_RETENTION_SECONDS, the shortest allowed
  LastPersist,   \* the session's credentials lapse and no answer comes after this
  LastFault,     \* outages, and claims by workers that will stop, end here
  MaxLag,        \* how far a clock reading may lag
  MaxLeases, MaxClock,   \* bounds of the instance
  None

ASSUME OutboxAssumption ==
  /\ Crashable \subseteq Workers
  /\ {DeliveryLease, MaxRetry} \subseteq Nat \ {0}
  /\ {Retention, LastPersist, LastFault, MaxLag, MaxLeases, MaxClock} \subseteq Nat
  /\ LastPersist < Retention
  /\ None \notin Nat \cup Workers

VARIABLES
  clock,
  live, leases,                   \* the session's Work Lease at the Authority; leases granted
  stored,                         \* accepted_work_events: received_at of the stored event
  state, received, lease,         \* accepted_work_outbox: delivery_state, first observation
  owner, until, nextAt, attempts, \* its delivery lease, backoff and delivery_attempts
  settledAt,                      \* acknowledged_at_unix_seconds
  wkPc, claim, answer             \* each worker: step, ClaimedAcceptedWork, sink's answer

authorityVars == <<live, leases, stored>>
observation   == <<received, lease>>
deliveryVars  == <<state, owner, until, nextAt, attempts, settledAt>>
workerVars    == <<wkPc, claim, answer>>
vars == <<clock, authorityVars, observation, deliveryVars, workerVars>>

Claim == [event : Events, now : Nat, attempt : Nat \ {0}, received : Nat, lease : Nat]

\* NULL is not a claim.
ASSUME NoClaimAssumption == None \notin Claim

Init ==
  /\ clock = 0
  /\ live = None /\ leases = 0
  /\ stored    = [e \in Events |-> None]
  /\ state     = [e \in Events |-> "absent"]
  /\ received  = [e \in Events |-> 0]
  /\ lease     = [e \in Events |-> 0]
  /\ owner     = [e \in Events |-> None]
  /\ until     = [e \in Events |-> None]
  /\ nextAt    = [e \in Events |-> None]
  /\ attempts  = [e \in Events |-> 0]
  /\ settledAt = [e \in Events |-> None]
  /\ wkPc   = [w \in Workers |-> "idle"]
  /\ claim  = [w \in Workers |-> None]
  /\ answer = [w \in Workers |-> "none"]

\* The clock readings a handler may be using now.
Readings == {t \in 0..clock : t + MaxLag >= clock}

Tick ==
  /\ clock < MaxClock
  /\ clock' = clock + 1
  /\ UNCHANGED <<authorityVars, observation, deliveryVars, workerVars>>

-----------------------------------------------------------------------------
\* The session's Work Lease at the Authority.

\* Every start has a fresh lease id; a session holds one lease at a time.
StartLease ==
  /\ live = None
  /\ leases < MaxLeases
  /\ leases' = leases + 1
  /\ live' = leases + 1
  /\ UNCHANGED <<clock, stored, observation, deliveryVars, workerVars>>

\* Pause, interruption, cancellation, expiry or replacement.
EndLease ==
  /\ live # None
  /\ live' = None
  /\ UNCHANGED <<clock, leases, stored, observation, deliveryVars, workerVars>>

\* accept_work's answers to a delivery, with what they leave behind.  A stored event is
\* compared first and answered from its row; work of another lease is refused; work of
\* the live lease is stored, which may satisfy the challenge and end the lease, or is
\* found late or out of continuity, which ends it.
Verdicts(k) ==
  IF stored[k.event] # None
  THEN {[says |-> IF stored[k.event] = k.received THEN "ok" ELSE "refused",
         stores |-> stored[k.event], live |-> live]}
  ELSE {[says |-> "ok", stores |-> k.received, live |-> l] :
          l \in {x \in {live, None} : k.lease = live}}
       \cup {[says |-> "refused", stores |-> None, live |-> l] :
          l \in {x \in {live, None} : k.lease = live => x = None}}

-----------------------------------------------------------------------------
\* Storing what the Mining Pool accepted.

\* Fault: a resubmitted frame replaces the first observation.
PersistLatest(e, l, now) ==
  /\ clock <= LastPersist
  /\ state[e] \in {"absent", "pending"}
  /\ state'    = [state EXCEPT ![e] = "pending"]
  /\ received' = [received EXCEPT ![e] = now]
  /\ lease'    = [lease EXCEPT ![e] = l]
  /\ UNCHANGED <<clock, authorityVars, owner, until, nextAt, attempts, settledAt, workerVars>>

\* A connection authenticated under lease l, perhaps an older one, stores an accepted
\* submission.  A resubmitted frame meets the row: the same lease is answered from it,
\* another is a ConflictingOutboxReplay, and neither changes it.
Persist(e, l, now) ==
  /\ clock <= LastPersist
  /\ state[e] = "absent"
  /\ state'    = [state EXCEPT ![e] = "pending"]
  /\ received' = [received EXCEPT ![e] = now]
  /\ lease'    = [lease EXCEPT ![e] = l]
  /\ UNCHANGED <<clock, authorityVars, owner, until, nextAt, attempts, settledAt, workerVars>>

-----------------------------------------------------------------------------
\* Delivery.

\* Fault: only unowned rows are candidates.
ClaimableUnowned(e, now) ==
  /\ state[e] = "pending"
  /\ owner[e] = None
  /\ nextAt[e] = None \/ nextAt[e] <= now

\* Fault: a lease is taken over one second early.
ClaimableEarly(e, now) ==
  /\ state[e] = "pending"
  /\ owner[e] = None \/ until[e] <= now + 1
  /\ nextAt[e] = None \/ nextAt[e] <= now

\* A pending row that nobody holds, or whose lease has lapsed, past its backoff.
Claimable(e, now) ==
  /\ state[e] = "pending"
  /\ owner[e] = None \/ until[e] <= now
  /\ nextAt[e] = None \/ nextAt[e] <= now

\* The oldest candidates; event ids break ties.
Candidates(now) ==
  {e \in Events : /\ Claimable(e, now)
                  /\ \A f \in Events : Claimable(f, now) => received[e] <= received[f]}

\* Fault: the claim reports the attempts before it.
ClaimNextCountingBefore(w, now) ==
  /\ wkPc[w] = "idle"
  /\ w \in Crashable => clock <= LastFault
  /\ \E e \in Candidates(now) :
       /\ owner'    = [owner EXCEPT ![e] = w]
       /\ until'    = [until EXCEPT ![e] = now + DeliveryLease]
       /\ attempts' = [attempts EXCEPT ![e] = @ + 1]
       /\ claim' = [claim EXCEPT ![w] =
            [event |-> e, now |-> now, attempt |-> attempts[e],
             received |-> received[e], lease |-> lease[e]]]
  /\ wkPc' = [wkPc EXCEPT ![w] = "delivering"]
  /\ UNCHANGED <<clock, authorityVars, observation, state, nextAt, settledAt, answer>>

\* claim_next: the row is leased and its content travels with the claim.
ClaimNext(w, now) ==
  /\ wkPc[w] = "idle"
  /\ w \in Crashable => clock <= LastFault
  /\ \E e \in Candidates(now) :
       /\ owner'    = [owner EXCEPT ![e] = w]
       /\ until'    = [until EXCEPT ![e] = now + DeliveryLease]
       /\ attempts' = [attempts EXCEPT ![e] = @ + 1]
       /\ claim' = [claim EXCEPT ![w] =
            [event |-> e, now |-> now, attempt |-> attempts[e] + 1,
             received |-> received[e], lease |-> lease[e]]]
  /\ wkPc' = [wkPc EXCEPT ![w] = "delivering"]
  /\ UNCHANGED <<clock, authorityVars, observation, state, nextAt, settledAt, answer>>

\* DeliveryOutcome::Empty
ClaimNothing(w, now) ==
  /\ wkPc[w] = "idle"
  /\ Candidates(now) = {}
  /\ UNCHANGED vars

\* The Authority's transaction ran, or did not, and the worker hears says.
Deliver(w, v, says) ==
  /\ stored' = [stored EXCEPT ![claim[w].event] = v.stores]
  /\ live' = v.live
  /\ answer' = [answer EXCEPT ![w] = says]
  /\ wkPc' = [wkPc EXCEPT ![w] = "answered"]
  /\ UNCHANGED <<clock, leases, observation, deliveryVars, claim>>

Answered(w) ==
  /\ wkPc[w] = "delivering"
  /\ \E v \in Verdicts(claim[w]) : Deliver(w, v, v.says)

\* An outage before the transaction, or an error after its commit (a notification, the
\* lifecycle read): the worker cannot tell.
Outage(w) ==
  LET untouched == [says |-> "refused", stores |-> stored[claim[w].event], live |-> live] IN
  /\ wkPc[w] = "delivering"
  /\ clock <= LastFault
  /\ \E v \in Verdicts(claim[w]) \cup {untouched} : Deliver(w, v, "unavailable")

\* The guard of settle and defer.  Its now is the reading of the claim.
Held(w) ==
  LET k == claim[w] IN
  /\ state[k.event] = "pending"
  /\ owner[k.event] = w
  /\ until[k.event] > k.now

\* deliver_one returns, and its claim goes with it.
Return(w, pc) ==
  /\ wkPc'   = [wkPc EXCEPT ![w] = pc]
  /\ claim'  = [claim EXCEPT ![w] = None]
  /\ answer' = [answer EXCEPT ![w] = "none"]

\* acknowledge and refuse
Settle(w) ==
  LET e == claim[w].event IN
  /\ wkPc[w] = "answered"
  /\ answer[w] \in {"ok", "refused"}
  /\ Held(w)
  /\ state'     = [state EXCEPT ![e] = IF answer[w] = "ok" THEN "acknowledged" ELSE "refused"]
  /\ settledAt' = [settledAt EXCEPT ![e] = claim[w].now]
  /\ owner'     = [owner EXCEPT ![e] = None]
  /\ until'     = [until EXCEPT ![e] = None]
  /\ nextAt'    = [nextAt EXCEPT ![e] = None]
  /\ Return(w, "idle")
  /\ UNCHANGED <<clock, authorityVars, observation, attempts>>

\* Fault: the backoff keeps doubling.
retry_doubling(n) == 2 ^ (n - 1)

\* Doubling from one second, up to MAX_DELIVERY_RETRY_SECONDS.
retry_delay_seconds(n) ==
  LET delay == 2 ^ (IF n - 1 <= 16 THEN n - 1 ELSE 16) IN
  IF delay <= MaxRetry THEN delay ELSE MaxRetry

\* defer
Defer(w) ==
  LET e == claim[w].event IN
  /\ wkPc[w] = "answered"
  /\ answer[w] = "unavailable"
  /\ Held(w)
  /\ owner'  = [owner EXCEPT ![e] = None]
  /\ until'  = [until EXCEPT ![e] = None]
  /\ nextAt' = [nextAt EXCEPT ![e] = claim[w].now + retry_delay_seconds(claim[w].attempt)]
  /\ Return(w, "idle")
  /\ UNCHANGED <<clock, authorityVars, observation, state, attempts, settledAt>>

\* LostDeliveryLease: another worker took the row over.
LoseLease(w) ==
  /\ wkPc[w] = "answered"
  /\ ~Held(w)
  /\ Return(w, "idle")
  /\ UNCHANGED <<clock, authorityVars, observation, deliveryVars>>

\* The outbox database fails the last statement: the row waits for its lease to lapse.
SettlementFails(w) ==
  /\ wkPc[w] = "answered"
  /\ clock <= LastFault
  /\ Return(w, "idle")
  /\ UNCHANGED <<clock, authorityVars, observation, deliveryVars>>

CrashWorker(w) ==
  /\ w \in Crashable
  /\ wkPc[w] # "dead"
  /\ Return(w, "dead")
  /\ UNCHANGED <<clock, authorityVars, observation, deliveryVars>>

-----------------------------------------------------------------------------
\* Fault: the retention period is not subtracted.
RetirableAtOnce(asOf) ==
  {e \in Events : state[e] \in {"acknowledged", "refused"} /\ settledAt[e] <= asOf}

\* Settled rows beyond the retention period; pending ones are never candidates.
Retirable(asOf) ==
  {e \in Events : /\ state[e] \in {"acknowledged", "refused"}
                  /\ settledAt[e] + Retention <= asOf}

\* retire deletes the longest settled rows, up to its batch size.
Retire(asOf) ==
  \E batch \in SUBSET Retirable(asOf) \ {{}} :
    /\ \A e \in batch, f \in Retirable(asOf) \ batch : settledAt[e] <= settledAt[f]
    /\ state'     = [e \in Events |-> IF e \in batch THEN "absent" ELSE state[e]]
    /\ settledAt' = [e \in Events |-> IF e \in batch THEN None ELSE settledAt[e]]
    /\ attempts'  = [e \in Events |-> IF e \in batch THEN 0 ELSE attempts[e]]
    /\ UNCHANGED <<clock, authorityVars, observation, owner, until, nextAt, workerVars>>

-----------------------------------------------------------------------------
WorkerStep(w) ==
  \/ \E now \in Readings : ClaimNext(w, now) \/ ClaimNothing(w, now)
  \/ Answered(w) \/ Outage(w)
  \/ Settle(w) \/ Defer(w) \/ LoseLease(w) \/ SettlementFails(w)

Next ==
  \/ Tick \/ StartLease \/ EndLease
  \/ \E e \in Events, l \in 1..leases, now \in Readings : Persist(e, l, now)
  \/ \E w \in Workers : WorkerStep(w) \/ CrashWorker(w)
  \/ \E asOf \in 0..clock : Retire(asOf)

Spec == Init /\ [][Next]_vars

\* Time passes and the delivery workers outside Crashable poll forever.
FairSpec ==
  /\ Spec
  /\ WF_vars(Tick)
  /\ \A w \in Workers \ Crashable : WF_vars(WorkerStep(w))

-----------------------------------------------------------------------------
\* Properties.

\* Every row and every worker record has its type (migrations/pool_adapter).
TypeOK ==
  /\ clock \in Nat
  /\ live \in Nat \cup {None} /\ leases \in Nat
  /\ stored \in [Events -> Nat \cup {None}]
  /\ state \in [Events -> {"absent", "pending", "acknowledged", "refused"}]
  /\ received \in [Events -> Nat] /\ lease \in [Events -> Nat]
  /\ owner \in [Events -> Workers \cup {None}]
  /\ until \in [Events -> Nat \cup {None}]
  /\ nextAt \in [Events -> Nat \cup {None}]
  /\ attempts \in [Events -> Nat]
  /\ settledAt \in [Events -> Nat \cup {None}]
  /\ wkPc \in [Workers -> {"idle", "delivering", "answered", "dead"}]
  /\ claim \in [Workers -> Claim \cup {None}]
  /\ answer \in [Workers -> {"none", "ok", "refused", "unavailable"}]

\* accepted_work_outbox_settlement_check never fires: a delivery lease has both its
\* columns or neither, and a settled row keeps its settlement time and nothing of its
\* delivery, whatever a worker that lost the row still writes.
SettlementCheck ==
  \A e \in Events :
    /\ owner[e] = None <=> until[e] = None
    /\ state[e] = "pending" => settledAt[e] = None
    /\ state[e] \in {"acknowledged", "refused"} =>
         settledAt[e] # None /\ owner[e] = None /\ nextAt[e] = None

\* The two databases never disagree about a settled share: the Authority has stored an
\* acknowledged one exactly as first observed, and has not stored a refused one
\* (settle after accept_work, with crashes and takeovers between them).
SettlementAgrees ==
  \A e \in Events :
    /\ state[e] = "acknowledged" => stored[e] = received[e]
    /\ state[e] = "refused" => stored[e] = None

\* A refusal is terminal (ADR-0108): while one worker carries a refusal back, the
\* Authority has not stored the event and no other worker carries its acknowledgement.
AnswersAgree ==
  \A v, w \in Workers :
    wkPc[v] = "answered" /\ answer[v] = "refused" =>
      /\ stored[claim[v].event] = None
      /\ ~(wkPc[w] = "answered" /\ answer[w] = "ok" /\ claim[w].event = claim[v].event)

\* A share is settled once and for good: the settlement constraint never fires, the
\* outbox and the Authority agree about every settled share, and no worker that lost its
\* row carries an answer that contradicts them (deliver_one).
SettlementSound == SettlementCheck /\ SettlementAgrees /\ AnswersAgree

\* Two workers are at work on one event only after the lease of the first has lapsed.
TakenOverOnlyAfterLapse ==
  \A w \in Workers :
    wkPc[w] \in {"delivering", "answered"} /\ owner[claim[w].event] # w =>
      claim[w].now + DeliveryLease <= clock

\* However many outages an event has met, its next attempt is at most
\* MAX_DELIVERY_RETRY_SECONDS away.
BackoffBounded ==
  \A e \in Events : nextAt[e] # None => nextAt[e] <= clock + MaxRetry

\* Failures never make delivery_attempts, a 32-bit column, run faster than one a second.
AttemptsPaced == \A e \in Events : attempts[e] <= clock + 1

\* Retries neither run away nor stop: the backoff and the attempt counter stay bounded,
\* through takeovers too (retry_delay_seconds, claim_next).
RetriesBounded == BackoffBounded /\ AttemptsPaced

\* Retention never makes the outbox forget a counted share while its Worker can still
\* submit it again.
CountedNeverStoredAgain ==
  [][\A e \in Events : state[e] = "absent" /\ state'[e] = "pending" => stored[e] = None]_vars

\* Every stored share is settled in the end (ADR-0028), although workers stop,
\* deliveries fail and leases lapse.
EveryShareSettled ==
  \A e \in Events : state[e] = "pending" ~> state[e] \in {"acknowledged", "refused"}
=============================================================================
