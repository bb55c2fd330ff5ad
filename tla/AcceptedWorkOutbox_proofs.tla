--------------------- MODULE AcceptedWorkOutbox_proofs ---------------------
(***************************************************************************)
(* Proofs that the outbox and the Gate Authority agree about every share,  *)
(* for every number of events, delivery workers and leases and for all     *)
(* lengths of the delivery lease, the backoff and the retention period.    *)
(***************************************************************************)
EXTENDS AcceptedWorkOutbox, TLAPS

\* A worker between its claim and the end of deliver_one.
Busy(w) == wkPc[w] \in {"delivering", "answered"}

\* No lease id is ahead of the grants, so the next grant is fresh.
LeasesIssued ==
  /\ live # None => live <= leases
  /\ \A e \in Events : lease[e] <= leases

\* A busy worker's claim is a copy of the first observation, taken in the past; the row
\* is gone only when no frame can be stored any more.
ClaimsMatch ==
  \A w \in Workers : Busy(w) =>
    /\ claim[w] \in Claim
    /\ claim[w].now <= clock
    /\ claim[w].received = received[claim[w].event]
    /\ claim[w].lease = lease[claim[w].event]
    /\ state[claim[w].event] = "absent" => Retention <= clock

\* The Authority stores an event as first observed, and outlives its row only when no
\* frame can be stored any more.
StoredMatch ==
  \A e \in Events : stored[e] # None =>
    /\ stored[e] = received[e]
    /\ state[e] = "absent" => Retention <= clock

\* What a settled row, and a worker about to settle one, know of the Authority.
RowsAgree ==
  \A e \in Events :
    /\ state[e] = "acknowledged" => stored[e] # None
    /\ state[e] = "refused" => stored[e] = None /\ lease[e] # live

WorkersAgree ==
  \A w \in Workers : wkPc[w] = "answered" =>
    /\ answer[w] = "ok" => stored[claim[w].event] # None
    /\ answer[w] = "refused" => stored[claim[w].event] = None /\ lease[claim[w].event] # live

\* A busy worker holds its row under the lease of its claim, or that lease has lapsed.
Holding ==
  \A w \in Workers : Busy(w) =>
    \/ owner[claim[w].event] = w /\ until[claim[w].event] = claim[w].now + DeliveryLease
    \/ owner[claim[w].event] # w /\ claim[w].now + DeliveryLease <= clock

\* A retired row leaves nothing behind for the next one.
AbsentBlank ==
  \A e \in Events : state[e] = "absent" =>
    owner[e] = None /\ nextAt[e] = None /\ settledAt[e] = None /\ attempts[e] = 0

\* An attempt is counted at most once for each second before the lease or the backoff
\* that follows it ends.
Paced ==
  \A e \in Events :
    /\ attempts[e] <= clock + 1
    /\ owner[e] # None => attempts[e] + DeliveryLease <= until[e] + 1
    /\ owner[e] = None /\ state[e] = "pending" =>
         IF nextAt[e] = None THEN attempts[e] = 0 ELSE attempts[e] <= nextAt[e]

\* The inductive invariant.
IInv ==
  /\ TypeOK
  /\ SettlementCheck
  /\ LeasesIssued
  /\ ClaimsMatch
  /\ StoredMatch
  /\ RowsAgree
  /\ WorkersAgree
  /\ Holding
  /\ AbsentBlank
  /\ Paced
  /\ BackoffBounded

-----------------------------------------------------------------------------
\* The backoff is at least a second and at most MAX_DELIVERY_RETRY_SECONDS.
LEMMA RetryDelayBounds ==
  ASSUME NEW n \in Nat \ {0}
  PROVE  retry_delay_seconds(n) \in 1..MaxRetry
<1>1. MaxRetry \in Nat \ {0}
  BY OutboxAssumption
<1>2. ASSUME NEW k \in 0..16 PROVE 2 ^ k \in Nat \ {0}
  <2>1. \/ k = 0 \/ k = 1 \/ k = 2 \/ k = 3 \/ k = 4 \/ k = 5 \/ k = 6 \/ k = 7 \/ k = 8
        \/ k = 9 \/ k = 10 \/ k = 11 \/ k = 12 \/ k = 13 \/ k = 14 \/ k = 15 \/ k = 16
    OBVIOUS
  <2>2. /\ 2 ^ 0 \in Nat \ {0} /\ 2 ^ 1 \in Nat \ {0} /\ 2 ^ 2 \in Nat \ {0}
        /\ 2 ^ 3 \in Nat \ {0} /\ 2 ^ 4 \in Nat \ {0} /\ 2 ^ 5 \in Nat \ {0}
        /\ 2 ^ 6 \in Nat \ {0} /\ 2 ^ 7 \in Nat \ {0} /\ 2 ^ 8 \in Nat \ {0}
        /\ 2 ^ 9 \in Nat \ {0} /\ 2 ^ 10 \in Nat \ {0} /\ 2 ^ 11 \in Nat \ {0}
        /\ 2 ^ 12 \in Nat \ {0} /\ 2 ^ 13 \in Nat \ {0} /\ 2 ^ 14 \in Nat \ {0}
        /\ 2 ^ 15 \in Nat \ {0} /\ 2 ^ 16 \in Nat \ {0}
    OBVIOUS
  <2>3. QED
    BY <2>1, <2>2, Zenon
<1> DEFINE k == IF n - 1 <= 16 THEN n - 1 ELSE 16
           delay == 2 ^ k
<1>3. k \in 0..16
  OBVIOUS
<1> HIDE DEF k
<1>4. delay \in Nat \ {0}
  BY <1>2, <1>3, Zenon
<1>5. retry_delay_seconds(n) = IF delay <= MaxRetry THEN delay ELSE MaxRetry
  BY Zenon DEF retry_delay_seconds, k
<1> HIDE DEF delay
<1>6. QED
  BY <1>1, <1>4, <1>5

\* The empty outbox satisfies the invariant.
LEMMA InitIInv == Init => IInv
<1> SUFFICES ASSUME Init PROVE IInv
  OBVIOUS
<1> USE OutboxAssumption DEF Init
<1>1. TypeOK
  BY DEF TypeOK
<1>2. SettlementCheck /\ LeasesIssued /\ RowsAgree /\ StoredMatch /\ BackoffBounded
  BY DEF SettlementCheck, LeasesIssued, RowsAgree, StoredMatch, BackoffBounded
<1>3. ClaimsMatch /\ WorkersAgree /\ Holding
  BY DEF ClaimsMatch, WorkersAgree, Holding, Busy
<1>4. AbsentBlank /\ Paced
  BY DEF AbsentBlank, Paced
<1>5. QED
  BY <1>1, <1>2, <1>3, <1>4 DEF IInv

-----------------------------------------------------------------------------
\* Time alone keeps the invariant.
LEMMA TickStep ==
  ASSUME IInv, Tick
  PROVE  IInv'
<1> USE OutboxAssumption DEF Tick, IInv, authorityVars, observation, deliveryVars, workerVars
<1>1. TypeOK'
  BY DEF TypeOK
<1>2. SettlementCheck' /\ LeasesIssued' /\ RowsAgree' /\ WorkersAgree' /\ AbsentBlank'
  BY DEF SettlementCheck, LeasesIssued, RowsAgree, WorkersAgree, AbsentBlank
<1>3. ClaimsMatch' /\ StoredMatch'
  BY DEF ClaimsMatch, StoredMatch, Busy, TypeOK, Claim
<1>4. Holding'
  BY DEF Holding, ClaimsMatch, Busy, TypeOK, Claim
<1>5. Paced' /\ BackoffBounded'
  BY DEF Paced, BackoffBounded, TypeOK
<1>6. QED
  BY <1>1, <1>2, <1>3, <1>4, <1>5

\* A fresh lease id is in no row, and a lease that ended does not come back.
LEMMA LeaseStep ==
  ASSUME IInv, StartLease \/ EndLease
  PROVE  IInv'
<1> USE OutboxAssumption DEF StartLease, EndLease, IInv, observation, deliveryVars, workerVars
<1>1. TypeOK'
  BY DEF TypeOK
<1>2. SettlementCheck' /\ AbsentBlank' /\ Paced' /\ BackoffBounded' /\ StoredMatch'
  BY DEF SettlementCheck, AbsentBlank, Paced, BackoffBounded, StoredMatch
<1>3. ClaimsMatch' /\ Holding'
  BY DEF ClaimsMatch, Holding, Busy
<1>4. LeasesIssued'
  BY DEF LeasesIssued, TypeOK
<1>5. \A e \in Events : lease[e] # live => lease[e] # live'
  BY DEF LeasesIssued, TypeOK
<1>6. RowsAgree'
  BY <1>5 DEF RowsAgree
<1>7. WorkersAgree'
  BY <1>5 DEF WorkersAgree, ClaimsMatch, Busy, Claim
<1>8. QED
  BY <1>1, <1>2, <1>3, <1>4, <1>6, <1>7

\* A new row is a first observation: nobody delivers the event and nobody stored it.
LEMMA PersistStep ==
  ASSUME IInv, NEW e \in Events, NEW l \in 1..leases, NEW now \in Readings, Persist(e, l, now)
  PROVE  IInv'
<1> USE OutboxAssumption DEF Persist, IInv, authorityVars, workerVars
<1>1. now \in Nat /\ now <= clock /\ l \in Nat /\ l <= leases
  BY DEF Readings, TypeOK
<1>2. TypeOK'
  BY <1>1 DEF TypeOK
<1>3. clock < Retention
  BY DEF TypeOK
<1>4. \A w \in Workers : Busy(w) => claim[w].event # e
  BY <1>3 DEF ClaimsMatch, TypeOK
<1>5. stored[e] = None
  BY <1>3 DEF StoredMatch, TypeOK
<1>6. SettlementCheck' /\ AbsentBlank'
  BY DEF SettlementCheck, AbsentBlank, TypeOK
<1>7. Paced' /\ BackoffBounded'
  BY DEF Paced, AbsentBlank, BackoffBounded, TypeOK
<1>8. LeasesIssued'
  BY <1>1 DEF LeasesIssued, TypeOK
<1>9. StoredMatch'
  BY <1>5 DEF StoredMatch, TypeOK
<1>10. ClaimsMatch' /\ Holding'
  BY <1>4 DEF ClaimsMatch, Holding, Busy, TypeOK, Claim
<1>11. RowsAgree' /\ WorkersAgree'
  BY <1>4 DEF RowsAgree, WorkersAgree, ClaimsMatch, Busy, TypeOK, Claim
<1>12. QED
  BY <1>2, <1>6, <1>7, <1>8, <1>9, <1>10, <1>11

\* A claim leases a row that is free or whose lease has lapsed, and copies it.
LEMMA ClaimNextStep ==
  ASSUME IInv, NEW w \in Workers, NEW now \in Readings, ClaimNext(w, now)
  PROVE  IInv'
<1> USE OutboxAssumption DEF IInv, authorityVars, observation
<1>1. PICK e \in Candidates(now) :
        /\ owner'    = [owner EXCEPT ![e] = w]
        /\ until'    = [until EXCEPT ![e] = now + DeliveryLease]
        /\ attempts' = [attempts EXCEPT ![e] = @ + 1]
        /\ claim' = [claim EXCEPT ![w] =
             [event |-> e, now |-> now, attempt |-> attempts[e] + 1,
              received |-> received[e], lease |-> lease[e]]]
  BY DEF ClaimNext
<1>2. /\ wkPc' = [wkPc EXCEPT ![w] = "delivering"] /\ wkPc[w] = "idle"
      /\ UNCHANGED <<clock, live, leases, stored, received, lease, state, nextAt,
                     settledAt, answer>>
  BY DEF ClaimNext
<1>3. now \in Nat /\ now <= clock
  BY DEF Readings, TypeOK
<1>4. /\ e \in Events /\ state[e] = "pending"
      /\ owner[e] = None \/ until[e] <= now
      /\ nextAt[e] = None \/ nextAt[e] <= now
  BY DEF Candidates, Claimable
<1>5. claim'[w] \in Claim
  BY <1>1, <1>3, <1>4 DEF Claim, TypeOK
<1>6. TypeOK'
  BY <1>1, <1>2, <1>3, <1>4, <1>5 DEF TypeOK
<1>7. SettlementCheck' /\ AbsentBlank'
  BY <1>1, <1>2, <1>3, <1>4 DEF SettlementCheck, AbsentBlank, TypeOK
<1>8. LeasesIssued' /\ StoredMatch' /\ RowsAgree' /\ BackoffBounded'
  BY <1>2 DEF LeasesIssued, StoredMatch, RowsAgree, BackoffBounded
<1>9. ClaimsMatch'
  BY <1>1, <1>2, <1>3, <1>4, <1>5 DEF ClaimsMatch, Busy, TypeOK
<1>10. WorkersAgree'
  BY <1>1, <1>2 DEF WorkersAgree, TypeOK
<1>11. Holding'
  <2> SUFFICES ASSUME NEW v \in Workers, Busy(v)'
               PROVE  \/ /\ owner'[claim'[v].event] = v
                         /\ until'[claim'[v].event] = claim'[v].now + DeliveryLease
                      \/ /\ owner'[claim'[v].event] # v
                         /\ claim'[v].now + DeliveryLease <= clock'
    BY DEF Holding
  <2>1. CASE v = w
    BY <2>1, <1>1, <1>3, <1>4 DEF TypeOK
  <2>2. CASE v # w
    <3>1. Busy(v) /\ claim'[v] = claim[v] /\ claim[v] \in Claim
      BY <2>2, <1>1, <1>2 DEF Busy, TypeOK, ClaimsMatch
    <3>2. CASE claim[v].event = e
      <4>1. claim'[v].event = e /\ owner'[e] = w
        BY <3>1, <3>2, <1>1, <1>4 DEF TypeOK
      <4>2. claim[v].now + DeliveryLease <= clock
        <5>1. CASE owner[e] = v
          BY <5>1, <3>1, <3>2, <1>3, <1>4 DEF Holding, TypeOK, Claim
        <5>2. CASE owner[e] # v
          BY <5>2, <3>1, <3>2 DEF Holding
        <5>3. QED
          BY <5>1, <5>2
      <4>3. QED
        BY <2>2, <3>1, <4>1, <4>2, <1>2
    <3>3. CASE claim[v].event # e
      BY <3>1, <3>3, <1>1, <1>2, <1>4 DEF Holding, TypeOK, Claim
    <3>4. QED
      BY <3>2, <3>3
  <2>3. QED
    BY <2>1, <2>2
<1>12. Paced'
  <2>1. attempts[e] <= now
    <3>1. CASE owner[e] = None
      BY <3>1, <1>3, <1>4 DEF Paced, TypeOK
    <3>2. CASE owner[e] # None
      BY <3>2, <1>3, <1>4 DEF Paced, TypeOK, SettlementCheck
    <3>3. QED
      BY <3>1, <3>2
  <2>2. QED
    BY <2>1, <1>1, <1>2, <1>3, <1>4 DEF Paced, TypeOK
<1>13. QED
  BY <1>6, <1>7, <1>8, <1>9, <1>10, <1>11, <1>12

-----------------------------------------------------------------------------
\* Whatever the Authority answers, a stored event stays as it is, a refusal leaves the
\* event unstored and its lease over, and a lease that is over does not return.
LEMMA VerdictFacts ==
  ASSUME IInv, NEW w \in Workers, wkPc[w] = "delivering",
         NEW v \in Verdicts(claim[w]) \cup
           {[says |-> "refused", stores |-> stored[claim[w].event], live |-> live]}
  PROVE  LET e == claim[w].event IN
         /\ e \in Events
         /\ v.stores = stored[e] \/ (stored[e] = None /\ v.stores = received[e] /\ lease[e] = live)
         /\ v.live \in {live, None}
         /\ v \in Verdicts(claim[w]) =>
              /\ v.says \in {"ok", "refused"}
              /\ v.says = "ok" => v.stores # None
              /\ v.says = "refused" => v.stores = None /\ lease[e] # v.live
<1> USE OutboxAssumption DEF IInv
<1>1. /\ claim[w] \in Claim
      /\ claim[w].received = received[claim[w].event]
      /\ claim[w].lease = lease[claim[w].event]
  BY DEF ClaimsMatch, Busy
<1>2. /\ claim[w].event \in Events
      /\ claim[w].received \in Nat /\ claim[w].lease \in Nat
  BY <1>1 DEF Claim
<1>3. stored[claim[w].event] # None => stored[claim[w].event] = claim[w].received
  BY <1>1, <1>2 DEF StoredMatch
<1>4. CASE v \notin Verdicts(claim[w])
  BY <1>2, <1>4
<1>5. CASE v \in Verdicts(claim[w]) /\ stored[claim[w].event] # None
  BY <1>2, <1>3, <1>5 DEF Verdicts
<1>6. CASE v \in Verdicts(claim[w]) /\ stored[claim[w].event] = None
  BY <1>1, <1>2, <1>6 DEF Verdicts
<1>7. QED
  BY <1>4, <1>5, <1>6

\* The Authority's answer, heard or not, keeps the invariant.
LEMMA DeliverStep ==
  ASSUME IInv, NEW w \in Workers, Answered(w) \/ Outage(w)
  PROVE  IInv'
<1> USE OutboxAssumption DEF IInv
<1> DEFINE e == claim[w].event
           untouched == [says |-> "refused", stores |-> stored[e], live |-> live]
<1>1. wkPc[w] = "delivering"
  BY DEF Answered, Outage
<1>2. PICK v \in Verdicts(claim[w]) \cup {untouched},
           says \in {"ok", "refused", "unavailable"} :
        /\ Deliver(w, v, says)
        /\ says # "unavailable" => v \in Verdicts(claim[w]) /\ says = v.says
  BY <1>1, VerdictFacts DEF Answered, Outage
<1>3. /\ stored' = [stored EXCEPT ![e] = v.stores]
      /\ live' = v.live
      /\ answer' = [answer EXCEPT ![w] = says]
      /\ wkPc' = [wkPc EXCEPT ![w] = "answered"]
      /\ UNCHANGED <<clock, leases, received, lease, state, owner, until, nextAt,
                     attempts, settledAt, claim>>
  BY <1>2 DEF Deliver, observation, deliveryVars
<1>4. /\ e \in Events
      /\ v.stores = stored[e] \/ (stored[e] = None /\ v.stores = received[e] /\ lease[e] = live)
      /\ v.live \in {live, None}
      /\ says = "ok" => v.stores # None
      /\ says = "refused" => v.stores = None /\ lease[e] # v.live
  BY <1>1, <1>2, VerdictFacts
<1>5. claim[w] \in Claim /\ Busy(w) /\ (state[e] = "absent" => Retention <= clock)
  BY <1>1 DEF ClaimsMatch, Busy
<1> HIDE DEF e, untouched
<1>6. TypeOK'
  BY <1>3, <1>4 DEF TypeOK
<1>7. SettlementCheck' /\ AbsentBlank' /\ Paced' /\ BackoffBounded'
  BY <1>3 DEF SettlementCheck, AbsentBlank, Paced, BackoffBounded
<1>8. LeasesIssued'
  BY <1>3, <1>4 DEF LeasesIssued
<1>9. Busy(w)' /\ \A u \in Workers : Busy(u)' => Busy(u)
  BY <1>3, <1>5 DEF Busy, TypeOK
<1>10. ClaimsMatch'
  BY <1>3, <1>9 DEF ClaimsMatch
<1>11. Holding'
  BY <1>3, <1>9 DEF Holding
<1>12. StoredMatch'
  BY <1>3, <1>4, <1>5 DEF StoredMatch, TypeOK
<1>13. \A f \in Events :
         /\ stored[f] # None => stored'[f] # None
         /\ stored[f] = None /\ lease[f] # live => stored'[f] = None /\ lease[f] # live'
  BY <1>3, <1>4 DEF TypeOK
<1>14. RowsAgree'
  BY <1>3, <1>13 DEF RowsAgree
<1>15. WorkersAgree'
  <2> SUFFICES ASSUME NEW u \in Workers, wkPc'[u] = "answered"
               PROVE  /\ answer'[u] = "ok" => stored'[claim[u].event] # None
                      /\ answer'[u] = "refused" =>
                           stored'[claim[u].event] = None /\ lease[claim[u].event] # live'
    BY <1>3 DEF WorkersAgree
  <2>1. CASE u = w
    BY <2>1, <1>3, <1>4 DEF TypeOK, e
  <2>2. CASE u # w
    <3>1. wkPc[u] = "answered" /\ answer'[u] = answer[u]
      BY <2>2, <1>3 DEF TypeOK
    <3>2. claim[u].event \in Events
      BY <3>1 DEF ClaimsMatch, Busy, Claim
    <3>3. QED
      BY <3>1, <3>2, <1>13 DEF WorkersAgree
  <2>3. QED
    BY <2>1, <2>2
<1>16. QED
  BY <1>6, <1>7, <1>8, <1>10, <1>11, <1>12, <1>14, <1>15

-----------------------------------------------------------------------------
\* Ending deliver_one keeps what the other workers know.
LEMMA ReturnFacts ==
  ASSUME TypeOK, NEW w \in Workers, NEW pc \in {"idle", "dead"}, Return(w, pc)
  PROVE  /\ wkPc' \in [Workers -> {"idle", "delivering", "answered", "dead"}]
         /\ claim' \in [Workers -> Claim \cup {None}]
         /\ answer' \in [Workers -> {"none", "ok", "refused", "unavailable"}]
         /\ \A u \in Workers : Busy(u)' => u # w /\ Busy(u)
         /\ \A u \in Workers \ {w} : wkPc'[u] = wkPc[u] /\ claim'[u] = claim[u] /\ answer'[u] = answer[u]
         /\ ~Busy(w)'
BY DEF Return, TypeOK, Busy

\* A step that only ends a delivery keeps the invariant.
LEMMA ReturnStep ==
  ASSUME IInv, NEW w \in Workers, LoseLease(w) \/ SettlementFails(w) \/ CrashWorker(w)
  PROVE  IInv'
<1> USE DEF IInv
<1>1. UNCHANGED <<clock, live, leases, stored, received, lease, state, owner, until, nextAt,
                  attempts, settledAt>>
  BY DEF LoseLease, SettlementFails, CrashWorker, authorityVars, observation, deliveryVars
<1>2. PICK pc \in {"idle", "dead"} : Return(w, pc)
  BY DEF LoseLease, SettlementFails, CrashWorker
<1>3. TypeOK'
  BY <1>1, <1>2, ReturnFacts DEF TypeOK
<1>4. /\ SettlementCheck' /\ LeasesIssued' /\ StoredMatch' /\ RowsAgree' /\ AbsentBlank'
      /\ Paced' /\ BackoffBounded'
  BY <1>1 DEF SettlementCheck, LeasesIssued, StoredMatch, RowsAgree, AbsentBlank, Paced,
              BackoffBounded
<1>5. ClaimsMatch' /\ Holding'
  BY <1>1, <1>2, ReturnFacts DEF ClaimsMatch, Holding
<1>6. WorkersAgree'
  BY <1>1, <1>2, ReturnFacts DEF WorkersAgree, Busy
<1>7. QED
  BY <1>3, <1>4, <1>5, <1>6

\* Releasing a row that the worker owns leaves it to nobody, and every other worker on
\* it had lost it before.
LEMMA ReleaseHolding ==
  ASSUME TypeOK, ClaimsMatch, Holding, NEW w \in Workers, Busy(w),
         owner[claim[w].event] = w,
         owner' = [owner EXCEPT ![claim[w].event] = None],
         until' = [until EXCEPT ![claim[w].event] = None],
         Return(w, "idle"), clock' = clock
  PROVE  Holding'
<1> DEFINE e == claim[w].event
<1>1. e \in Events
  BY DEF ClaimsMatch, Claim
<1>2. SUFFICES ASSUME NEW u \in Workers, Busy(u)'
               PROVE  \/ /\ owner'[claim'[u].event] = u
                         /\ until'[claim'[u].event] = claim'[u].now + DeliveryLease
                      \/ /\ owner'[claim'[u].event] # u
                         /\ claim'[u].now + DeliveryLease <= clock'
  BY DEF Holding
<1>3. u # w /\ Busy(u) /\ claim'[u] = claim[u] /\ claim[u] \in Claim
  BY <1>2, ReturnFacts DEF ClaimsMatch
<1>4. CASE claim[u].event = e
  <2>1. owner'[e] = None /\ None # u
    BY <1>1, OutboxAssumption DEF TypeOK
  <2>2. claim[u].now + DeliveryLease <= clock
    BY <1>3, <1>4 DEF Holding
  <2>3. QED
    BY <1>3, <1>4, <2>1, <2>2
<1>5. CASE claim[u].event # e
  BY <1>1, <1>3, <1>5 DEF Holding, TypeOK, Claim
<1>6. QED
  BY <1>4, <1>5

\* Settling a row that the worker still owns writes what the Authority knows.
LEMMA SettleStep ==
  ASSUME IInv, NEW w \in Workers, Settle(w)
  PROVE  IInv'
<1> USE OutboxAssumption DEF IInv
<1> DEFINE e == claim[w].event
<1>1. /\ wkPc[w] = "answered" /\ answer[w] \in {"ok", "refused"}
      /\ state[e] = "pending" /\ owner[e] = w
      /\ state'     = [state EXCEPT ![e] = IF answer[w] = "ok" THEN "acknowledged" ELSE "refused"]
      /\ settledAt' = [settledAt EXCEPT ![e] = claim[w].now]
      /\ owner'     = [owner EXCEPT ![e] = None]
      /\ until'     = [until EXCEPT ![e] = None]
      /\ nextAt'    = [nextAt EXCEPT ![e] = None]
      /\ Return(w, "idle")
      /\ UNCHANGED <<clock, live, leases, stored, received, lease, attempts>>
  BY DEF Settle, Held, authorityVars, observation
<1>2. claim[w] \in Claim /\ e \in Events /\ claim[w].now \in Nat
  BY <1>1 DEF ClaimsMatch, Busy, Claim
<1>4. /\ answer[w] = "ok" => stored[e] # None
      /\ answer[w] = "refused" => stored[e] = None /\ lease[e] # live
  BY <1>1 DEF WorkersAgree
<1> HIDE DEF e
<1>5. TypeOK'
  BY <1>1, <1>2, ReturnFacts DEF TypeOK
<1>6. SettlementCheck' /\ AbsentBlank'
  BY <1>1, <1>2 DEF SettlementCheck, AbsentBlank, TypeOK
<1>7. LeasesIssued'
  BY <1>1 DEF LeasesIssued
<1>8. StoredMatch' /\ RowsAgree'
  BY <1>1, <1>2, <1>4 DEF StoredMatch, RowsAgree, TypeOK
<1>9. Paced' /\ BackoffBounded'
  BY <1>1, <1>2 DEF Paced, BackoffBounded, TypeOK
<1>10. ClaimsMatch'
  BY <1>1, <1>2, ReturnFacts DEF ClaimsMatch, TypeOK, Claim
<1>11. WorkersAgree'
  BY <1>1, ReturnFacts DEF WorkersAgree, Busy
<1>12. Holding'
  BY <1>1, ReleaseHolding DEF e, Busy
<1>13. QED
  BY <1>5, <1>6, <1>7, <1>8, <1>9, <1>10, <1>11, <1>12

\* Deferring frees the row until its backoff ends.
LEMMA DeferStep ==
  ASSUME IInv, NEW w \in Workers, Defer(w)
  PROVE  IInv'
<1> USE OutboxAssumption DEF IInv
<1> DEFINE e == claim[w].event
           delay == retry_delay_seconds(claim[w].attempt)
<1>1. /\ wkPc[w] = "answered"
      /\ state[e] = "pending" /\ owner[e] = w
      /\ owner'  = [owner EXCEPT ![e] = None]
      /\ until'  = [until EXCEPT ![e] = None]
      /\ nextAt' = [nextAt EXCEPT ![e] = claim[w].now + delay]
      /\ Return(w, "idle")
      /\ UNCHANGED <<clock, live, leases, stored, received, lease, state, attempts, settledAt>>
  BY DEF Defer, Held, authorityVars, observation
<1>2. /\ claim[w] \in Claim /\ e \in Events
      /\ claim[w].now \in Nat /\ claim[w].now <= clock /\ claim[w].attempt \in Nat \ {0}
  BY <1>1 DEF ClaimsMatch, Busy, Claim
<1>3. delay \in 1..MaxRetry
  BY <1>2, RetryDelayBounds
<1>5. until[e] = claim[w].now + DeliveryLease
  BY <1>1 DEF Holding, Busy
<1> HIDE DEF e, delay
<1>6. TypeOK'
  BY <1>1, <1>2, <1>3, ReturnFacts DEF TypeOK
<1>7. SettlementCheck' /\ AbsentBlank'
  BY <1>1, <1>2 DEF SettlementCheck, AbsentBlank, TypeOK
<1>8. LeasesIssued' /\ StoredMatch' /\ RowsAgree'
  BY <1>1 DEF LeasesIssued, StoredMatch, RowsAgree
<1>9. attempts[e] <= claim[w].now + 1
  BY <1>1, <1>2, <1>5 DEF Paced, TypeOK
<1>10. Paced'
  BY <1>1, <1>2, <1>3, <1>9 DEF Paced, TypeOK
<1>11. BackoffBounded'
  BY <1>1, <1>2, <1>3 DEF BackoffBounded, TypeOK
<1>12. ClaimsMatch'
  BY <1>1, ReturnFacts DEF ClaimsMatch
<1>13. WorkersAgree'
  BY <1>1, ReturnFacts DEF WorkersAgree, Busy
<1>14. Holding'
  BY <1>1, ReleaseHolding DEF e, Busy
<1>15. QED
  BY <1>6, <1>7, <1>8, <1>10, <1>11, <1>12, <1>13, <1>14

\* Retention reaches a row only after the last frame could be stored again.
LEMMA RetireStep ==
  ASSUME IInv, NEW asOf \in 0..clock, Retire(asOf)
  PROVE  IInv'
<1> USE OutboxAssumption DEF IInv
<1>1. PICK batch \in SUBSET Retirable(asOf) \ {{}} :
        /\ state'     = [e \in Events |-> IF e \in batch THEN "absent" ELSE state[e]]
        /\ settledAt' = [e \in Events |-> IF e \in batch THEN None ELSE settledAt[e]]
        /\ attempts'  = [e \in Events |-> IF e \in batch THEN 0 ELSE attempts[e]]
        /\ UNCHANGED <<clock, authorityVars, observation, owner, until, nextAt, workerVars>>
  BY DEF Retire
<1> USE <1>1 DEF authorityVars, observation, workerVars
<1>2. \A e \in batch :
        e \in Events /\ state[e] \in {"acknowledged", "refused"} /\ settledAt[e] + Retention <= asOf
  BY DEF Retirable
<1>3. \A e \in batch : settledAt[e] \in Nat /\ owner[e] = None /\ nextAt[e] = None
  BY <1>2 DEF SettlementCheck, TypeOK
<1>4. \A e \in batch : Retention <= clock
  BY <1>2, <1>3 DEF TypeOK
<1>5. TypeOK'
  BY DEF TypeOK
<1>6. SettlementCheck' /\ AbsentBlank'
  BY <1>3 DEF SettlementCheck, AbsentBlank, TypeOK
<1>7. LeasesIssued' /\ WorkersAgree' /\ BackoffBounded'
  BY DEF LeasesIssued, WorkersAgree, BackoffBounded
<1>8. StoredMatch' /\ RowsAgree'
  BY <1>4 DEF StoredMatch, RowsAgree, TypeOK
<1>9. ClaimsMatch' /\ Holding'
  BY <1>4 DEF ClaimsMatch, Holding, Busy, TypeOK, Claim
<1>10. Paced'
  BY <1>3 DEF Paced, TypeOK
<1>11. QED
  BY <1>5, <1>6, <1>7, <1>8, <1>9, <1>10

-----------------------------------------------------------------------------
\* Every step keeps the invariant.
LEMMA NextIInv == IInv /\ [Next]_vars => IInv'
<1> SUFFICES ASSUME IInv, [Next]_vars PROVE IInv'
  OBVIOUS
<1>1. CASE UNCHANGED vars
  BY <1>1 DEF vars, authorityVars, observation, deliveryVars, workerVars, IInv, TypeOK,
              SettlementCheck, LeasesIssued, ClaimsMatch, Busy, StoredMatch, RowsAgree,
              WorkersAgree, Holding, AbsentBlank, Paced, BackoffBounded
<1>2. CASE Tick
  BY <1>2, TickStep
<1>3. CASE StartLease \/ EndLease
  BY <1>3, LeaseStep
<1>4. CASE \E e \in Events, l \in 1..leases, now \in Readings : Persist(e, l, now)
  BY <1>4, PersistStep
<1>5. ASSUME NEW w \in Workers, WorkerStep(w) \/ CrashWorker(w) PROVE IInv'
  <2>1. CASE \E now \in Readings : ClaimNext(w, now)
    BY <2>1, ClaimNextStep
  <2>2. CASE \E now \in Readings : ClaimNothing(w, now)
    BY <2>2, <1>1 DEF ClaimNothing
  <2>3. CASE Answered(w) \/ Outage(w)
    BY <2>3, DeliverStep
  <2>4. CASE Settle(w)
    BY <2>4, SettleStep
  <2>5. CASE Defer(w)
    BY <2>5, DeferStep
  <2>6. CASE LoseLease(w) \/ SettlementFails(w) \/ CrashWorker(w)
    BY <2>6, ReturnStep
  <2>7. QED
    BY <1>5, <2>1, <2>2, <2>3, <2>4, <2>5, <2>6 DEF WorkerStep
<1>6. CASE \E asOf \in 0..clock : Retire(asOf)
  BY <1>6, RetireStep
<1>7. QED
  BY <1>1, <1>2, <1>3, <1>4, <1>5, <1>6 DEF Next

\* The inductive invariant holds in every reachable state.
THEOREM Invariance == Spec => []IInv
<1>1. QED
  BY InitIInv, NextIInv, PTL DEF Spec

\* Every row and worker record keeps its type (PostgresAcceptedWorkOutbox).
THEOREM TypeCorrectness == Spec => []TypeOK
<1>1. IInv => TypeOK
  BY DEF IInv
<1>2. QED
  BY <1>1, Invariance, PTL

\* The settlement CHECK constraint of accepted_work_outbox never fires.
THEOREM SettlementConstraint == Spec => []SettlementCheck
<1>1. IInv => SettlementCheck
  BY DEF IInv
<1>2. QED
  BY <1>1, Invariance, PTL

\* Outbox and Authority agree about every acknowledged and every refused share.
THEOREM SettlementAgreement == Spec => []SettlementAgrees
<1>1. IInv => SettlementAgrees
  BY DEF IInv, RowsAgree, StoredMatch, SettlementAgrees
<1>2. QED
  BY <1>1, Invariance, PTL

\* Competing workers are never told contradictory verdicts about one event.
THEOREM VerdictAgreement == Spec => []AnswersAgree
<1>1. IInv => AnswersAgree
  BY DEF IInv, WorkersAgree, AnswersAgree
<1>2. QED
  BY <1>1, Invariance, PTL

\* A share is settled once and for good: constraint, agreement of the two databases and
\* agreement of the answers on their way hold together, for every interleaving.
THEOREM SettlementSoundness == Spec => []SettlementSound
<1>1. SettlementCheck /\ SettlementAgrees /\ AnswersAgree => SettlementSound
  BY DEF SettlementSound
<1>2. QED
  BY <1>1, SettlementConstraint, SettlementAgreement, VerdictAgreement, PTL

\* A delivery is duplicated only after the first worker's lease has lapsed.
THEOREM TakeoverAfterLapse == Spec => []TakenOverOnlyAfterLapse
<1>1. IInv => TakenOverOnlyAfterLapse
  BY DEF IInv, Holding, Busy, TakenOverOnlyAfterLapse
<1>2. QED
  BY <1>1, Invariance, PTL

\* Attempts are at least a second apart and at most the backoff limit away.
THEOREM BoundedRetries == Spec => []RetriesBounded
<1>1. IInv => RetriesBounded
  BY DEF IInv, Paced, AttemptsPaced, RetriesBounded
<1>2. QED
  BY <1>1, Invariance, PTL

\* A share that the Authority stored is never stored again as a new one.
THEOREM NoSecondStorage == Spec => CountedNeverStoredAgain
<1>1. ASSUME IInv, [Next]_vars
      PROVE  [\A e \in Events :
                state[e] = "absent" /\ state'[e] = "pending" => stored[e] = None]_vars
  <2> SUFFICES ASSUME NEW e \in Events, state[e] = "absent", state'[e] = "pending"
               PROVE  stored[e] = None
    OBVIOUS
  <2>1. clock <= LastPersist
    BY <1>1 DEF IInv, TypeOK, Next, vars, Tick, StartLease, EndLease, Persist, WorkerStep,
       ClaimNext, ClaimNothing, Answered, Outage, Deliver, Settle, Held, Defer, LoseLease,
       SettlementFails, CrashWorker, Retire, authorityVars, observation, deliveryVars, workerVars
  <2>2. QED
    BY <1>1, <2>1, OutboxAssumption DEF IInv, TypeOK, StoredMatch
<1>2. QED
  BY <1>1, Invariance, PTL DEF Spec, CountedNeverStoredAgain
=============================================================================
