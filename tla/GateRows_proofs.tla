--------------------------- MODULE GateRows_proofs ---------------------------
(***************************************************************************)
(* Proofs about the Gate Authority's accounting, session and retention     *)
(* rows: progress is exactly the credited work, replacements form a chain, *)
(* every row moves along its matrix, for every number of challenges,       *)
(* sessions, events, shares and workers.                                   *)
(***************************************************************************)
EXTENDS GateAuthority_proofs, FiniteSums

-----------------------------------------------------------------------------
\* The sum of stored credits.

\* The sum of the credits that the acknowledgements rows store for the events in S.
CreditSum(rows, S) == MapThenSumSet(LAMBDA e : rows[e].credited, S)

\* The credit of each event in S.
CreditOf(rows, S) == [e \in S |-> rows[e].credited]

\* Every event of S stores a natural number as its credit.
Credits(rows, S) == \A e \in S : rows[e].credited \in Nat

\* The function g that the library's sum over S is computed by.
Folded(rows, S, g) ==
  g = [s \in SUBSET S |-> IF s = {} THEN 0 ELSE rows[First(s)].credited + g[s \ {First(s)}]]

\* The library's sum over a finite set does not depend on the order it takes.
LEMMA CreditSumIs ==
  ASSUME NEW rows, NEW S, IsFiniteSet(S)
  PROVE  CreditSum(rows, S) = SumOver(CreditOf(rows, S), S)
<1> DEFINE g == CHOOSE x : Folded(rows, S, x)
<1>1. CreditSum(rows, S) = g[S]
  BY Zenon DEF CreditSum, MapThenSumSet, MapThenFoldSet, Folded, First
<1>2. \A x : Folded(rows, S, x) <=> Sums(CreditOf(rows, S), S, x)
  <2> SUFFICES ASSUME NEW x PROVE Folded(rows, S, x) <=> Sums(CreditOf(rows, S), S, x)
    OBVIOUS
  <2>1. \A s \in SUBSET S :
          Unfold(CreditOf(rows, S), s, x) = IF s = {} THEN 0 ELSE rows[First(s)].credited + x[s \ {First(s)}]
    BY FirstIn DEF Unfold, CreditOf
  <2>2. QED
    BY <2>1 DEF Folded, Sums
<1>3. \E x : Folded(rows, S, x)
  BY <1>2, SumsExist
<1>4. Sums(CreditOf(rows, S), S, g)
  <2>1. Folded(rows, S, g)
    BY <1>3, Zenon
  <2>2. QED
    BY <1>2, <2>1
<1> HIDE DEF g
<1>5. QED
  BY <1>1, <1>4, SumOverIs

\* Nothing sums to nothing.
LEMMA SumEmpty == ASSUME NEW rows PROVE CreditSum(rows, {}) = 0
BY CreditSumIs, SumOverEmpty, FS_EmptySet

\* One more event adds its credit.
LEMMA SumAdd ==
  ASSUME NEW rows, NEW S, IsFiniteSet(S), NEW e, e \notin S, Credits(rows, S \cup {e})
  PROVE  CreditSum(rows, S \cup {e}) = CreditSum(rows, S) + rows[e].credited
<1> DEFINE f == CreditOf(rows, S \cup {e})
<1>1. f[e] = rows[e].credited /\ \A x \in S : f[x] = CreditOf(rows, S)[x]
  BY DEF CreditOf
<1>2. NaturalsOn(f, S \cup {e})
  BY DEF Credits, NaturalsOn, CreditOf
<1>3. IsFiniteSet(S \cup {e})
  BY FS_AddElement
<1>4. CreditSum(rows, S \cup {e}) = SumOver(f, S \cup {e}) /\ CreditSum(rows, S) = SumOver(CreditOf(rows, S), S)
  BY <1>3, CreditSumIs
<1> HIDE DEF f
<1>5. SumOver(f, S \cup {e}) = SumOver(f, S) + f[e] /\ SumOver(f, S) = SumOver(CreditOf(rows, S), S)
  BY <1>1, <1>2, SumOverAdd, SumOverSame
<1>6. QED
  BY <1>1, <1>4, <1>5

\* Acknowledgements outside the set do not matter.
LEMMA SumSame ==
  ASSUME NEW rows, NEW others, NEW S, IsFiniteSet(S),
         \A e \in S : rows[e].credited = others[e].credited
  PROVE  CreditSum(rows, S) = CreditSum(others, S)
<1>1. CreditOf(rows, S) = CreditOf(others, S)
  BY DEF CreditOf
<1>2. QED
  BY <1>1, CreditSumIs

-----------------------------------------------------------------------------
\* Exact accounting.

\* The acknowledgement of e is the one that created the intent of challenge c.
Created(e, c) == ack[e] # None /\ ack[e].challenge = c /\ ack[e].intent_created

\* The accounting part of the inductive invariant.  The sum is over a finite set, because
\* events are stored one by one, and an event that created an intent left it behind.
AccountShape ==
  /\ \A c \in Challenges : IsFiniteSet(CreditedEvents(c))
  /\ \A c \in Challenges : progress[c] = CreditSum(ack, CreditedEvents(c))
  /\ \A c \in Challenges : intent[c] # "none" => \E e \in Events : Created(e, c)
  /\ \A c \in Challenges, e \in Events : Created(e, c) => intent[c] # "none"
  /\ \A c \in Challenges, e1, e2 \in Events : Created(e1, c) /\ Created(e2, c) => e1 = e2

\* What one stored event does to the accounting rows: progress grows by the stored
\* credit, which is positive exactly for a share that was new, and the event that
\* creates the intent is marked.
Stores(e, c) ==
  /\ ack[e] = None
  /\ ack'[e] \in Acknowledgement /\ ack'[e] # None
  /\ \A x \in Events : x # e => ack'[x] = ack[x]
  /\ ack'[e].challenge = c
  /\ chState[c] = "active"
  /\ intent[c] = "none"
  /\ sesState[ack'[e].session] = "leased"
  /\ progress' = [progress EXCEPT ![c] = progress[c] + ack'[e].credited]
  /\ ack'[e].disposition = "credited" => ack'[e].credited > 0
  /\ ack'[e].disposition # "credited" => ack'[e].credited = 0
  /\ ack'[e].intent_created <=> intent'[c] # "none"
  /\ \A d \in Challenges : d # c => intent'[d] = intent[d]

\* Accepted work stores one event.
LEMMA AcceptWorkStores ==
  ASSUME IInv, NEW e \in Events, NEW s \in Sessions, NEW f \in Shares, NEW work \in Works,
         NEW id, NEW boot \in Boots, NEW reading, NEW received, NEW now \in Readings,
         AcceptWork(e, s, f, work, id, boot, reading, received, now)
  PROVE  sesChallenge[s] \in Challenges /\ Stores(e, sesChallenge[s])
<1> USE DEF IInv
<1> DEFINE c == sesChallenge[s]
           inserted == shareOwner[f] = None
           t == accepted_work_transition(progress[c], Requirement[c], work, inserted)
           stored == [session |-> s, share |-> f, work |-> work, challenge |-> c,
                      disposition |-> t.disposition, credited |-> t.credited,
                      progress |-> t.progress, intent_created |-> t.intent_created]
<1>1. c \in Challenges /\ chState[c] = "active" /\ intent[c] = "none"
  BY ChallengeCommandFacts DEF AcceptWork, TypeOK, Deliverable, SessionRowShape, EarnedShape
<1>2. /\ progress[c] \in Nat /\ Requirement[c] \in Nat /\ work \in Nat /\ work > 0
      /\ inserted \in BOOLEAN /\ ~meets(progress[c], Requirement[c])
  BY <1>1, ConstantsAssumption DEF TypeOK, EarnedShape
<1>3. sesState[s] = "leased" /\ ack[e] = None
  BY SessionCommandFacts DEF AcceptWork, Deliverable
<1>4. /\ RecordTransition(c, t)
      /\ ack' = [ack EXCEPT ![e] = stored]
  BY DEF AcceptWork
<1> HIDE DEF t, inserted, c
<1>5. /\ t.disposition = (IF inserted THEN "credited" ELSE "duplicate_share")
      /\ t.credited = (IF inserted THEN work ELSE 0)
      /\ t.progress = progress[c] + t.credited
  BY <1>2 DEF accepted_work_transition, t
<1>6. t.intent_created \in BOOLEAN
  <2>1. t.intent_created = (~meets(progress[c], Requirement[c]) /\ meets(t.progress, Requirement[c]))
    BY Zenon DEF accepted_work_transition, t
  <2>2. QED
    BY <2>1, Zenon
<1>7. /\ t.disposition \in {"credited", "duplicate_share"}
      /\ t.credited \in Nat /\ t.progress \in Nat
      /\ t.disposition = "credited" => t.credited > 0
      /\ t.disposition # "credited" => t.credited = 0
  BY <1>2, <1>5
<1>8. stored \in Acknowledgement /\ stored # None
  <2>1. stored \in Acknowledgement
    BY <1>1, <1>6, <1>7 DEF Acknowledgement
  <2>2. QED
    BY <2>1, NoneAssumption
<1>9. /\ stored.session = s /\ stored.challenge = c /\ stored.disposition = t.disposition
      /\ stored.credited = t.credited /\ stored.intent_created = t.intent_created
  OBVIOUS
<1> HIDE DEF stored
<1>10. ack'[e] = stored /\ \A x \in Events : x # e => ack'[x] = ack[x]
  BY <1>4 DEF TypeOK
<1>11. progress' = [progress EXCEPT ![c] = progress[c] + ack'[e].credited]
  BY <1>4, <1>5, <1>9, <1>10 DEF RecordTransition
<1>12. /\ t.intent_created <=> intent'[c] # "none"
       /\ \A d \in Challenges : d # c => intent'[d] = intent[d]
  BY <1>1, <1>4, <1>6 DEF RecordTransition, TypeOK
<1>13. Stores(e, c)
  BY <1>1, <1>3, <1>7, <1>8, <1>9, <1>10, <1>11, <1>12 DEF Stores
<1>14. QED
  BY <1>1, <1>13 DEF c

\* Every other step leaves the accounting rows alone and neither creates nor drops an
\* intent.
LEMMA AccountingStep ==
  ASSUME IInv, [Next]_vars
  PROVE  \/ /\ UNCHANGED <<progress, ack>>
            /\ \A c \in Challenges : intent'[c] # "none" <=> intent[c] # "none"
         \/ \E e \in Events, c \in Challenges : Stores(e, c)
<1> DEFINE Quiet == /\ UNCHANGED <<progress, ack>>
                    /\ \A c \in Challenges : intent'[c] # "none" <=> intent[c] # "none"
<1> USE DEF challengeVars, accountVars, issuanceVars
<1>1. CASE UNCHANGED vars \/ Tick
  BY <1>1 DEF vars, Tick
<1>2. ASSUME NEW now \in Readings, NEW d \in Challenges, ChallengeRequest(d, now)
      PROVE  Quiet
  BY <1>2 DEF ChallengeRequest, InsertChallenge, ProposePoolSelection, ConfirmPoolSelection,
     TerminalizeExpired, CancelChallenge, PauseChallenge, InsertWorkSession
<1>3. ASSUME NEW now \in Readings, NEW s \in Sessions, SessionRequest(s, now)
      PROVE  Quiet
  BY <1>3 DEF SessionRequest, ReplaceWorkSession, StartWorkLease, RenewWorkLease
<1>4. ASSUME NEW now \in Readings, NEW e \in Events, NEW s \in Sessions, Delivery(e, s, now)
      PROVE  Quiet \/ \E c \in Challenges : Stores(e, c)
  <2>1. PICK received \in 0..(clock + PoolSkew) :
          \/ AcceptWorkLate(e, s, received, now)
          \/ \E id \in 1..leaseCount[s], boot \in Boots, reading \in 0..MaxReading :
               \/ AcceptWorkStops(e, s, id, boot, reading, received, now)
               \/ \E f \in Shares, work \in Works :
                    AcceptWork(e, s, f, work, id, boot, reading, received, now)
    BY <1>4 DEF Delivery
  <2>2. CASE AcceptWorkLate(e, s, received, now)
    BY <2>2 DEF AcceptWorkLate
  <2>3. ASSUME NEW id \in 1..leaseCount[s], NEW boot \in Boots, NEW reading \in 0..MaxReading,
               AcceptWorkStops(e, s, id, boot, reading, received, now)
        PROVE  Quiet
    BY <2>3 DEF AcceptWorkStops
  <2>4. ASSUME NEW id \in 1..leaseCount[s], NEW boot \in Boots, NEW reading \in 0..MaxReading,
               NEW f \in Shares, NEW work \in Works,
               AcceptWork(e, s, f, work, id, boot, reading, received, now)
        PROVE  \E c \in Challenges : Stores(e, c)
    BY <2>4, AcceptWorkStores
  <2> HIDE DEF Quiet
  <2>5. QED
    BY <2>1, <2>2, <2>3, <2>4 DEF Quiet
<1>5. ASSUME NEW s \in Sessions, SessionReport(s)
      PROVE  Quiet
  BY <1>5 DEF SessionReport, InterruptWorkSession, ConfirmWorkSessionRestored, FailWorkSession
<1>6. ASSUME NEW w \in Workers, WorkerStep(w) \/ CrashWorker(w)
      PROVE  Quiet
  <2>1. ASSUME NEW claimed \in SUBSET Challenges, NEW now \in Readings,
               \A c \in claimed : Claimable(c, now), SweepAndMark(claimed, w, now)
        PROVE  Quiet
    BY <2>1 DEF SweepAndMark, Claimable, Overdue
  <2>2. ASSUME NEW now \in Readings, PollIssuance(w, now)
        PROVE  Quiet
    <3>1. {} \in SUBSET Challenges /\ \A c \in {} : Claimable(c, now)
      OBVIOUS
    <3>2. QED
      BY <2>1, <2>2, <3>1 DEF PollIssuance
  <2>3. ASSUME NEW now \in Readings, NEW c \in Challenges, ClaimIssuance(w, c, now)
        PROVE  Quiet
    <3>1. {c} \in SUBSET Challenges /\ \A d \in {c} : Claimable(d, now)
      BY <2>3 DEF ClaimIssuance
    <3>2. QED
      BY <2>1, <2>3, <3>1 DEF ClaimIssuance
  <2>4. CASE CommitIssuance(w)
    BY <2>4 DEF CommitIssuance, IInv, TypeOK, OneCompletion, WorkerShape
  <2>5. QED
    BY <1>6, <2>2, <2>3, <2>4
       DEF WorkerStep, SignPass, SigningUnavailable, WriteIssuance, CrashWorker
<1> HIDE DEF Quiet
<1>7. QED
  BY <1>1, <1>2, <1>3, <1>4, <1>5, <1>6 DEF Next, Quiet

\* A stored event keeps the accounting exact.
LEMMA StoresAccount ==
  ASSUME IInv, AccountShape, NEW e \in Events, NEW c \in Challenges, Stores(e, c)
  PROVE  AccountShape'
<1>1. /\ ack[e] = None /\ ack'[e] \in Acknowledgement /\ ack'[e] # None
      /\ \A x \in Events : x # e => ack'[x] = ack[x]
      /\ ack'[e].challenge = c /\ intent[c] = "none"
      /\ progress' = [progress EXCEPT ![c] = progress[c] + ack'[e].credited]
      /\ ack'[e].disposition # "credited" => ack'[e].credited = 0
      /\ ack'[e].intent_created <=> intent'[c] # "none"
      /\ \A d \in Challenges : d # c => intent'[d] = intent[d]
  BY DEF Stores
<1>2. ack \in [Events -> Acknowledgement \cup {None}] /\ progress \in [Challenges -> Nat]
  BY ConstantsAssumption DEF IInv, TypeOK
<1>3. ASSUME NEW d \in Challenges
      PROVE  /\ IsFiniteSet(CreditedEvents(d)')
             /\ progress'[d] = CreditSum(ack', CreditedEvents(d)')
  <2> DEFINE S == CreditedEvents(d)
             T == CreditedEvents(d)'
             more == d = c /\ ack'[e].disposition = "credited"
  <2>1. e \notin S /\ \A x \in S : x \in Events /\ ack[x] \in Acknowledgement
    BY <1>1, <1>2 DEF CreditedEvents
  <2>2. more => T = S \cup {e}
    BY <1>1 DEF CreditedEvents
  <2>3. ~more => T = S
    BY <1>1 DEF CreditedEvents
  <2>4. IsFiniteSet(S) /\ progress[d] = CreditSum(ack, S)
    BY DEF AccountShape
  <2>5. \A x \in S : ack[x].credited = ack'[x].credited
    BY <1>1, <2>1
  <2>6. Credits(ack', S \cup {e})
    BY <1>1, <2>1 DEF Credits, Acknowledgement
  <2> HIDE DEF S, T
  <2>7. CreditSum(ack, S) = CreditSum(ack', S)
    BY <2>4, <2>5, SumSame
  <2>8. CASE more
    <3>1. CreditSum(ack', S \cup {e}) = CreditSum(ack', S) + ack'[e].credited
      BY <2>1, <2>4, <2>6, SumAdd
    <3>2. progress'[d] = progress[d] + ack'[e].credited
      BY <1>1, <1>2, <2>8
    <3>3. IsFiniteSet(T)
      BY <2>2, <2>4, <2>8, FS_AddElement
    <3>4. QED
      BY <2>2, <2>4, <2>7, <2>8, <3>1, <3>2, <3>3 DEF T
  <2>9. CASE ~more
    <3>1. progress'[d] = progress[d]
      BY <1>1, <1>2, <2>9
    <3>2. QED
      BY <2>3, <2>4, <2>7, <2>9, <3>1 DEF T
  <2>10. QED
    BY <2>8, <2>9
<1>4. \A d \in Challenges, x \in Events :
        Created(x, d)' <=> IF x = e THEN d = c /\ ack'[e].intent_created ELSE Created(x, d)
  BY <1>1 DEF Created
<1>5. \A x \in Events : ~Created(x, c)
  BY <1>1 DEF AccountShape
<1>6. ~Created(e, c) /\ \A d \in Challenges : ~Created(e, d)
  BY <1>1 DEF Created
<1>7. \A d \in Challenges : intent'[d] # "none" => \E x \in Events : Created(x, d)'
  BY <1>1, <1>4, <1>6 DEF AccountShape
<1>8. \A d \in Challenges, x \in Events : Created(x, d)' => intent'[d] # "none"
  BY <1>1, <1>4, <1>5 DEF AccountShape
<1>9. \A d \in Challenges, e1, e2 \in Events : Created(e1, d)' /\ Created(e2, d)' => e1 = e2
  BY <1>4, <1>5 DEF AccountShape
<1>10. QED
  BY <1>3, <1>7, <1>8, <1>9 DEF AccountShape

\* Every step keeps the accounting exact.
LEMMA AccountShapeStep ==
  ASSUME IInv, AccountShape, [Next]_vars
  PROVE  AccountShape'
<1>1. CASE /\ UNCHANGED <<progress, ack>>
           /\ \A c \in Challenges : intent'[c] # "none" <=> intent[c] # "none"
  <2>1. \A c \in Challenges : CreditedEvents(c)' = CreditedEvents(c)
    BY <1>1 DEF CreditedEvents
  <2>2. \A c, e : Created(e, c)' <=> Created(e, c)
    BY <1>1 DEF Created
  <2>3. /\ \A c \in Challenges : IsFiniteSet(CreditedEvents(c)')
        /\ \A c \in Challenges : progress'[c] = CreditSum(ack', CreditedEvents(c)')
    BY <1>1, <2>1 DEF AccountShape
  <2>4. /\ \A c \in Challenges : intent'[c] # "none" => \E e \in Events : Created(e, c)'
        /\ \A c \in Challenges, e \in Events : Created(e, c)' => intent'[c] # "none"
        /\ \A c \in Challenges, e1, e2 \in Events : Created(e1, c)' /\ Created(e2, c)' => e1 = e2
    BY <1>1, <2>2 DEF AccountShape
  <2>5. QED
    BY <2>3, <2>4 DEF AccountShape
<1>2. CASE \E e \in Events, c \in Challenges : Stores(e, c)
  BY <1>2, StoresAccount
<1>3. QED
  BY <1>1, <1>2, AccountingStep

\* Nothing is stored at first.
LEMMA AccountShapeInit == Init => AccountShape
<1> SUFFICES ASSUME Init PROVE AccountShape
  OBVIOUS
<1>1. \A c \in Challenges : CreditedEvents(c) = {}
  BY DEF Init, CreditedEvents
<1>2. \A c, e : e \in Events => ~Created(e, c)
  BY DEF Init, Created
<1>3. \A c \in Challenges : IsFiniteSet(CreditedEvents(c)) /\ progress[c] = CreditSum(ack, CreditedEvents(c))
  BY <1>1, FS_EmptySet, SumEmpty DEF Init
<1>4. \A c \in Challenges : intent[c] = "none"
  BY DEF Init
<1>5. QED
  BY <1>2, <1>3, <1>4 DEF AccountShape

\* Verified Progress is the sum of the acknowledged credits, and the pass is owed exactly
\* when the requirement is met, by one event, for every number of events and shares.
THEOREM Accounting == Spec => []ProgressExact
<1>1. IInv /\ AccountShape => ProgressExact
  <2> SUFFICES ASSUME IInv, AccountShape PROVE ProgressExact
    OBVIOUS
  <2>1. ProgressIsCreditedWork
    BY Zenon DEF AccountShape, ProgressIsCreditedWork, CreditSum
  <2>2. IntentExactlyWhenEarned
    BY DEF AccountShape, Created, IInv, EarnedShape, meets, IntentExactlyWhenEarned
  <2>3. QED
    BY <2>1, <2>2 DEF ProgressExact
<1>2. IInv /\ AccountShape /\ [Next]_vars => AccountShape'
  BY AccountShapeStep
<1>3. QED
  BY <1>1, <1>2, AccountShapeInit, Invariance, PTL DEF Spec

\* Progress moves only for an active challenge, upwards, and by a newly stored event of a
\* leased session.
THEOREM CreditUnderLease == Spec => CreditNeedsLease
<1> DEFINE Credit == \A c \in Challenges : progress'[c] # progress[c] =>
                       /\ chState[c] = "active"
                       /\ progress'[c] > progress[c]
                       /\ \E e \in Events :
                            /\ ack[e] = None /\ ack'[e] # None
                            /\ ack'[e].challenge = c
                            /\ sesState[ack'[e].session] = "leased"
<1>1. ASSUME IInv, [Next]_vars PROVE Credit
  <2>1. CASE UNCHANGED <<progress, ack>>
    BY <2>1
  <2>2. ASSUME NEW e \in Events, NEW c \in Challenges, Stores(e, c)
        PROVE  Credit
    <3>1. ack'[e].credited \in Nat /\ progress[c] \in Nat
      BY <1>1, <2>2, ConstantsAssumption DEF Stores, Acknowledgement, IInv, TypeOK
    <3>2. \A d \in Challenges : progress'[d] = IF d = c THEN progress[c] + ack'[e].credited
                                               ELSE progress[d]
      BY <1>1, <2>2 DEF Stores, IInv, TypeOK
    <3>3. QED
      BY <2>2, <3>1, <3>2 DEF Stores
  <2>3. QED
    BY <1>1, <2>1, <2>2, AccountingStep
<1>2. IInv /\ [Next]_vars => [Credit]_vars
  BY <1>1
<1>3. QED
  BY <1>2, Invariance, PTL DEF Spec, CreditNeedsLease

-----------------------------------------------------------------------------
\* How a step may change one Work Challenge row and one Work Session row.

\* No session of the challenge can start or go on.
Cleared(c) ==
  \A s \in Sessions : sesChallenge'[s] = c => sesState'[s] \notin {"ready", "leased"}

\* The moves of one challenge row, with what each does to the retention clock.
ChallengeMove(c) ==
  \/ /\ chState'[c] = chState[c] /\ deadline'[c] = deadline[c] /\ terminalAt'[c] = terminalAt[c]
  \/ /\ chState[c] = Absent /\ chState'[c] = "issued" /\ terminalAt'[c] = deadline'[c]
  \/ /\ deadline'[c] = deadline[c]
     /\ \/ /\ chState[c] \in {"issued", "active"} /\ chState'[c] = "active"
           /\ terminalAt'[c] = terminalAt[c]
        \/ /\ chState[c] \in {"issued", "active"} /\ chState'[c] = "cancelled"
           /\ terminalAt'[c] # None /\ Cleared(c)
        \/ /\ chState[c] \in {"issued", "active", "satisfied", "pass_issued"}
           /\ chState'[c] = "expired" /\ terminalAt'[c] # None /\ Cleared(c)
        \/ /\ chState[c] \in {"satisfied", "expired"} /\ chState'[c] = "expired"
           /\ terminalAt'[c] # None
        \/ /\ chState[c] = "active" /\ chState'[c] = "satisfied"
           /\ terminalAt'[c] = None /\ Cleared(c)
        \/ /\ chState[c] \in {"satisfied", "expired"} /\ chState'[c] = "pass_issued"
           /\ terminalAt'[c] # None
           /\ pass[c] = None /\ pass'[c] # None /\ pass'[c].issued_at < deadline[c]

\* A challenge that ends takes its ready and leased sessions with it.
LEMMA StopClears ==
  ASSUME NEW c, NEW reason, StopSessions(SessionsOf(c, {"ready", "leased"}), reason)
  PROVE  Cleared(c)
BY DEF StopSessions, SessionsOf, Cleared

\* A sweep expires challenges whose pass is owed, and no others.
LEMMA SweepMoves ==
  ASSUME IInv, NEW w \in Workers, NEW now \in Readings, NEW claimed, SweepAndMark(claimed, w, now),
         NEW c \in Challenges
  PROVE  ChallengeMove(c)
<1>1. deadline' = deadline
  BY DEF SweepAndMark
<1>2. CASE c \in Overdue(now)
  <2>1. chState[c] \in {"satisfied", "expired"}
    BY <1>2 DEF Overdue, IInv, EarnedShape, IssuanceAgrees
  <2>2. deadline[c] # None
    BY ConstantsAssumption DEF IInv, TypeOK
  <2>3. chState'[c] = "expired" /\ terminalAt'[c] = deadline[c]
    BY <1>2 DEF SweepAndMark, FailOverdue
  <2>4. QED
    BY <1>1, <2>1, <2>2, <2>3 DEF ChallengeMove
<1>3. CASE c \notin Overdue(now)
  BY <1>1, <1>3 DEF SweepAndMark, FailOverdue, ChallengeMove
<1>4. QED
  BY <1>2, <1>3

\* The requests of one challenge move its row along the matrix.
LEMMA ChallengeRequestMoves ==
  ASSUME IInv, NEW now \in Readings, NEW d \in Challenges, ChallengeRequest(d, now),
         NEW c \in Challenges
  PROVE  ChallengeMove(c)
<1> USE DEF IInv
<1>0. now \in Nat /\ now # None
  BY ConstantsAssumption DEF Readings
<1>1. CASE InsertChallenge(d, now)
  BY <1>1 DEF InsertChallenge, TypeOK, ChallengeMove
<1>2. CASE TerminalizeExpired(d, now)
  <2>1. chState[d] \in {"issued", "active", "satisfied", "pass_issued"}
    BY <1>2 DEF TerminalizeExpired, TypeOK, Lapses, apply_challenge_command,
       challenge_transition_allowed, ChallengeStates, Forbidden, Absent
  <2>2. LifecycleDeadline(d) # None
    BY ConstantsAssumption DEF TypeOK, LifecycleDeadline, IssuanceAgrees, Pass
  <2>3. Cleared(d)
    BY <1>2, StopClears DEF TerminalizeExpired
  <2>4. QED
    BY <1>2, <2>1, <2>2, <2>3 DEF TerminalizeExpired, TypeOK, ChallengeMove
<1>3. CASE CancelChallenge(d, now)
  <2>1. chState[d] \in {"issued", "active"}
    BY <1>3, ChallengeCommandFacts DEF CancelChallenge
  <2>2. Cleared(d)
    BY <1>3, StopClears DEF CancelChallenge
  <2>3. QED
    BY <1>0, <1>3, <2>1, <2>2 DEF CancelChallenge, TypeOK, ChallengeMove
<1>4. CASE UNCHANGED <<chState, deadline, terminalAt>>
  BY <1>4 DEF ChallengeMove
<1>5. QED
  BY <1>1, <1>2, <1>3, <1>4 DEF ChallengeRequest, ProposePoolSelection, ConfirmPoolSelection,
     PauseChallenge, InsertWorkSession, challengeVars

\* A delivery ends its challenge when it is late and satisfies it when it crosses the
\* requirement.
LEMMA DeliveryMoves ==
  ASSUME IInv, NEW now \in Readings, NEW e \in Events, NEW s \in Sessions, Delivery(e, s, now),
         NEW c \in Challenges
  PROVE  ChallengeMove(c)
<1> USE DEF IInv
<1> DEFINE d == sesChallenge[s]
<1>1. PICK received \in 0..(clock + PoolSkew) :
        \/ AcceptWorkLate(e, s, received, now)
        \/ \E id \in 1..leaseCount[s], boot \in Boots, reading \in 0..MaxReading :
             \/ AcceptWorkStops(e, s, id, boot, reading, received, now)
             \/ \E f \in Shares, work \in Works :
                  AcceptWork(e, s, f, work, id, boot, reading, received, now)
  BY DEF Delivery
<1>2. CASE AcceptWorkLate(e, s, received, now)
  <2>1. d \in Challenges /\ chState[d] = "active" /\ deadline[d] # None
    BY <1>2, ChallengeCommandFacts, ConstantsAssumption
       DEF AcceptWorkLate, TypeOK, Deliverable, SessionRowShape
  <2>2. Cleared(d)
    BY <1>2, StopClears DEF AcceptWorkLate
  <2>3. /\ chState' = [chState EXCEPT ![d] = "expired"] /\ deadline' = deadline
        /\ terminalAt' = [terminalAt EXCEPT ![d] = deadline[d]]
    BY <1>2 DEF AcceptWorkLate
  <2> HIDE DEF d
  <2>4. QED
    BY <2>1, <2>2, <2>3 DEF TypeOK, ChallengeMove
<1>3. ASSUME NEW id \in 1..leaseCount[s], NEW boot \in Boots, NEW reading \in 0..MaxReading,
             AcceptWorkStops(e, s, id, boot, reading, received, now)
      PROVE  ChallengeMove(c)
  BY <1>3 DEF AcceptWorkStops, challengeVars, ChallengeMove
<1>4. ASSUME NEW id \in 1..leaseCount[s], NEW boot \in Boots, NEW reading \in 0..MaxReading,
             NEW f \in Shares, NEW work \in Works,
             AcceptWork(e, s, f, work, id, boot, reading, received, now)
      PROVE  ChallengeMove(c)
  <2> DEFINE t == accepted_work_transition(progress[d], Requirement[d], work, shareOwner[f] = None)
  <2>1. d \in Challenges /\ chState[d] = "active"
    BY <1>4, ChallengeCommandFacts DEF AcceptWork, TypeOK, Deliverable, SessionRowShape
  <2>2. RecordTransition(d, t) /\ deadline' = deadline
    BY <1>4 DEF AcceptWork
  <2> HIDE DEF t, d
  <2>3. CASE t.intent_created
    <3>1. Cleared(d)
      BY <2>2, <2>3, StopClears DEF RecordTransition
    <3>2. QED
      BY <2>1, <2>2, <2>3, <3>1 DEF RecordTransition, TypeOK, ChallengeMove
  <2>4. CASE ~t.intent_created
    BY <2>2, <2>4 DEF RecordTransition, ChallengeMove
  <2>5. QED
    BY <2>3, <2>4
<1>5. QED
  BY <1>1, <1>2, <1>3, <1>4

\* An issuance worker expires what it sweeps and issues what it commits.
LEMMA WorkerMoves ==
  ASSUME IInv, NEW w \in Workers, WorkerStep(w) \/ CrashWorker(w), NEW c \in Challenges
  PROVE  ChallengeMove(c)
<1> USE DEF IInv
<1>1. CASE CommitIssuance(w)
  <2> DEFINE d == wkCh[w]
             new == [by |-> w, issued_at |-> wkAt[w], expires_at |-> wkAt[w] + PassTTL]
  <2>1. /\ d \in Challenges /\ intent[d] = "signing" /\ wkAt[w] \in Nat /\ wkAt[w] < deadline[d]
        /\ wkAt[w] # None
    BY <1>1, ConstantsAssumption DEF CommitIssuance, TypeOK, WorkerShape, OneCompletion
  <2>2. chState[d] \in {"satisfied", "expired"} /\ pass[d] = None
    BY <2>1 DEF EarnedShape, IssuanceAgrees
  <2>3. new # None /\ new.issued_at = wkAt[w]
    <3>1. wkAt[w] + PassTTL \in Nat
      BY <2>1, ConstantsAssumption
    <3>2. new \in Pass
      BY <2>1, <3>1 DEF Pass
    <3>3. QED
      BY <3>2, NoneAssumption
  <2>4. /\ chState' = [chState EXCEPT ![d] = "pass_issued"] /\ deadline' = deadline
        /\ terminalAt' = [terminalAt EXCEPT ![d] = wkAt[w]] /\ pass' = [pass EXCEPT ![d] = new]
    BY <1>1 DEF CommitIssuance, MarkChallengeIssued
  <2> HIDE DEF d, new
  <2>5. QED
    BY <2>1, <2>2, <2>3, <2>4 DEF TypeOK, ChallengeMove
<1>2. CASE UNCHANGED challengeVars
  BY <1>2 DEF challengeVars, ChallengeMove
<1>3. QED
  BY <1>1, <1>2, SweepMoves DEF WorkerStep, PollIssuance, ClaimIssuance, SignPass,
     SigningUnavailable, WriteIssuance, CrashWorker

\* Every step moves every challenge row in one of these ways.
LEMMA ChallengeRowStep ==
  ASSUME IInv, [Next]_vars, NEW c \in Challenges
  PROVE  ChallengeMove(c)
<1>1. CASE UNCHANGED challengeVars
  BY <1>1 DEF challengeVars, ChallengeMove
<1>2. ASSUME NEW now \in Readings, NEW s \in Sessions, SessionRequest(s, now)
      PROVE  ChallengeMove(c)
  <2>1. ASSUME NEW boot \in Boots, NEW reading \in 0..MaxReading,
               StartWorkLease(s, boot, reading, now)
        PROVE  ChallengeMove(c)
    <3>1. sesChallenge[s] \in Challenges /\ chState[sesChallenge[s]] \in {"issued", "active"}
      BY <2>1, ChallengeCommandFacts DEF StartWorkLease, IInv, TypeOK, SessionRowShape
    <3>2. QED
      BY <2>1, <3>1 DEF StartWorkLease, IInv, TypeOK, ChallengeMove
  <2>2. QED
    BY <1>1, <1>2, <2>1 DEF SessionRequest, ReplaceWorkSession, RenewWorkLease
<1>3. CASE (UNCHANGED vars) \/ Tick \/ \E s \in Sessions : SessionReport(s)
  BY <1>1, <1>3 DEF vars, Tick, SessionReport, InterruptWorkSession, ConfirmWorkSessionRestored,
     FailWorkSession
<1>4. QED
  BY <1>2, <1>3, ChallengeRequestMoves, DeliveryMoves, WorkerMoves DEF Next

\* The retention clock runs from the deadline while work may arrive, is off while a pass
\* is owed and is set once the challenge is over.
THEOREM Retention == Spec => []RetentionClock
<1>1. Init => RetentionClock
  BY DEF Init, RetentionClock, Absent
<1>2. ASSUME IInv, RetentionClock, [Next]_vars PROVE RetentionClock'
  <2> SUFFICES ASSUME NEW c \in Challenges
               PROVE  /\ chState'[c] \in {"issued", "active"} => terminalAt'[c] = deadline'[c]
                      /\ chState'[c] = "satisfied" => terminalAt'[c] = None
                      /\ chState'[c] \in {"pass_issued", "cancelled", "expired"} => terminalAt'[c] # None
    BY DEF RetentionClock
  <2>1. ChallengeMove(c)
    BY <1>2, ChallengeRowStep
  <2>2. QED
    BY <1>2, <2>1 DEF RetentionClock, ChallengeMove
<1>3. IInv /\ RetentionClock /\ [Next]_vars => RetentionClock'
  BY <1>2
<1>4. QED
  BY <1>1, <1>3, Invariance, PTL DEF Spec

\* Every change of a Work Challenge row follows the matrix, except that a pass signed in
\* time may be committed after its challenge expired.
THEOREM LateCommit == Spec => OnlyLateCommitRevives
<1> DEFINE Step == \A c \in Challenges :
                     chState[c] # Absent =>
                       \/ challenge_transition_allowed(chState[c], chState'[c])
                       \/ /\ chState[c] = "expired" /\ chState'[c] = "pass_issued"
                          /\ pass[c] = None /\ pass'[c] # None
                          /\ pass'[c].issued_at < deadline[c]
<1>1. ASSUME IInv, [Next]_vars PROVE Step
  BY <1>1, ChallengeRowStep DEF ChallengeMove, challenge_transition_allowed
<1>2. IInv /\ [Next]_vars => [Step]_vars
  BY <1>1
<1>3. QED
  BY <1>2, Invariance, PTL DEF Spec, OnlyLateCommitRevives

-----------------------------------------------------------------------------
\* Work Session rows.

\* The moves of one session row.
SessionMove(s) ==
  \/ sesState'[s] = sesState[s]
  \/ /\ sesState[s] = Absent /\ sesState'[s] = "ready"
     /\ chState'[sesChallenge'[s]] \in {"issued", "active"}
  \/ sesState[s] \in {"ready", "leased"} /\ sesState'[s] = "stopping"
  \/ sesState[s] \in {"stopping", "restored"} /\ sesState'[s] = "restored"
  \/ sesState[s] # Absent /\ sesState'[s] = "failed"
  \/ sesState[s] \in {"ready", "restored"} /\ sesState'[s] = "leased"

\* Stopping sessions that are ready or leased is a move of each.
LEMMA StopMoves ==
  ASSUME NEW S \in SUBSET Sessions, \A s \in S : sesState[s] \in {"ready", "leased"},
         NEW reason, StopSessions(S, reason), NEW s \in Sessions
  PROVE  SessionMove(s)
BY DEF StopSessions, SessionMove

\* Registration is the move of one new session.
LEMMA RegisterMoves ==
  ASSUME IInv, NEW x \in Sessions, NEW c, NEW p, NEW g, RegisterSession(x, c, p, g),
         sesState[x] = Absent, chState'[c] \in {"issued", "active"}, NEW s \in Sessions
  PROVE  SessionMove(s)
BY DEF RegisterSession, IInv, TypeOK, SessionMove

\* Every step moves every session row in one of these ways.
LEMMA SessionRowStep ==
  ASSUME IInv, [Next]_vars, NEW s \in Sessions
  PROVE  SessionMove(s)
<1> USE DEF sessionVars, challengeVars
<1>0. CASE UNCHANGED sesState
  BY <1>0 DEF SessionMove
<1>1. ASSUME NEW c, NEW reason, StopSessions(SessionsOf(c, {"ready", "leased"}), reason)
      PROVE  SessionMove(s)
  <2>1. /\ SessionsOf(c, {"ready", "leased"}) \in SUBSET Sessions
        /\ \A x \in SessionsOf(c, {"ready", "leased"}) : sesState[x] \in {"ready", "leased"}
    BY DEF SessionsOf
  <2>2. QED
    BY <1>1, <2>1, StopMoves
<1>2. ASSUME NEW x \in Sessions, sesState[x] \in {"ready", "leased"}, NEW reason,
             StopSessions({x}, reason)
      PROVE  SessionMove(s)
  <2>1. {x} \in SUBSET Sessions /\ \A y \in {x} : sesState[y] \in {"ready", "leased"}
    BY <1>2
  <2>2. QED
    BY <1>2, <2>1, StopMoves
<1>3. ASSUME NEW now \in Readings, NEW c \in Challenges, ChallengeRequest(c, now)
      PROVE  SessionMove(s)
  <2>1. CASE TerminalizeExpired(c, now) \/ CancelChallenge(c, now)
    BY <1>1, <2>1 DEF TerminalizeExpired, CancelChallenge
  <2>2. ASSUME NEW reason \in Pauses, PauseChallenge(c, reason, now)
        PROVE  SessionMove(s)
    <3>1. /\ SessionsOf(c, {"leased"}) \in SUBSET Sessions
          /\ \A x \in SessionsOf(c, {"leased"}) : sesState[x] \in {"ready", "leased"}
      BY DEF SessionsOf
    <3>2. QED
      BY <2>2, <3>1, StopMoves DEF PauseChallenge
  <2>3. ASSUME NEW x \in Sessions, InsertWorkSession(x, c, now)
        PROVE  SessionMove(s)
    <3>1. chState'[c] \in {"issued", "active"} /\ sesState[x] = Absent
      BY <2>3, ChallengeCommandFacts DEF InsertWorkSession
    <3>2. QED
      BY <2>3, <3>1, RegisterMoves DEF InsertWorkSession
  <2>4. QED
    BY <1>0, <1>3, <2>1, <2>2, <2>3 DEF ChallengeRequest, InsertChallenge, ProposePoolSelection,
       ConfirmPoolSelection
<1>4. ASSUME NEW now \in Readings, NEW x \in Sessions, SessionRequest(x, now)
      PROVE  SessionMove(s)
  <2>1. ASSUME NEW old \in Sessions, ReplaceWorkSession(old, x, now)
        PROVE  SessionMove(s)
    <3>1. chState'[sesChallenge[old]] \in {"issued", "active"} /\ sesState[x] = Absent
      BY <2>1, ChallengeCommandFacts DEF ReplaceWorkSession
    <3>2. PICK top \in Sessions : RegisterSession(x, sesChallenge[old], old, generation[top] + 1)
      BY <2>1 DEF ReplaceWorkSession
    <3>3. QED
      BY <3>1, <3>2, RegisterMoves
  <2>2. ASSUME NEW boot \in Boots, NEW reading \in 0..MaxReading,
               StartWorkLease(x, boot, reading, now)
        PROVE  SessionMove(s)
    BY <2>2, SessionCommandFacts DEF StartWorkLease, IInv, TypeOK, SessionMove
  <2>3. ASSUME NEW boot \in Boots, NEW reading \in 0..MaxReading, NEW id \in 1..leaseCount[x],
               RenewWorkLease(x, id, boot, reading, now)
        PROVE  SessionMove(s)
    <3>1. sesState[x] = "leased"
      BY <2>3, SessionCommandFacts DEF RenewWorkLease
    <3>2. QED
      BY <1>0, <1>2, <2>3, <3>1 DEF RenewWorkLease
  <2>4. QED
    BY <1>4, <2>1, <2>2, <2>3 DEF SessionRequest
<1>5. ASSUME NEW now \in Readings, NEW e \in Events, NEW x \in Sessions, Delivery(e, x, now)
      PROVE  SessionMove(s)
  <2>1. PICK received \in 0..(clock + PoolSkew) :
          \/ AcceptWorkLate(e, x, received, now)
          \/ \E id \in 1..leaseCount[x], boot \in Boots, reading \in 0..MaxReading :
               \/ AcceptWorkStops(e, x, id, boot, reading, received, now)
               \/ \E f \in Shares, work \in Works :
                    AcceptWork(e, x, f, work, id, boot, reading, received, now)
    BY <1>5 DEF Delivery
  <2>2. CASE AcceptWorkLate(e, x, received, now)
    BY <1>1, <2>2 DEF AcceptWorkLate
  <2>3. ASSUME NEW id \in 1..leaseCount[x], NEW boot \in Boots, NEW reading \in 0..MaxReading,
               AcceptWorkStops(e, x, id, boot, reading, received, now)
        PROVE  SessionMove(s)
    <3>1. sesState[x] = "leased"
      BY <2>3, SessionCommandFacts DEF AcceptWorkStops
    <3>2. QED
      BY <1>2, <2>3, <3>1 DEF AcceptWorkStops
  <2>4. ASSUME NEW id \in 1..leaseCount[x], NEW boot \in Boots, NEW reading \in 0..MaxReading,
               NEW f \in Shares, NEW work \in Works,
               AcceptWork(e, x, f, work, id, boot, reading, received, now)
        PROVE  SessionMove(s)
    BY <1>0, <1>1, <2>4 DEF AcceptWork, RecordTransition
  <2>5. QED
    BY <2>1, <2>2, <2>3, <2>4
<1>6. ASSUME NEW x \in Sessions, SessionReport(x)
      PROVE  SessionMove(s)
  <2>1. ASSUME NEW interruption \in Interruptions, InterruptWorkSession(x, interruption)
        PROVE  SessionMove(s)
    <3>1. sesState[x] \in {"ready", "leased"}
      BY <2>1, SessionCommandFacts DEF InterruptWorkSession
    <3>2. QED
      BY <1>2, <2>1, <3>1 DEF InterruptWorkSession
  <2>2. CASE ConfirmWorkSessionRestored(x)
    BY <2>2, SessionCommandFacts DEF ConfirmWorkSessionRestored, IInv, TypeOK, SessionMove
  <2>3. CASE FailWorkSession(x)
    BY <2>3, SessionCommandFacts DEF FailWorkSession, IInv, TypeOK, SessionMove
  <2>4. QED
    BY <1>6, <2>1, <2>2, <2>3 DEF SessionReport
<1>7. ASSUME NEW w \in Workers, WorkerStep(w) \/ CrashWorker(w)
      PROVE  SessionMove(s)
  BY <1>0, <1>7 DEF WorkerStep, PollIssuance, ClaimIssuance, SweepAndMark, SignPass,
     SigningUnavailable, WriteIssuance, CommitIssuance, CrashWorker
<1>8. CASE (UNCHANGED vars) \/ Tick
  BY <1>0, <1>8 DEF vars, Tick
<1>9. QED
  BY <1>3, <1>4, <1>5, <1>6, <1>7, <1>8 DEF Next

\* Every change of a Work Session row follows the session matrix.
THEOREM SessionMatrix == Spec => SessionStepsAllowed
<1> DEFINE Step == \A s \in Sessions : sesState[s] # Absent =>
                     session_transition_allowed(sesState[s], sesState'[s])
<1>1. ASSUME IInv, [Next]_vars PROVE Step
  <2> SUFFICES ASSUME NEW s \in Sessions, sesState[s] # Absent
               PROVE  session_transition_allowed(sesState[s], sesState'[s])
    OBVIOUS
  <2>1. SessionMove(s) /\ sesState[s] \in SessionStates
    BY <1>1, SessionRowStep DEF IInv, TypeOK
  <2>2. QED
    BY <2>1 DEF SessionMove, SessionStates, session_transition_allowed
<1>2. IInv /\ [Next]_vars => [Step]_vars
  BY <1>1
<1>3. QED
  BY <1>2, Invariance, PTL DEF Spec, SessionStepsAllowed

\* The replacement part of the inductive invariant: a session that is not registered yet
\* replaces nothing, so its registration cannot disturb an existing chain.
ChainShape ==
  /\ ReplacementChain
  /\ \A s \in Sessions : sesState[s] = Absent => replaces[s] = None

\* Registration of a session s for the challenge c: with no predecessor, or in place of a
\* session of c that nothing replaced yet, above every generation of c.
Registers(s, c, p, g) ==
  /\ sesState[s] = Absent
  /\ RegisterSession(s, c, p, g)
  /\ chState[c] \in {"issued", "active"} /\ UNCHANGED chState
  /\ c \in Challenges
  /\ p # None =>
       /\ p \in Sessions /\ sesChallenge[p] = c
       /\ g \in Nat /\ \A x \in Sessions : sesChallenge[x] = c => generation[x] < g
       /\ \A x \in Sessions : replaces[x] # p

\* Every other step leaves challenges, predecessors and generations of sessions alone.
LEMMA RegistrationStep ==
  ASSUME IInv, [Next]_vars
  PROVE  \/ UNCHANGED <<sesChallenge, replaces, generation>>
         \/ \E s \in Sessions : \E c, p, g : Registers(s, c, p, g)
<1> DEFINE Quiet == UNCHANGED <<sesChallenge, replaces, generation>>
           Joins == \E s \in Sessions : \E c, p, g : Registers(s, c, p, g)
<1> USE DEF sessionVars, challengeVars
<1>1. ASSUME NEW now \in Readings, NEW c \in Challenges, ChallengeRequest(c, now)
      PROVE  Quiet \/ Joins
  <2>1. ASSUME NEW s \in Sessions, InsertWorkSession(s, c, now)
        PROVE  Registers(s, c, None, 0)
    BY <2>1, ChallengeCommandFacts DEF InsertWorkSession, Registers
  <2>2. QED
    BY <1>1, <2>1 DEF ChallengeRequest, InsertChallenge, ProposePoolSelection, ConfirmPoolSelection,
       TerminalizeExpired, CancelChallenge, PauseChallenge, StopSessions
<1>2. ASSUME NEW now \in Readings, NEW s \in Sessions, SessionRequest(s, now)
      PROVE  Quiet \/ Joins
  <2>1. ASSUME NEW old \in Sessions, ReplaceWorkSession(old, s, now)
        PROVE  Joins
    <3> DEFINE c == sesChallenge[old]
    <3>1. c \in Challenges /\ chState[c] \in {"issued", "active"} /\ UNCHANGED chState
      BY <2>1, ChallengeCommandFacts
         DEF ReplaceWorkSession, IInv, TypeOK, SessionRowShape, Absent
    <3>2. PICK top \in Sessions :
            HighestGeneration(top, c) /\ RegisterSession(s, c, old, generation[top] + 1)
      BY <2>1 DEF ReplaceWorkSession
    <3>3. \A x \in Sessions : sesChallenge[x] = c => x \in SessionsOf(c, SessionStates)
      BY <3>1, ConstantsAssumption DEF IInv, TypeOK, SessionRowShape, SessionsOf
    <3>4. generation[top] \in Nat /\ \A x \in Sessions : generation[x] \in Nat
      BY DEF IInv, TypeOK
    <3>5. \A x \in Sessions : sesChallenge[x] = c => generation[x] < generation[top] + 1
      BY <3>2, <3>3, <3>4 DEF HighestGeneration
    <3>6. Registers(s, c, old, generation[top] + 1)
      BY <2>1, <3>1, <3>2, <3>4, <3>5 DEF ReplaceWorkSession, Registers
    <3>7. QED
      BY <3>6
  <2>2. ASSUME NEW boot \in Boots, NEW reading \in 0..MaxReading, StartWorkLease(s, boot, reading, now)
        PROVE  Quiet
    BY <2>2 DEF StartWorkLease, StopSessions
  <2>3. ASSUME NEW boot \in Boots, NEW reading \in 0..MaxReading, NEW id, RenewWorkLease(s, id, boot, reading, now)
        PROVE  Quiet
    BY <2>3 DEF RenewWorkLease, StopSessions
  <2>4. QED
    BY <1>2, <2>1, <2>2, <2>3, Zenon DEF SessionRequest
<1>3. ASSUME NEW now \in Readings, NEW e \in Events, NEW s \in Sessions, Delivery(e, s, now)
      PROVE  Quiet
  BY <1>3 DEF Delivery, AcceptWorkLate, AcceptWorkStops, AcceptWork, RecordTransition, StopSessions
<1>4. ASSUME NEW s \in Sessions, SessionReport(s)
      PROVE  Quiet
  BY <1>4 DEF SessionReport, InterruptWorkSession, ConfirmWorkSessionRestored, FailWorkSession,
     StopSessions
<1>5. ASSUME NEW w \in Workers, WorkerStep(w) \/ CrashWorker(w)
      PROVE  Quiet
  BY <1>5 DEF WorkerStep, PollIssuance, ClaimIssuance, SweepAndMark, SignPass,
     SigningUnavailable, WriteIssuance, CommitIssuance, CrashWorker
<1>6. ASSUME (UNCHANGED vars) \/ Tick
      PROVE  Quiet
  BY <1>6 DEF vars, Tick
<1> HIDE DEF Quiet, Joins
<1>7. Quiet \/ Joins
  BY <1>1, <1>2, <1>3, <1>4, <1>5, <1>6 DEF Next
<1>8. QED
  BY <1>7 DEF Quiet, Joins

\* A registration extends the chain at its end.
LEMMA RegistersChain ==
  ASSUME IInv, ChainShape, NEW s \in Sessions, NEW c, NEW p, NEW g, Registers(s, c, p, g)
  PROVE  ChainShape'
<1>1. /\ sesState[s] = Absent /\ c \in Challenges
      /\ sesState'     = [sesState EXCEPT ![s] = "ready"]
      /\ sesChallenge' = [sesChallenge EXCEPT ![s] = c]
      /\ replaces'     = [replaces EXCEPT ![s] = p]
      /\ generation'   = [generation EXCEPT ![s] = g]
  BY DEF Registers, RegisterSession
<1>2. /\ \A x \in Sessions : sesState[x] = Absent <=> sesChallenge[x] = None
      /\ \A x \in Sessions : generation[x] \in Nat /\ replaces[x] \in Sessions \cup {None}
      /\ None \notin Sessions /\ None # c
  BY <1>1, ConstantsAssumption DEF IInv, TypeOK, SessionRowShape
<1>3. \A x \in Sessions : x # s => /\ sesChallenge'[x] = sesChallenge[x] /\ replaces'[x] = replaces[x]
                                   /\ generation'[x] = generation[x] /\ sesState'[x] = sesState[x]
  BY <1>1 DEF IInv, TypeOK
<1>4. sesChallenge'[s] = c /\ replaces'[s] = p /\ generation'[s] = g /\ sesState'[s] = "ready"
  BY <1>1 DEF IInv, TypeOK
<1>5. \A x \in Sessions : replaces[x] # None =>
        /\ replaces[x] # s /\ replaces[x] \in Sessions /\ x # s
        /\ sesChallenge[replaces[x]] = sesChallenge[x] /\ generation[x] > generation[replaces[x]]
  BY <1>1, <1>2 DEF ChainShape, ReplacementChain
<1>6. p # None => /\ p \in Sessions /\ sesChallenge[p] = c /\ p # s /\ g \in Nat
                  /\ \A x \in Sessions : sesChallenge[x] = c => generation[x] < g
                  /\ \A x \in Sessions : replaces[x] # p
  BY <1>1, <1>2 DEF Registers
<1>7. \A x \in Sessions : replaces'[x] # None =>
        /\ sesChallenge'[replaces'[x]] = sesChallenge'[x]
        /\ generation'[x] > generation'[replaces'[x]]
  <2> SUFFICES ASSUME NEW x \in Sessions, replaces'[x] # None
               PROVE  /\ sesChallenge'[replaces'[x]] = sesChallenge'[x]
                      /\ generation'[x] > generation'[replaces'[x]]
    OBVIOUS
  <2>1. CASE x = s
    <3>1. p # None /\ replaces'[x] = p
      BY <1>4, <2>1
    <3>2. /\ sesChallenge'[p] = c /\ sesChallenge'[x] = c
          /\ generation'[p] = generation[p] /\ generation[p] < g /\ generation'[x] = g
      BY <1>3, <1>4, <1>6, <2>1, <3>1
    <3>3. generation[p] \in Nat /\ g \in Nat
      BY <1>2, <1>6, <3>1
    <3>4. QED
      BY <3>1, <3>2, <3>3
  <2>2. CASE x # s
    BY <1>3, <1>5, <2>2
  <2>3. QED
    BY <2>1, <2>2
<1>8. \A x, y \in Sessions : (replaces'[x] # None /\ replaces'[y] # None /\ x # y) =>
        /\ replaces'[x] # replaces'[y]
        /\ sesChallenge'[x] = sesChallenge'[y] => generation'[x] # generation'[y]
  <2> SUFFICES ASSUME NEW x \in Sessions, NEW y \in Sessions,
                      replaces'[x] # None, replaces'[y] # None, x # y
               PROVE  /\ replaces'[x] # replaces'[y]
                      /\ sesChallenge'[x] = sesChallenge'[y] => generation'[x] # generation'[y]
    OBVIOUS
  <2>1. CASE x # s /\ y # s
    BY <1>3, <2>1 DEF ChainShape, ReplacementChain
  <2>2. CASE x = s
    BY <1>2, <1>3, <1>4, <1>6, <2>2
  <2>3. CASE y = s
    BY <1>2, <1>3, <1>4, <1>6, <2>3
  <2>4. QED
    BY <2>1, <2>2, <2>3
<1>9. \A x \in Sessions : sesState'[x] = Absent => replaces'[x] = None
  BY <1>3, <1>4 DEF ChainShape, Absent
<1>10. QED
  BY <1>7, <1>8, <1>9 DEF ChainShape, ReplacementChain

\* Every step keeps the replacements in one chain.
LEMMA ChainStep ==
  ASSUME IInv, ChainShape, [Next]_vars
  PROVE  ChainShape'
<1>1. CASE UNCHANGED <<sesChallenge, replaces, generation>>
  <2>1. \A s \in Sessions : sesState'[s] = Absent => sesState[s] = Absent
    BY SessionRowStep DEF SessionMove, Absent
  <2>2. QED
    BY <1>1, <2>1 DEF ChainShape, ReplacementChain
<1>2. ASSUME NEW s \in Sessions, NEW c, NEW p, NEW g, Registers(s, c, p, g)
      PROVE  ChainShape'
  BY <1>2, RegistersChain
<1>3. QED
  BY <1>1, <1>2, RegistrationStep

\* A challenge that ends leaves no session ready.
LEMMA ReadyStep ==
  ASSUME IInv, ReadyOnlyWhileOpen, [Next]_vars
  PROVE  ReadyOnlyWhileOpen'
<1> SUFFICES ASSUME NEW s \in Sessions, sesState'[s] = "ready"
             PROVE  chState'[sesChallenge'[s]] \in {"issued", "active"}
  BY DEF ReadyOnlyWhileOpen
<1>1. CASE sesState[s] = "ready"
  <2>1. sesChallenge[s] \in Challenges /\ chState[sesChallenge[s]] \in {"issued", "active"}
    BY <1>1 DEF IInv, TypeOK, SessionRowShape, ReadyOnlyWhileOpen, Absent
  <2>2. sesChallenge'[s] = sesChallenge[s]
    <3>1. CASE UNCHANGED sesChallenge
      BY <3>1
    <3>2. ASSUME NEW x \in Sessions, NEW c, NEW p, NEW g, Registers(x, c, p, g)
          PROVE  sesChallenge'[s] = sesChallenge[s]
      BY <1>1, <3>2 DEF Registers, RegisterSession, Absent, IInv, TypeOK
    <3>3. QED
      BY <3>1, <3>2, RegistrationStep
  <2>3. ChallengeMove(sesChallenge[s]) /\ ~Cleared(sesChallenge[s])
    BY <2>1, <2>2, ChallengeRowStep DEF Cleared
  <2>4. QED
    BY <2>1, <2>2, <2>3 DEF ChallengeMove, Absent
<1>2. CASE sesState[s] # "ready"
  BY <1>2, SessionRowStep DEF SessionMove
<1>3. QED
  BY <1>1, <1>2

\* The session rows stay coherent through leases, stops, restorations, failures and
\* replacements, for every number of sessions and challenges.
THEOREM SessionSoundness == Spec => []SessionsSound
<1>1. Init => ReadyOnlyWhileOpen /\ ChainShape
  BY DEF Init, ReadyOnlyWhileOpen, ChainShape, ReplacementChain, Absent
<1>2. IInv /\ ReadyOnlyWhileOpen /\ ChainShape /\ [Next]_vars => (ReadyOnlyWhileOpen /\ ChainShape)'
  BY ReadyStep, ChainStep
<1>3. IInv /\ ReadyOnlyWhileOpen /\ ChainShape => SessionsSound
  BY DEF IInv, ChainShape, SessionsSound
<1>4. QED
  BY <1>1, <1>2, <1>3, Invariance, PTL DEF Spec
=============================================================================
