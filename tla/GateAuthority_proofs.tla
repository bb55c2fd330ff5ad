------------------------ MODULE GateAuthority_proofs ------------------------
(***************************************************************************)
(* Proofs that the Gate Authority keeps its safety invariants for every    *)
(* number of challenges, sessions, events, shares and workers.             *)
(***************************************************************************)
EXTENDS GateAuthority, TLAPS

\* What a worker between its claim and its commit knows: it holds a challenge, its
\* signing time has passed, and a completion started before the deadline.
WorkerShape ==
  \A w \in Workers :
    /\ wkAt[w] <= clock
    /\ wkPc[w] \in {"claimed", "signed", "completing"} => wkCh[w] \in Challenges
    /\ wkPc[w] = "completing" => wkAt[w] < deadline[wkCh[w]]

\* The part of IntentExactlyWhenEarned that does not mention events.
EarnedShape ==
  \A c \in Challenges :
    /\ intent[c] # "none" <=> meets(progress[c], Requirement[c])
    /\ intent[c] # "none" => chState[c] \in {"satisfied", "pass_issued", "expired"}
    /\ chState[c] \in {"satisfied", "pass_issued"} => intent[c] # "none"

\* The conjuncts of TypeOK that StopSessions touches.
SessionsTyped ==
  /\ sesState \in [Sessions -> SessionStates \cup {Absent}]
  /\ sesReason \in [Sessions -> StopReasons \cup {None}]
  /\ sesLease \in [Sessions -> Lease \cup {None}]
  /\ sesChallenge \in [Sessions -> Challenges \cup {None}]
  /\ leaseCount \in [Sessions -> 0..MaxLeases]
  /\ replaces \in [Sessions -> Sessions \cup {None}]
  /\ generation \in [Sessions -> Nat]

\* The inductive invariant.
IInv ==
  /\ TypeOK
  /\ SessionRowShape
  /\ WorkerShape
  /\ EarnedShape
  /\ IssuanceAgrees
  /\ OneCompletion
  /\ LeasedOnlyWhileActive
  /\ PassSignedInTime

-----------------------------------------------------------------------------
\* What the pure decisions admit.

\* apply_challenge_command admits each command only in the states of its matrix row.
LEMMA ChallengeCommandFacts ==
  ASSUME NEW state
  PROVE  /\ apply_challenge_command(state, "Pause") # Forbidden => state \in {"issued", "active"}
         /\ apply_challenge_command(state, "RegisterSession") # Forbidden =>
              state \in {"issued", "active"}
         /\ apply_challenge_command(state, "StartWork") = "active" => state \in {"issued", "active"}
         /\ apply_challenge_command(state, "AcceptWork") # Forbidden => state = "active"
         /\ apply_challenge_command(state, "Cancel") = "cancelled" =>
              state \in {"issued", "active", "cancelled"}
BY DEF apply_challenge_command, Forbidden

\* apply_session_command admits each command only in the states of its matrix row.
LEMMA SessionCommandFacts ==
  ASSUME NEW state
  PROVE  /\ apply_session_command(state, "StartLease") = "leased" => state \in {"ready", "restored"}
         /\ apply_session_command(state, "ObserveLease") # Forbidden => state = "leased"
         /\ apply_session_command(state, "Stop") = "stopping" =>
              state \in {"ready", "leased", "stopping"}
         /\ apply_session_command(state, "ConfirmRestored") = "restored" =>
              state \in {"stopping", "restored"}
         /\ apply_session_command(state, "Fail") = "failed"
BY DEF apply_session_command, Forbidden

-----------------------------------------------------------------------------
\* The empty database satisfies the invariant.
LEMMA InitIInv == Init => IInv
<1> SUFFICES ASSUME Init PROVE IInv
  OBVIOUS
<1> USE ConstantsAssumption DEF Init, Absent
<1>1. TypeOK
  BY DEF TypeOK
<1>2. SessionRowShape
  BY DEF SessionRowShape
<1>3. WorkerShape
  BY DEF WorkerShape
<1>4. EarnedShape
  BY DEF EarnedShape, meets
<1>5. IssuanceAgrees
  BY DEF IssuanceAgrees
<1>6. OneCompletion /\ LeasedOnlyWhileActive /\ PassSignedInTime
  BY DEF OneCompletion, LeasedOnlyWhileActive, PassSignedInTime
<1>7. QED
  BY <1>1, <1>2, <1>3, <1>4, <1>5, <1>6 DEF IInv

-----------------------------------------------------------------------------
\* Stopping the sessions in S keeps the session rows well shaped, and leaves leased
\* exactly the leased sessions outside S.
LEMMA StopSessionsFacts ==
  ASSUME TypeOK, SessionRowShape,
         NEW S \in SUBSET Sessions, \A s \in S : sesState[s] # Absent,
         NEW reason \in StopReasons,
         StopSessions(S, reason)
  PROVE  /\ SessionsTyped'
         /\ SessionRowShape'
         /\ \A s \in Sessions : sesState'[s] = "leased" => sesState[s] = "leased" /\ s \notin S
         /\ sesChallenge' = sesChallenge
<1> USE DEF StopSessions, Absent
<1>1. None \notin StopReasons
  BY ConstantsAssumption
<1>2. /\ sesState' \in [Sessions -> SessionStates \cup {Absent}]
      /\ sesReason' \in [Sessions -> StopReasons \cup {None}]
      /\ sesLease' \in [Sessions -> Lease \cup {None}]
  BY DEF TypeOK, SessionStates
<1>3. /\ sesChallenge' \in [Sessions -> Challenges \cup {None}]
      /\ leaseCount' \in [Sessions -> 0..MaxLeases]
      /\ replaces' \in [Sessions -> Sessions \cup {None}]
      /\ generation' \in [Sessions -> Nat]
  BY DEF TypeOK
<1>4. SessionRowShape'
  BY <1>1 DEF TypeOK, SessionRowShape
<1>5. \A s \in Sessions : sesState'[s] = "leased" => sesState[s] = "leased" /\ s \notin S
  OBVIOUS
<1>6. QED
  BY <1>2, <1>3, <1>4, <1>5 DEF SessionsTyped

\* Time alone keeps the invariant.
LEMMA TickStep ==
  ASSUME IInv, Tick
  PROVE  IInv'
<1> USE DEF Tick, IInv, challengeVars, sessionVars, accountVars, issuanceVars, workerVars
<1>1. TypeOK'
  BY ConstantsAssumption DEF TypeOK
<1>2. WorkerShape'
  BY ConstantsAssumption DEF TypeOK, WorkerShape
<1>3. SessionRowShape' /\ LeasedOnlyWhileActive'
  BY DEF SessionRowShape, LeasedOnlyWhileActive
<1>4. EarnedShape' /\ IssuanceAgrees' /\ OneCompletion' /\ PassSignedInTime'
  BY DEF EarnedShape, IssuanceAgrees, OneCompletion, PassSignedInTime
<1>5. QED
  BY <1>1, <1>2, <1>3, <1>4

\* A fresh challenge has earned nothing, so its rows keep the invariant.
LEMMA InsertChallengeStep ==
  ASSUME IInv, NEW c \in Challenges, NEW now \in Readings, InsertChallenge(c, now)
  PROVE  IInv'
<1> USE DEF InsertChallenge, IInv, challengeVars, sessionVars, accountVars, issuanceVars,
            workerVars, Absent
<1>1. now + ChallengeTTL \in Nat
  BY ConstantsAssumption DEF Readings, TypeOK
<1>2. TypeOK'
  BY <1>1 DEF TypeOK, ChallengeStates
<1>3. intent[c] = "none" /\ pass[c] = None
  BY DEF EarnedShape, IssuanceAgrees
<1>4. WorkerShape' /\ PassSignedInTime'
  BY <1>1, <1>3 DEF TypeOK, WorkerShape, OneCompletion, PassSignedInTime
<1>5. EarnedShape' /\ IssuanceAgrees' /\ OneCompletion'
  BY <1>3 DEF TypeOK, EarnedShape, IssuanceAgrees, OneCompletion
<1>6. SessionRowShape' /\ LeasedOnlyWhileActive'
  BY DEF TypeOK, SessionRowShape, LeasedOnlyWhileActive
<1>7. QED
  BY <1>2, <1>4, <1>5, <1>6

\* Proposing or confirming a pool selection touches no other row.
LEMMA PoolSelectionStep ==
  ASSUME IInv, NEW c \in Challenges, NEW now \in Readings,
         ProposePoolSelection(c, now) \/ ConfirmPoolSelection(c, now)
  PROVE  IInv'
<1> USE DEF ProposePoolSelection, ConfirmPoolSelection, IInv, challengeVars, sessionVars,
            accountVars, issuanceVars, workerVars
<1>1. TypeOK'
  BY DEF TypeOK
<1>2. SessionRowShape' /\ WorkerShape' /\ LeasedOnlyWhileActive'
  BY DEF SessionRowShape, WorkerShape, LeasedOnlyWhileActive
<1>3. EarnedShape' /\ IssuanceAgrees' /\ OneCompletion' /\ PassSignedInTime'
  BY DEF EarnedShape, IssuanceAgrees, OneCompletion, PassSignedInTime
<1>4. QED
  BY <1>1, <1>2, <1>3

\* A challenge that leaves the active state takes every ready or leased session of
\* its own with it, so no other challenge's lease is disturbed.
LEMMA EndSessionsFacts ==
  ASSUME TypeOK, SessionRowShape, LeasedOnlyWhileActive,
         NEW c \in Challenges, NEW reason \in StopReasons,
         StopSessions(SessionsOf(c, {"ready", "leased"}), reason),
         \A d \in Challenges : d # c => chState'[d] = chState[d]
  PROVE  SessionsTyped' /\ SessionRowShape' /\ LeasedOnlyWhileActive'
<1> DEFINE S == SessionsOf(c, {"ready", "leased"})
<1>1. S \in SUBSET Sessions /\ (\A s \in S : sesState[s] # Absent)
  BY DEF SessionsOf, Absent
<1>2. StopSessions(S, reason)
  OBVIOUS
<1>3. \A s \in Sessions : sesState[s] = "leased" /\ s \notin S => sesChallenge[s] # c
  BY DEF SessionsOf
<1> HIDE DEF S
<1>4. /\ SessionsTyped' /\ SessionRowShape' /\ sesChallenge' = sesChallenge
      /\ \A s \in Sessions : sesState'[s] = "leased" => sesState[s] = "leased" /\ s \notin S
  BY <1>1, <1>2, StopSessionsFacts
<1>5. LeasedOnlyWhileActive'
  <2> SUFFICES ASSUME NEW s \in Sessions, sesState'[s] = "leased"
               PROVE  chState'[sesChallenge'[s]] = "active"
    BY DEF LeasedOnlyWhileActive
  <2>1. sesState[s] = "leased" /\ sesChallenge[s] # c
    BY <1>3, <1>4
  <2>2. sesChallenge[s] \in Challenges
    BY <2>1 DEF TypeOK, SessionRowShape, Absent
  <2>3. QED
    BY <1>4, <2>1, <2>2 DEF LeasedOnlyWhileActive
<1>6. QED
  BY <1>4, <1>5

\* Expiry of one challenge keeps the invariant.
LEMMA TerminalizeExpiredStep ==
  ASSUME IInv, NEW c \in Challenges, NEW now \in Readings, TerminalizeExpired(c, now)
  PROVE  IInv'
<1> USE DEF TerminalizeExpired, IInv, challengeVars, accountVars, issuanceVars, workerVars
<1>1. chState[c] \in {"issued", "active", "satisfied", "pass_issued"}
  BY DEF TypeOK, Lapses, apply_challenge_command, challenge_transition_allowed, ChallengeStates,
         Forbidden, Absent
<1>2. LifecycleDeadline(c) \in Nat
  BY ConstantsAssumption DEF TypeOK, LifecycleDeadline, IssuanceAgrees, Pass
<1>3. SessionsTyped' /\ SessionRowShape' /\ LeasedOnlyWhileActive'
  <2>1. "challenge_expired" \in StopReasons
    BY DEF StopReasons
  <2>2. \A d \in Challenges : d # c => chState'[d] = chState[d]
    BY DEF TypeOK
  <2>3. QED
    BY <2>1, <2>2, EndSessionsFacts
<1>4. TypeOK'
  BY <1>2, <1>3 DEF TypeOK, SessionsTyped, ChallengeStates
<1>5. EarnedShape' /\ IssuanceAgrees'
  BY <1>1 DEF TypeOK, EarnedShape, IssuanceAgrees
<1>6. WorkerShape' /\ OneCompletion' /\ PassSignedInTime'
  BY DEF WorkerShape, OneCompletion, PassSignedInTime
<1>7. QED
  BY <1>3, <1>4, <1>5, <1>6

\* Cancellation keeps the invariant: nothing was earned yet.
LEMMA CancelChallengeStep ==
  ASSUME IInv, NEW c \in Challenges, NEW now \in Readings, CancelChallenge(c, now)
  PROVE  IInv'
<1> USE DEF CancelChallenge, IInv, challengeVars, accountVars, issuanceVars, workerVars
<1>1. chState[c] \in {"issued", "active"} /\ intent[c] = "none"
  BY ChallengeCommandFacts DEF EarnedShape
<1>2. now \in Nat
  BY DEF Readings
<1>3. SessionsTyped' /\ SessionRowShape' /\ LeasedOnlyWhileActive'
  <2>1. "challenge_cancelled" \in StopReasons
    BY DEF StopReasons
  <2>2. \A d \in Challenges : d # c => chState'[d] = chState[d]
    BY DEF TypeOK
  <2>3. QED
    BY <2>1, <2>2, EndSessionsFacts
<1>4. TypeOK'
  BY <1>2, <1>3 DEF TypeOK, SessionsTyped, ChallengeStates
<1>5. EarnedShape' /\ IssuanceAgrees'
  BY <1>1 DEF TypeOK, EarnedShape, IssuanceAgrees
<1>6. WorkerShape' /\ OneCompletion' /\ PassSignedInTime'
  BY DEF WorkerShape, OneCompletion, PassSignedInTime
<1>7. QED
  BY <1>3, <1>4, <1>5, <1>6

\* A step that writes only session rows keeps the invariant when it keeps the
\* session conjuncts.
LEMMA SessionOnlyStep ==
  ASSUME IInv, SessionsTyped', SessionRowShape', LeasedOnlyWhileActive',
         UNCHANGED <<clock, challengeVars, accountVars, issuanceVars, workerVars>>
  PROVE  IInv'
<1> USE DEF IInv, challengeVars, accountVars, issuanceVars, workerVars
<1>1. TypeOK'
  BY DEF TypeOK, SessionsTyped
<1>2. WorkerShape' /\ EarnedShape' /\ IssuanceAgrees'
  BY DEF WorkerShape, EarnedShape, IssuanceAgrees
<1>3. OneCompletion' /\ PassSignedInTime'
  BY DEF OneCompletion, PassSignedInTime
<1>4. QED
  BY <1>1, <1>2, <1>3

\* Stopping some registered sessions and nothing else keeps the invariant.
LEMMA StopOnlyStep ==
  ASSUME IInv, NEW S \in SUBSET Sessions, \A s \in S : sesState[s] # Absent,
         NEW reason \in StopReasons, StopSessions(S, reason),
         UNCHANGED <<clock, challengeVars, accountVars, issuanceVars, workerVars>>
  PROVE  IInv'
<1>1. TypeOK /\ SessionRowShape
  BY DEF IInv
<1>2. /\ SessionsTyped' /\ SessionRowShape' /\ sesChallenge' = sesChallenge
      /\ \A s \in Sessions : sesState'[s] = "leased" => sesState[s] = "leased" /\ s \notin S
  BY <1>1, StopSessionsFacts
<1>3. LeasedOnlyWhileActive'
  BY <1>2 DEF LeasedOnlyWhileActive, IInv, challengeVars
<1>4. QED
  BY <1>2, <1>3, SessionOnlyStep

\* Pausing stops the challenge's leased sessions.
LEMMA PauseChallengeStep ==
  ASSUME IInv, NEW c \in Challenges, NEW reason \in Pauses, NEW now \in Readings,
         PauseChallenge(c, reason, now)
  PROVE  IInv'
<1> DEFINE S == SessionsOf(c, {"leased"})
<1>1. S \in SUBSET Sessions /\ (\A s \in S : sesState[s] # Absent)
  BY DEF SessionsOf, Absent
<1>2. reason \in StopReasons
  BY ConstantsAssumption DEF StopReasons
<1>3. StopSessions(S, reason) /\ UNCHANGED <<clock, challengeVars, accountVars, issuanceVars, workerVars>>
  BY DEF PauseChallenge
<1> HIDE DEF S
<1>4. QED
  BY <1>1, <1>2, <1>3, StopOnlyStep

\* A Worker interruption stops one session.
LEMMA InterruptStep ==
  ASSUME IInv, NEW s \in Sessions, NEW interruption \in Interruptions,
         InterruptWorkSession(s, interruption)
  PROVE  IInv'
<1>1. {s} \in SUBSET Sessions /\ (\A x \in {s} : sesState[x] # Absent)
  BY SessionCommandFacts DEF InterruptWorkSession, Absent
<1>2. interruption \in StopReasons
  BY ConstantsAssumption DEF StopReasons
<1>3. QED
  BY <1>1, <1>2, StopOnlyStep DEF InterruptWorkSession

\* A ready session joins an open challenge.
LEMMA RegisterSessionStep ==
  ASSUME IInv, NEW s \in Sessions, NEW c \in Challenges, NEW predecessor \in Sessions \cup {None},
         NEW gen \in Nat, sesState[s] = Absent, RegisterSession(s, c, predecessor, gen),
         UNCHANGED <<clock, challengeVars, accountVars, issuanceVars, workerVars>>
  PROVE  IInv'
<1> USE DEF RegisterSession, IInv, Absent
<1>1. SessionsTyped'
  BY DEF TypeOK, SessionsTyped, SessionStates
<1>2. SessionRowShape'
  BY ConstantsAssumption DEF TypeOK, SessionRowShape
<1>3. LeasedOnlyWhileActive'
  BY DEF TypeOK, LeasedOnlyWhileActive, challengeVars
<1>4. QED
  BY <1>1, <1>2, <1>3, SessionOnlyStep

\* A session of the challenge's consented selection is registered.
LEMMA InsertWorkSessionStep ==
  ASSUME IInv, NEW s \in Sessions, NEW c \in Challenges, NEW now \in Readings,
         InsertWorkSession(s, c, now)
  PROVE  IInv'
<1>1. QED
  BY RegisterSessionStep DEF InsertWorkSession

\* A replacement joins the challenge of the session it replaces.
LEMMA ReplaceWorkSessionStep ==
  ASSUME IInv, NEW old \in Sessions, NEW s \in Sessions, NEW now \in Readings,
         ReplaceWorkSession(old, s, now)
  PROVE  IInv'
<1> USE DEF ReplaceWorkSession
<1>1. sesChallenge[old] \in Challenges
  BY DEF IInv, TypeOK, SessionRowShape, Absent
<1>2. PICK top \in Sessions : RegisterSession(s, sesChallenge[old], old, generation[top] + 1)
  OBVIOUS
<1>3. generation[top] + 1 \in Nat
  BY DEF IInv, TypeOK
<1>4. QED
  BY <1>1, <1>2, <1>3, RegisterSessionStep

\* A stopped session is confirmed restored.
LEMMA ConfirmRestoredStep ==
  ASSUME IInv, NEW s \in Sessions, ConfirmWorkSessionRestored(s)
  PROVE  IInv'
<1> USE DEF ConfirmWorkSessionRestored, IInv, Absent
<1>1. sesState[s] \in {"stopping", "restored"}
  BY SessionCommandFacts
<1>2. SessionsTyped'
  BY DEF TypeOK, SessionsTyped, SessionStates
<1>3. SessionRowShape'
  BY <1>1 DEF TypeOK, SessionRowShape
<1>4. LeasedOnlyWhileActive'
  BY DEF TypeOK, LeasedOnlyWhileActive, challengeVars
<1>5. QED
  BY <1>2, <1>3, <1>4, SessionOnlyStep

\* A session fails and gives its lease up.
LEMMA FailWorkSessionStep ==
  ASSUME IInv, NEW s \in Sessions, FailWorkSession(s)
  PROVE  IInv'
<1> USE DEF FailWorkSession, IInv, Absent
<1>1. sesState' = [sesState EXCEPT ![s] = "failed"]
  BY SessionCommandFacts
<1>2. None # "session_failed" /\ "session_failed" \in StopReasons
  BY ConstantsAssumption DEF StopReasons
<1>3. SessionsTyped'
  BY <1>1, <1>2 DEF TypeOK, SessionsTyped, SessionStates
<1>4. SessionRowShape'
  BY <1>1, <1>2 DEF TypeOK, SessionRowShape
<1>5. LeasedOnlyWhileActive'
  BY <1>1 DEF TypeOK, LeasedOnlyWhileActive, challengeVars
<1>6. QED
  BY <1>3, <1>4, <1>5, SessionOnlyStep

\* Starting a lease makes the session leased and its challenge active together.
LEMMA StartWorkLeaseStep ==
  ASSUME IInv, NEW s \in Sessions, NEW boot \in Boots, NEW reading \in 0..MaxReading,
         NEW now \in Readings, StartWorkLease(s, boot, reading, now)
  PROVE  IInv'
<1> USE DEF StartWorkLease, IInv, Absent, challengeVars, accountVars, issuanceVars, workerVars
<1> DEFINE c == sesChallenge[s]
           lease == [id |-> leaseCount[s] + 1, boot |-> boot, start |-> reading,
                     last |-> reading, until |-> reading + LeaseLength]
<1>1. c \in Challenges /\ chState[c] \in {"issued", "active"} /\ intent[c] = "none"
  BY ChallengeCommandFacts DEF TypeOK, SessionRowShape, EarnedShape
<1>2. lease \in Lease /\ lease # None
  <2>1. reading \in Nat /\ reading + LeaseLength \in Nat /\ leaseCount[s] + 1 \in 1..MaxLeases
    BY ConstantsAssumption DEF TypeOK
  <2>2. lease \in Lease
    BY <2>1 DEF Lease
  <2>3. QED
    BY <2>2, NoneAssumption
<1>3. /\ chState' = [chState EXCEPT ![c] = "active"]
      /\ sesLease' = [sesLease EXCEPT ![s] = lease]
  OBVIOUS
<1>4. leaseCount' \in [Sessions -> 0..MaxLeases]
  BY ConstantsAssumption DEF TypeOK
<1> HIDE DEF c, lease
<1>5. TypeOK'
  <2>1. /\ chState' \in [Challenges -> ChallengeStates \cup {Absent}]
        /\ sesState' \in [Sessions -> SessionStates \cup {Absent}]
    BY <1>1, <1>3 DEF TypeOK, ChallengeStates, SessionStates
  <2>2. /\ sesReason' \in [Sessions -> StopReasons \cup {None}]
        /\ sesLease' \in [Sessions -> Lease \cup {None}]
    BY <1>2, <1>3 DEF TypeOK
  <2>3. QED
    BY <1>4, <2>1, <2>2 DEF TypeOK
<1>6. SessionRowShape'
  BY <1>1, <1>2, <1>3, ConstantsAssumption DEF TypeOK, SessionRowShape, c
<1>7. LeasedOnlyWhileActive'
  BY <1>1, <1>3 DEF TypeOK, SessionRowShape, LeasedOnlyWhileActive, c
<1>8. EarnedShape' /\ IssuanceAgrees'
  BY <1>1, <1>3 DEF TypeOK, EarnedShape, IssuanceAgrees
<1>9. WorkerShape' /\ OneCompletion' /\ PassSignedInTime'
  BY DEF WorkerShape, OneCompletion, PassSignedInTime
<1>10. QED
  BY <1>5, <1>6, <1>7, <1>8, <1>9

\* A renewal extends the lease, or stops the session for the reason it observed.
LEMMA RenewWorkLeaseStep ==
  ASSUME IInv, NEW s \in Sessions, NEW id \in Nat, NEW boot \in Boots,
         NEW reading \in 0..MaxReading, NEW now \in Readings,
         RenewWorkLease(s, id, boot, reading, now)
  PROVE  IInv'
<1> DEFINE seen == observe_work_lease(sesLease[s], sesLease[s].last, id, boot, reading)
           lease == [sesLease[s] EXCEPT !.last = reading, !.until = reading + LeaseLength]
<1>1. sesState[s] = "leased"
  BY SessionCommandFacts DEF RenewWorkLease
<1>2. CASE sesLease' = [sesLease EXCEPT ![s] = lease]
           /\ UNCHANGED <<sesState, sesReason, sesChallenge, leaseCount, replaces, generation>>
  <2> USE DEF IInv, Absent
  <2>1. sesLease[s] \in Lease
    BY <1>1 DEF TypeOK, SessionRowShape
  <2>2. lease \in Lease /\ lease # None
    <3>1. reading \in Nat /\ reading + LeaseLength \in Nat
      BY ConstantsAssumption
    <3>2. lease \in Lease
      BY <2>1, <3>1 DEF Lease
    <3>3. QED
      BY <3>2, NoneAssumption
  <2> HIDE DEF lease
  <2>3. SessionsTyped'
    BY <1>2, <2>2 DEF TypeOK, SessionsTyped
  <2>4. SessionRowShape'
    BY <1>1, <1>2, <2>2 DEF TypeOK, SessionRowShape
  <2>5. LeasedOnlyWhileActive'
    BY <1>2 DEF LeasedOnlyWhileActive, RenewWorkLease, challengeVars
  <2>6. QED
    BY <2>3, <2>4, <2>5, SessionOnlyStep DEF RenewWorkLease
<1>3. CASE seen \in StopReasons /\ StopSessions({s}, seen)
  <2>1. {s} \in SUBSET Sessions /\ (\A x \in {s} : sesState[x] # Absent)
    BY <1>1 DEF Absent
  <2> HIDE DEF seen
  <2>2. QED
    BY <1>3, <2>1, StopOnlyStep DEF RenewWorkLease
<1>4. QED
  BY <1>2, <1>3 DEF RenewWorkLease

\* A reading that ends the lease stops the session that worked under it.
LEMMA AcceptWorkStopsStep ==
  ASSUME IInv, NEW e \in Events, NEW s \in Sessions, NEW id \in Nat, NEW boot \in Boots,
         NEW reading \in 0..MaxReading, NEW received \in Nat, NEW now \in Readings,
         AcceptWorkStops(e, s, id, boot, reading, received, now)
  PROVE  IInv'
<1> DEFINE seen == ObserveSessionLease(s, id, boot, reading)
<1>1. {s} \in SUBSET Sessions /\ (\A x \in {s} : sesState[x] # Absent)
  BY DEF AcceptWorkStops, Deliverable
<1>2. /\ seen \in StopReasons /\ StopSessions({s}, seen)
      /\ UNCHANGED <<clock, challengeVars, accountVars, issuanceVars, workerVars>>
  BY DEF AcceptWorkStops
<1> HIDE DEF seen
<1>3. QED
  BY <1>1, <1>2, StopOnlyStep

\* Late work ends the challenge before anything was earned.
LEMMA AcceptWorkLateStep ==
  ASSUME IInv, NEW e \in Events, NEW s \in Sessions, NEW received \in Nat, NEW now \in Readings,
         AcceptWorkLate(e, s, received, now)
  PROVE  IInv'
<1> USE DEF AcceptWorkLate, IInv, challengeVars, accountVars, issuanceVars, workerVars
<1> DEFINE c == sesChallenge[s]
<1>1. c \in Challenges /\ chState[c] = "active" /\ intent[c] = "none"
  BY ChallengeCommandFacts DEF TypeOK, Deliverable, SessionRowShape, EarnedShape
<1>2. /\ chState' = [chState EXCEPT ![c] = "expired"]
      /\ terminalAt' = [terminalAt EXCEPT ![c] = deadline[c]]
      /\ StopSessions(SessionsOf(c, {"ready", "leased"}), "challenge_expired")
  OBVIOUS
<1> HIDE DEF c
<1>3. SessionsTyped' /\ SessionRowShape' /\ LeasedOnlyWhileActive'
  <2>1. "challenge_expired" \in StopReasons
    BY DEF StopReasons
  <2>2. \A d \in Challenges : d # c => chState'[d] = chState[d]
    BY <1>2 DEF TypeOK
  <2>3. QED
    BY <1>1, <1>2, <2>1, <2>2, EndSessionsFacts
<1>4. TypeOK'
  BY <1>1, <1>2, <1>3 DEF TypeOK, SessionsTyped, ChallengeStates
<1>5. EarnedShape' /\ IssuanceAgrees'
  BY <1>1, <1>2 DEF TypeOK, EarnedShape, IssuanceAgrees
<1>6. WorkerShape' /\ OneCompletion' /\ PassSignedInTime'
  BY DEF WorkerShape, OneCompletion, PassSignedInTime
<1>7. QED
  BY <1>3, <1>4, <1>5, <1>6

\* Accepted work moves progress and, across the requirement, creates the intent and
\* stops the challenge's sessions.
LEMMA AcceptWorkStep ==
  ASSUME IInv, NEW e \in Events, NEW s \in Sessions, NEW f \in Shares, NEW work \in Works,
         NEW id \in Nat, NEW boot \in Boots, NEW reading \in 0..MaxReading,
         NEW received \in Nat, NEW now \in Readings,
         AcceptWork(e, s, f, work, id, boot, reading, received, now)
  PROVE  IInv'
<1> USE DEF IInv, challengeVars, accountVars, issuanceVars, workerVars
<1> DEFINE c == sesChallenge[s]
           inserted == shareOwner[f] = None
           t == accepted_work_transition(progress[c], Requirement[c], work, inserted)
           stored == [session |-> s, share |-> f, work |-> work, challenge |-> c,
                      disposition |-> t.disposition, credited |-> t.credited,
                      progress |-> t.progress, intent_created |-> t.intent_created]
<1>1. c \in Challenges /\ chState[c] = "active" /\ intent[c] = "none"
  BY ChallengeCommandFacts DEF AcceptWork, TypeOK, Deliverable, SessionRowShape, EarnedShape
<1>2. progress[c] \in Nat /\ Requirement[c] \in Nat /\ work \in Nat /\ inserted \in BOOLEAN
      /\ ~meets(progress[c], Requirement[c])
  BY <1>1, ConstantsAssumption DEF TypeOK, EarnedShape
<1>3. /\ t.progress <= WorkCeiling
      /\ shareOwner' = [shareOwner EXCEPT ![f] = IF inserted THEN c ELSE shareOwner[f]]
      /\ RecordTransition(c, t)
      /\ ack' = [ack EXCEPT ![e] = stored]
      /\ UNCHANGED <<clock, deadline, selection, signer, signLease, pass, workerVars>>
  BY DEF AcceptWork, Representable
<1> HIDE DEF t, inserted, c
<1>4. /\ t.disposition \in {"credited", "duplicate_share"}
      /\ t.credited \in Nat /\ t.progress \in Nat /\ t.intent_created \in BOOLEAN
      /\ t.intent_created <=> meets(t.progress, Requirement[c])
  <2>1. /\ t.disposition = (IF inserted THEN "credited" ELSE "duplicate_share")
        /\ t.credited = (IF inserted THEN work ELSE 0)
        /\ t.progress = progress[c] + t.credited
    BY <1>2 DEF accepted_work_transition, t
  <2>2. t.intent_created = (~meets(progress[c], Requirement[c])
                             /\ meets(t.progress, Requirement[c]))
    BY Zenon DEF accepted_work_transition, t
  <2>3. t.disposition \in {"credited", "duplicate_share"} /\ t.credited \in Nat
    BY <1>2, <2>1
  <2>4. t.progress \in Nat
    BY <1>2, <2>1, <2>3
  <2>5. t.intent_created \in BOOLEAN
    BY <2>2, Zenon
  <2>6. QED
    BY <1>2, <2>2, <2>3, <2>4, <2>5
<1>5. stored \in Acknowledgement
  BY <1>1, <1>4 DEF Acknowledgement
<1> HIDE DEF stored
<1>6. /\ progress' = [progress EXCEPT ![c] = t.progress]
      /\ progress' \in [Challenges -> 0..WorkCeiling]
  BY <1>1, <1>3, <1>4, ConstantsAssumption DEF RecordTransition, TypeOK
<1>7. /\ shareOwner' \in [Shares -> Challenges \cup {None}]
      /\ ack' \in [Events -> Acknowledgement \cup {None}]
  BY <1>1, <1>3, <1>5 DEF TypeOK
<1>8. WorkerShape' /\ PassSignedInTime'
  BY <1>3 DEF WorkerShape, PassSignedInTime
<1>9. CASE t.intent_created
  <2>1. /\ chState' = [chState EXCEPT ![c] = "satisfied"]
        /\ terminalAt' = [terminalAt EXCEPT ![c] = None]
        /\ intent' = [intent EXCEPT ![c] = "pending"]
        /\ outbox' = [outbox EXCEPT ![c] = "pending"]
        /\ StopSessions(SessionsOf(c, {"ready", "leased"}), "challenge_satisfied")
    BY <1>3, <1>9 DEF RecordTransition
  <2>2. SessionsTyped' /\ SessionRowShape' /\ LeasedOnlyWhileActive'
    <3>1. "challenge_satisfied" \in StopReasons
      BY DEF StopReasons
    <3>2. \A d \in Challenges : d # c => chState'[d] = chState[d]
      BY <2>1 DEF TypeOK
    <3>3. QED
      BY <1>1, <2>1, <3>1, <3>2, EndSessionsFacts
  <2>3. TypeOK'
    BY <1>1, <1>3, <1>6, <1>7, <2>1, <2>2 DEF TypeOK, SessionsTyped, ChallengeStates
  <2>4. EarnedShape'
    BY <1>1, <1>4, <1>6, <1>9, <2>1 DEF TypeOK, EarnedShape
  <2>5. IssuanceAgrees'
    BY <1>1, <1>3, <2>1 DEF TypeOK, IssuanceAgrees
  <2>6. OneCompletion'
    BY <1>1, <1>3, <2>1 DEF TypeOK, OneCompletion, WorkerShape
  <2>7. QED
    BY <1>8, <2>2, <2>3, <2>4, <2>5, <2>6
<1>10. CASE ~t.intent_created
  <2>1. UNCHANGED <<chState, terminalAt, intent, outbox, sessionVars>>
    BY <1>3, <1>10 DEF RecordTransition
  <2>2. TypeOK'
    BY <1>3, <1>6, <1>7, <2>1 DEF TypeOK, sessionVars
  <2>3. EarnedShape'
    BY <1>1, <1>4, <1>6, <1>10, <2>1 DEF TypeOK, EarnedShape
  <2>4. SessionRowShape' /\ LeasedOnlyWhileActive'
    BY <2>1 DEF SessionRowShape, LeasedOnlyWhileActive, sessionVars
  <2>5. IssuanceAgrees' /\ OneCompletion'
    BY <1>3, <2>1 DEF IssuanceAgrees, OneCompletion
  <2>6. QED
    BY <1>8, <2>2, <2>3, <2>4, <2>5
<1>11. QED
  BY <1>9, <1>10

-----------------------------------------------------------------------------
\* Issuance.

\* A sweep fails the overdue intents, marks the claimed one, and leaves alone every
\* intent that a completion holds.
LEMMA SweepAndMarkFacts ==
  ASSUME IInv, NEW w \in Workers, NEW now \in Readings, NEW claimed \in SUBSET Challenges,
         \A c \in claimed : Claimable(c, now),
         SweepAndMark(claimed, w, now)
  PROVE  /\ chState' \in [Challenges -> ChallengeStates \cup {Absent}]
         /\ terminalAt' \in [Challenges -> Nat \cup {None}]
         /\ intent' \in [Challenges -> {"none", "pending", "signing", "issued", "failed"}]
         /\ outbox' \in [Challenges -> {"none", "pending", "processing", "completed", "failed"}]
         /\ signer' \in [Challenges -> Workers \cup {None}]
         /\ signLease' \in [Challenges -> Nat \cup {None}]
         /\ SessionRowShape' /\ EarnedShape' /\ IssuanceAgrees' /\ LeasedOnlyWhileActive'
         /\ PassSignedInTime'
         /\ \A c \in Challenges : IntentLocked(c) =>
              intent'[c] = intent[c] /\ signer'[c] = signer[c]
<1> USE DEF IInv
<1> DEFINE late == Overdue(now)
<1>1. late \in SUBSET Challenges /\ (\A c \in late : intent[c] \in {"pending", "signing"})
  BY DEF Overdue
<1>2. \A c \in claimed : intent[c] \in {"pending", "signing"} /\ c \notin late /\ ~IntentLocked(c)
  BY DEF Claimable, Overdue, TypeOK, Readings
<1>3. /\ \A c \in late : ~IntentLocked(c)
      /\ chState'    = [c \in Challenges |-> IF c \in late THEN "expired" ELSE chState[c]]
      /\ terminalAt' = [c \in Challenges |-> IF c \in late THEN deadline[c] ELSE terminalAt[c]]
  BY DEF SweepAndMark, FailOverdue
<1>4. /\ intent' = [c \in Challenges |-> IF c \in claimed THEN "signing"
                                         ELSE IF c \in late THEN "failed" ELSE intent[c]]
      /\ outbox' = [c \in Challenges |-> IF c \in claimed THEN "processing"
                                         ELSE IF c \in late THEN "failed" ELSE outbox[c]]
      /\ signer' = [c \in Challenges |-> IF c \in claimed THEN w
                                         ELSE IF c \in late THEN None ELSE signer[c]]
      /\ signLease' = [c \in Challenges |-> IF c \in claimed THEN now + SigningLease
                                            ELSE IF c \in late THEN None ELSE signLease[c]]
      /\ UNCHANGED <<clock, deadline, progress, selection, sessionVars, accountVars, pass>>
  BY DEF SweepAndMark
<1> HIDE DEF late
<1>5. now + SigningLease \in Nat
  BY ConstantsAssumption DEF Readings
<1>6. /\ chState' \in [Challenges -> ChallengeStates \cup {Absent}]
      /\ terminalAt' \in [Challenges -> Nat \cup {None}]
  BY <1>3 DEF TypeOK, ChallengeStates
<1>7. /\ intent' \in [Challenges -> {"none", "pending", "signing", "issued", "failed"}]
      /\ outbox' \in [Challenges -> {"none", "pending", "processing", "completed", "failed"}]
  BY <1>4 DEF TypeOK
<1>8. /\ signer' \in [Challenges -> Workers \cup {None}]
      /\ signLease' \in [Challenges -> Nat \cup {None}]
  BY <1>4, <1>5 DEF TypeOK
<1>9. SessionRowShape' /\ PassSignedInTime'
  BY <1>4 DEF SessionRowShape, PassSignedInTime, sessionVars
<1>10. EarnedShape'
  BY <1>1, <1>2, <1>3, <1>4 DEF TypeOK, EarnedShape
<1>11. IssuanceAgrees'
  <2>1. w # None
    BY ConstantsAssumption
  <2> SUFFICES ASSUME NEW c \in Challenges
               PROVE  /\ pass'[c] # None <=> intent'[c] = "issued"
                      /\ chState'[c] = "pass_issued" => intent'[c] = "issued"
                      /\ chState'[c] = "satisfied" => intent'[c] \in {"pending", "signing"}
                      /\ intent'[c] = "failed" => chState'[c] = "expired"
                      /\ signer'[c] # None <=> intent'[c] = "signing"
                      /\ intent'[c] = "none"    => outbox'[c] = "none"
                      /\ intent'[c] = "pending" => outbox'[c] = "pending"
                      /\ intent'[c] = "signing" => outbox'[c] = "processing"
                      /\ intent'[c] = "issued"  => outbox'[c] = "completed"
                      /\ intent'[c] = "failed"  => outbox'[c] = "failed"
    BY DEF IssuanceAgrees
  <2>2. CASE c \in claimed
    BY <1>2, <1>3, <1>4, <2>1, <2>2 DEF IssuanceAgrees
  <2>3. CASE c \in late
    BY <1>1, <1>2, <1>3, <1>4, <2>3 DEF IssuanceAgrees
  <2>4. CASE c \notin claimed /\ c \notin late
    BY <1>3, <1>4, <2>4 DEF IssuanceAgrees
  <2>5. QED
    BY <2>2, <2>3, <2>4
<1>12. LeasedOnlyWhileActive'
  <2> SUFFICES ASSUME NEW s \in Sessions, sesState'[s] = "leased"
               PROVE  chState'[sesChallenge'[s]] = "active"
    BY DEF LeasedOnlyWhileActive
  <2>1. sesState[s] = "leased" /\ sesChallenge'[s] = sesChallenge[s]
    BY <1>4 DEF sessionVars
  <2>2. sesChallenge[s] \in Challenges /\ chState[sesChallenge[s]] = "active"
    BY <2>1 DEF TypeOK, SessionRowShape, LeasedOnlyWhileActive, Absent
  <2>3. sesChallenge[s] \notin late
    BY <1>1, <2>2 DEF EarnedShape
  <2>4. QED
    BY <1>3, <2>1, <2>2, <2>3
<1>13. \A c \in Challenges : IntentLocked(c) => intent'[c] = intent[c] /\ signer'[c] = signer[c]
  BY <1>2, <1>3, <1>4
<1>14. QED
  BY <1>6, <1>7, <1>8, <1>9, <1>10, <1>11, <1>12, <1>13

\* A poll that finds nothing to claim keeps the invariant.
LEMMA PollIssuanceStep ==
  ASSUME IInv, NEW w \in Workers, NEW now \in Readings, PollIssuance(w, now)
  PROVE  IInv'
<1> USE DEF IInv
<1>1. SweepAndMark({}, w, now) /\ UNCHANGED workerVars
  BY DEF PollIssuance
<1>2. UNCHANGED <<clock, deadline, progress, selection, sessionVars, accountVars, pass>>
  BY <1>1 DEF SweepAndMark
<1>3. TypeOK'
  BY <1>1, <1>2, SweepAndMarkFacts DEF TypeOK, sessionVars, accountVars, workerVars
<1>4. WorkerShape'
  BY <1>1, <1>2 DEF WorkerShape, workerVars
<1>5. OneCompletion'
  BY <1>1, SweepAndMarkFacts DEF OneCompletion, WorkerShape, IntentLocked, workerVars
<1>6. QED
  BY <1>1, <1>3, <1>4, <1>5, SweepAndMarkFacts

\* A claim, fresh or taken over, keeps the invariant.
LEMMA ClaimIssuanceStep ==
  ASSUME IInv, NEW w \in Workers, NEW c \in Challenges, NEW now \in Readings,
         ClaimIssuance(w, c, now)
  PROVE  IInv'
<1> USE DEF IInv
<1>1. /\ SweepAndMark({c}, w, now) /\ {c} \in SUBSET Challenges
      /\ \A d \in {c} : Claimable(d, now)
  BY DEF ClaimIssuance
<1>2. UNCHANGED <<clock, deadline, progress, selection, sessionVars, accountVars, pass>>
  BY <1>1 DEF SweepAndMark
<1>3. /\ wkPc' = [wkPc EXCEPT ![w] = "claimed"]
      /\ wkCh' = [wkCh EXCEPT ![w] = c] /\ UNCHANGED wkAt
  BY DEF ClaimIssuance
<1>4. TypeOK'
  BY <1>1, <1>2, <1>3, SweepAndMarkFacts DEF TypeOK, sessionVars, accountVars
<1>5. WorkerShape'
  BY <1>2, <1>3 DEF WorkerShape, TypeOK
<1>6. OneCompletion'
  <2> SUFFICES ASSUME NEW v \in Workers, wkPc'[v] = "completing"
               PROVE  intent'[wkCh'[v]] = "signing" /\ signer'[wkCh'[v]] = v
    BY DEF OneCompletion
  <2>1. wkPc[v] = "completing" /\ wkCh'[v] = wkCh[v] /\ wkCh[v] \in Challenges
    BY <1>3 DEF TypeOK, WorkerShape
  <2>2. IntentLocked(wkCh[v])
    BY <2>1 DEF IntentLocked
  <2>3. QED
    BY <1>1, <2>1, <2>2, SweepAndMarkFacts DEF OneCompletion
<1>7. QED
  BY <1>1, <1>4, <1>5, <1>6, SweepAndMarkFacts

\* Signing, the guarded write and a crash move only the worker.
LEMMA WorkerOnlyStep ==
  ASSUME IInv, NEW w \in Workers, SignPass(w) \/ SigningUnavailable(w) \/ WriteIssuance(w) \/ CrashWorker(w)
  PROVE  IInv'
<1> USE DEF IInv, SignPass, SigningUnavailable, WriteIssuance, CrashWorker, challengeVars, sessionVars, accountVars,
            issuanceVars
<1>1. TypeOK'
  BY DEF TypeOK
<1>2. SessionRowShape' /\ EarnedShape' /\ IssuanceAgrees'
  BY DEF SessionRowShape, EarnedShape, IssuanceAgrees
<1>3. LeasedOnlyWhileActive' /\ PassSignedInTime'
  BY DEF LeasedOnlyWhileActive, PassSignedInTime
<1>4. WorkerShape'
  BY DEF TypeOK, WorkerShape, HoldsSigningLease
<1>5. OneCompletion'
  BY DEF TypeOK, OneCompletion, HoldsSigningLease
<1>6. QED
  BY <1>1, <1>2, <1>3, <1>4, <1>5

\* The commit stores the pass of the one worker that holds the intent row.
LEMMA CommitIssuanceStep ==
  ASSUME IInv, NEW w \in Workers, CommitIssuance(w)
  PROVE  IInv'
<1> USE DEF IInv
<1> DEFINE c == wkCh[w]
           new == [by |-> w, issued_at |-> wkAt[w], expires_at |-> wkAt[w] + PassTTL]
<1>1. /\ wkPc[w] = "completing"
      /\ intent'    = [intent EXCEPT ![c] = "issued"]
      /\ signer'    = [signer EXCEPT ![c] = None]
      /\ signLease' = [signLease EXCEPT ![c] = None]
      /\ pass' = [pass EXCEPT ![c] = new]
      /\ chState'    = [chState EXCEPT ![c] = "pass_issued"]
      /\ terminalAt' = [terminalAt EXCEPT ![c] = wkAt[w]]
      /\ outbox' = [outbox EXCEPT ![c] = "completed"]
      /\ wkPc' = [wkPc EXCEPT ![w] = "idle"]
      /\ UNCHANGED <<clock, deadline, progress, selection, sessionVars, accountVars, wkCh, wkAt>>
  BY DEF CommitIssuance, MarkChallengeIssued
<1>2. /\ c \in Challenges /\ intent[c] = "signing" /\ signer[c] = w
      /\ wkAt[w] \in Nat /\ wkAt[w] < deadline[c]
  BY <1>1 DEF TypeOK, WorkerShape, OneCompletion
<1>3. new \in Pass /\ new # None /\ new.issued_at = wkAt[w]
  <2>1. wkAt[w] + PassTTL \in Nat
    BY <1>2, ConstantsAssumption
  <2>2. new \in Pass
    BY <1>2, <2>1 DEF Pass
  <2>3. QED
    BY <2>2, NoneAssumption
<1>4. chState[c] # "active"
  BY <1>2 DEF EarnedShape
<1> HIDE DEF c, new
<1>5. TypeOK'
  BY <1>1, <1>2, <1>3 DEF TypeOK, ChallengeStates, sessionVars, accountVars
<1>6. SessionRowShape'
  BY <1>1 DEF SessionRowShape, sessionVars
<1>7. WorkerShape'
  BY <1>1 DEF TypeOK, WorkerShape
<1>8. EarnedShape'
  BY <1>1, <1>2 DEF TypeOK, EarnedShape
<1>9. IssuanceAgrees'
  BY <1>1, <1>2, <1>3 DEF TypeOK, IssuanceAgrees
<1>10. OneCompletion'
  BY <1>1, <1>2 DEF TypeOK, OneCompletion, WorkerShape
<1>11. LeasedOnlyWhileActive'
  BY <1>1, <1>2, <1>4 DEF TypeOK, LeasedOnlyWhileActive, SessionRowShape, sessionVars, Absent
<1>12. PassSignedInTime'
  BY <1>1, <1>2, <1>3 DEF TypeOK, PassSignedInTime
<1>13. QED
  BY <1>5, <1>6, <1>7, <1>8, <1>9, <1>10, <1>11, <1>12

-----------------------------------------------------------------------------
\* The theorems.

\* Every step of the Authority keeps the inductive invariant.
LEMMA NextIInv ==
  ASSUME IInv, [Next]_vars
  PROVE  IInv'
<1>1. CASE UNCHANGED vars
  BY <1>1 DEF IInv, vars, challengeVars, sessionVars, accountVars, issuanceVars, workerVars,
     TypeOK, SessionRowShape, WorkerShape, EarnedShape, IssuanceAgrees, OneCompletion,
     LeasedOnlyWhileActive, PassSignedInTime
<1>2. CASE Tick
  BY <1>2, TickStep
<1>3. ASSUME NEW now \in Readings, NEW c \in Challenges, ChallengeRequest(c, now)
      PROVE  IInv'
  BY <1>3, InsertChallengeStep, PoolSelectionStep, TerminalizeExpiredStep, CancelChallengeStep,
     PauseChallengeStep, InsertWorkSessionStep DEF ChallengeRequest
<1>4. ASSUME NEW now \in Readings, NEW s \in Sessions, SessionRequest(s, now)
      PROVE  IInv'
  <2>1. \A id \in 1..leaseCount[s] : id \in Nat
    BY DEF IInv, TypeOK
  <2>2. QED
    BY <1>4, <2>1, ReplaceWorkSessionStep, StartWorkLeaseStep, RenewWorkLeaseStep
       DEF SessionRequest
<1>5. ASSUME NEW now \in Readings, NEW e \in Events, NEW s \in Sessions, Delivery(e, s, now)
      PROVE  IInv'
  <2>1. (\A id \in 1..leaseCount[s] : id \in Nat) /\ (\A t \in 0..(clock + PoolSkew) : t \in Nat)
    BY DEF IInv, TypeOK
  <2>2. QED
    BY <1>5, <2>1, AcceptWorkLateStep, AcceptWorkStopsStep, AcceptWorkStep DEF Delivery
<1>6. ASSUME NEW s \in Sessions, SessionReport(s)
      PROVE  IInv'
  BY <1>6, InterruptStep, ConfirmRestoredStep, FailWorkSessionStep DEF SessionReport
<1>7. ASSUME NEW w \in Workers, WorkerStep(w) \/ CrashWorker(w)
      PROVE  IInv'
  BY <1>7, PollIssuanceStep, ClaimIssuanceStep, WorkerOnlyStep, CommitIssuanceStep DEF WorkerStep
<1>8. QED
  BY <1>1, <1>2, <1>3, <1>4, <1>5, <1>6, <1>7 DEF Next

\* The inductive invariant holds in every reachable state, for every number of
\* challenges, sessions, events, shares and workers and for every clock bound.
THEOREM Invariance == Spec => []IInv
<1>1. QED
  BY InitIInv, NextIInv, PTL DEF Spec

\* Every row keeps its shape; in particular Verified Progress never overflows.
THEOREM TypeCorrectness == Spec => []TypeOK
<1>1. IInv => TypeOK
  BY DEF IInv
<1>2. QED
  BY <1>1, Invariance, PTL

\* No Worker holds a lease for a challenge that is not active.
THEOREM LeaseSafety == Spec => []LeasedOnlyWhileActive
<1>1. IInv => LeasedOnlyWhileActive
  BY DEF IInv
<1>2. QED
  BY <1>1, Invariance, PTL

\* The challenge, its intent, its pass and its outbox row always agree.
THEOREM IssuanceConsistency == Spec => []IssuanceAgrees
<1>1. IInv => IssuanceAgrees
  BY DEF IInv
<1>2. QED
  BY <1>1, Invariance, PTL

\* Two workers never complete one challenge at the same time.
THEOREM CompletionExclusion == Spec => []OneCompletion
<1>1. IInv => OneCompletion
  BY DEF IInv
<1>2. QED
  BY <1>1, Invariance, PTL

\* Every stored pass was signed before the challenge's deadline.
THEOREM SignedInTime == Spec => []PassSignedInTime
<1>1. IInv => PassSignedInTime
  BY DEF IInv
<1>2. QED
  BY <1>1, Invariance, PTL

\* Completion is exclusive and in time, for any number of workers, crashes and takeovers.
THEOREM CompletionSoundness == Spec => []CompletionSound
<1>1. OneCompletion /\ PassSignedInTime => CompletionSound
  BY DEF CompletionSound
<1>2. QED
  BY <1>1, CompletionExclusion, SignedInTime, PTL

\* A step stores a pass only where there was none.
LEMMA PassStep ==
  ASSUME IInv, [Next]_vars, NEW c \in Challenges, pass[c] # None
  PROVE  pass'[c] = pass[c]
<1>1. CASE UNCHANGED pass
  BY <1>1
<1>2. ASSUME NEW w \in Workers, CommitIssuance(w)
      PROVE  pass'[c] = pass[c]
  <2>1. wkCh[w] # c
    BY <1>2 DEF IInv, OneCompletion, IssuanceAgrees, CommitIssuance
  <2>2. QED
    BY <1>2, <2>1 DEF IInv, TypeOK, CommitIssuance
<1>3. UNCHANGED pass \/ \E w \in Workers : CommitIssuance(w)
  <2> USE DEF issuanceVars
  <2>1. CASE UNCHANGED vars \/ Tick
    BY <2>1 DEF vars, Tick
  <2>2. ASSUME NEW now \in Readings, NEW d \in Challenges, ChallengeRequest(d, now)
        PROVE  UNCHANGED pass
    BY <2>2 DEF ChallengeRequest, InsertChallenge, ProposePoolSelection, ConfirmPoolSelection,
       TerminalizeExpired, CancelChallenge, PauseChallenge, InsertWorkSession
  <2>3. ASSUME NEW now \in Readings, NEW s \in Sessions, SessionRequest(s, now)
        PROVE  UNCHANGED pass
    BY <2>3 DEF SessionRequest, ReplaceWorkSession, StartWorkLease, RenewWorkLease
  <2>4. ASSUME NEW now \in Readings, NEW e \in Events, NEW s \in Sessions, Delivery(e, s, now)
        PROVE  UNCHANGED pass
    BY <2>4 DEF Delivery, AcceptWorkLate, AcceptWorkStops, AcceptWork
  <2>5. ASSUME NEW s \in Sessions, SessionReport(s)
        PROVE  UNCHANGED pass
    BY <2>5 DEF SessionReport, InterruptWorkSession, ConfirmWorkSessionRestored, FailWorkSession
  <2>6. ASSUME NEW w \in Workers, WorkerStep(w) \/ CrashWorker(w)
        PROVE  UNCHANGED pass \/ CommitIssuance(w)
    BY <2>6 DEF WorkerStep, PollIssuance, ClaimIssuance, SweepAndMark, SignPass, SigningUnavailable, WriteIssuance,
       CrashWorker
  <2>7. QED
    BY <2>1, <2>2, <2>3, <2>4, <2>5, <2>6 DEF Next
<1>4. QED
  BY <1>1, <1>2, <1>3

\* A stored Gate Pass is never signed again.
THEOREM PassPermanence == Spec => StoredPassNeverChanges
<1>1. IInv /\ [Next]_vars => [\A c \in Challenges : pass[c] # None => pass'[c] = pass[c]]_vars
  BY PassStep
<1>2. QED
  BY <1>1, Invariance, PTL DEF Spec, StoredPassNeverChanges

-----------------------------------------------------------------------------
\* The share ledger.

\* A credited share is on the ledger, so it cannot be inserted there again.
CreditedIsOwned ==
  \A e \in Events : ack[e] # None /\ ack[e].disposition = "credited" =>
                      shareOwner[ack[e].share] # None

\* Only accepted work writes the ledger and the acknowledgements.
LEMMA AccountStep ==
  ASSUME [Next]_vars, ~(UNCHANGED accountVars)
  PROVE  \E e \in Events, s \in Sessions, now \in Readings, f \in Shares, work \in Works,
            boot \in Boots : \E received, id, reading :
           AcceptWork(e, s, f, work, id, boot, reading, received, now)
<1>1. ~(UNCHANGED vars \/ Tick)
  BY DEF vars, Tick
<1>2. ASSUME NEW now \in Readings, NEW c \in Challenges, ChallengeRequest(c, now)
      PROVE  UNCHANGED accountVars
  BY <1>2 DEF ChallengeRequest, InsertChallenge, ProposePoolSelection, ConfirmPoolSelection,
     TerminalizeExpired, CancelChallenge, PauseChallenge, InsertWorkSession
<1>3. ASSUME NEW now \in Readings, NEW s \in Sessions, SessionRequest(s, now)
      PROVE  UNCHANGED accountVars
  BY <1>3 DEF SessionRequest, ReplaceWorkSession, StartWorkLease, RenewWorkLease
<1>4. ASSUME NEW s \in Sessions, SessionReport(s)
      PROVE  UNCHANGED accountVars
  BY <1>4 DEF SessionReport, InterruptWorkSession, ConfirmWorkSessionRestored, FailWorkSession
<1>5. ASSUME NEW w \in Workers, WorkerStep(w) \/ CrashWorker(w)
      PROVE  UNCHANGED accountVars
  BY <1>5 DEF WorkerStep, PollIssuance, ClaimIssuance, SweepAndMark, SignPass, SigningUnavailable, WriteIssuance,
     CommitIssuance, CrashWorker
<1>6. PICK now \in Readings, e \in Events, s \in Sessions : Delivery(e, s, now)
  BY <1>1, <1>2, <1>3, <1>4, <1>5 DEF Next
<1>7. PICK received \in 0..(clock + PoolSkew) :
        \/ AcceptWorkLate(e, s, received, now)
        \/ \E id \in 1..leaseCount[s], boot \in Boots, reading \in 0..MaxReading :
             \/ AcceptWorkStops(e, s, id, boot, reading, received, now)
             \/ \E f \in Shares, work \in Works :
                  AcceptWork(e, s, f, work, id, boot, reading, received, now)
  BY <1>6 DEF Delivery
<1>8. ~AcceptWorkLate(e, s, received, now)
  BY DEF AcceptWorkLate
<1>9. \A id, boot, reading : ~AcceptWorkStops(e, s, id, boot, reading, received, now)
  BY DEF AcceptWorkStops
<1>10. QED
  BY <1>7, <1>8, <1>9, Zenon

\* One accepted share is credited only if the ledger did not have it.
LEMMA LedgerStep ==
  ASSUME IInv, CreditedIsOwned, ShareCreditedOnce, [Next]_vars
  PROVE  CreditedIsOwned' /\ ShareCreditedOnce'
<1>1. CASE UNCHANGED accountVars
  BY <1>1 DEF accountVars, CreditedIsOwned, ShareCreditedOnce
<1>2. CASE ~(UNCHANGED accountVars)
  <2>1. PICK e \in Events, s \in Sessions, now \in Readings, f \in Shares, work \in Works,
             boot \in Boots : \E received, id, reading :
               AcceptWork(e, s, f, work, id, boot, reading, received, now)
    BY <1>2, AccountStep
  <2>2. PICK received, id, reading : AcceptWork(e, s, f, work, id, boot, reading, received, now)
    BY <2>1
  <2>3. PICK c \in Challenges : c = sesChallenge[s] /\ chState[c] = "active"
    BY <2>2, ChallengeCommandFacts
       DEF AcceptWork, Deliverable, IInv, TypeOK, SessionRowShape
  <2> DEFINE inserted == shareOwner[f] = None
             t == accepted_work_transition(progress[c], Requirement[c], work, inserted)
             stored == [session |-> s, share |-> f, work |-> work, challenge |-> c,
                        disposition |-> t.disposition, credited |-> t.credited,
                        progress |-> t.progress, intent_created |-> t.intent_created]
  <2>4. /\ ack[e] = None
        /\ shareOwner' = [shareOwner EXCEPT ![f] = IF inserted THEN c ELSE shareOwner[f]]
        /\ ack' = [ack EXCEPT ![e] = stored]
    BY <2>2, <2>3 DEF AcceptWork, Deliverable
  <2>5. t.disposition = "credited" => inserted
    BY DEF accepted_work_transition
  <2> HIDE DEF t
  <2>6. stored.disposition = t.disposition /\ stored.share = f
    OBVIOUS
  <2> HIDE DEF stored
  <2>7. /\ shareOwner'[f] # None
        /\ \A g \in Shares : shareOwner[g] # None => shareOwner'[g] # None
    BY <2>4, ConstantsAssumption DEF IInv, TypeOK
  <2>8. /\ ack'[e] = stored /\ \A x \in Events : x # e => ack'[x] = ack[x]
        /\ \A x \in Events : ack[x] # None => ack[x].share \in Shares
    BY <2>4 DEF IInv, TypeOK, Acknowledgement
  <2>9. CreditedIsOwned'
    BY <2>6, <2>7, <2>8 DEF CreditedIsOwned
  <2>10. \A x \in Events : ack[x] # None /\ ack[x].disposition = "credited"
                             /\ stored.disposition = "credited" => ack[x].share # f
    BY <2>5, <2>6 DEF CreditedIsOwned
  <2>11. ShareCreditedOnce'
    BY <2>4, <2>6, <2>8, <2>10 DEF ShareCreditedOnce
  <2>12. QED
    BY <2>9, <2>11
<1>3. QED
  BY <1>1, <1>2

\* One share contributes Credited Work at most once, under any number of event
\* identifiers, sessions and challenges.
THEOREM ShareUniqueness == Spec => []ShareCreditedOnce
<1>1. Init => CreditedIsOwned /\ ShareCreditedOnce
  BY DEF Init, CreditedIsOwned, ShareCreditedOnce
<1>2. IInv /\ CreditedIsOwned /\ ShareCreditedOnce /\ [Next]_vars
        => CreditedIsOwned' /\ ShareCreditedOnce'
  BY LedgerStep
<1>3. QED
  BY <1>1, <1>2, Invariance, PTL DEF Spec

-----------------------------------------------------------------------------
\* The Gate Authority implements the abstract gate: every step of a handler or of an
\* issuance worker is a step of PassGate or leaves what PassGate sees unchanged.

\* The empty database shows the abstract gate its initial state.
LEMMA InitRefines == Init => Gate!GateInit
BY ConstantsAssumption DEF Init, Gate!GateInit, Stage, Absent

\* A step that keeps every stage, the progress and the passes is invisible.
LEMMA InvisibleStep ==
  ASSUME UNCHANGED <<progress, pass>>, \A c \in Challenges : Stage(c)' = Stage(c)
  PROVE  UNCHANGED Gate!gateVars
BY DEF Gate!gateVars

\* A step that moves neither the intents nor any challenge into or out of cancelled
\* and expired keeps every stage.
LEMMA QuietStep ==
  ASSUME UNCHANGED <<progress, pass, intent>>,
         \A c \in Challenges : chState'[c] \in {"cancelled", "expired"}
                                 <=> chState[c] \in {"cancelled", "expired"}
  PROVE  UNCHANGED Gate!gateVars
<1>1. \A c \in Challenges : Stage(c)' = Stage(c)
  BY DEF Stage
<1>2. QED
  BY <1>1, InvisibleStep

\* Ending one challenge that has earned nothing closes it; ending one that has an
\* intent is invisible.
LEMMA EndingStep ==
  ASSUME IInv, NEW c \in Challenges, NEW end \in {"cancelled", "expired"},
         chState[c] \notin {"cancelled", "expired"},
         chState' = [chState EXCEPT ![c] = end],
         UNCHANGED <<progress, pass, intent>>
  PROVE  Gate!Close(c) \/ UNCHANGED Gate!gateVars
<1>1. \A d \in Challenges : d # c => Stage(d)' = Stage(d)
  BY DEF IInv, TypeOK, Stage
<1>2. CASE intent[c] = "none"
  <2>1. Stage(c) = "open" /\ Stage(c)' = "closed"
    BY <1>2 DEF IInv, TypeOK, Stage
  <2>2. Gate!Close(c)
    BY <1>1, <2>1 DEF Gate!Close
  <2>3. QED
    BY <2>2
<1>3. CASE intent[c] # "none"
  <2>1. Stage(c)' = Stage(c)
    BY <1>3 DEF IInv, TypeOK, Stage
  <2>2. QED
    BY <1>1, <2>1, InvisibleStep
<1>4. QED
  BY <1>2, <1>3

\* Challenge requests close the gate or are invisible.
LEMMA ChallengeRequestRefines ==
  ASSUME IInv, NEW c \in Challenges, NEW now \in Readings, ChallengeRequest(c, now)
  PROVE  Gate!Close(c) \/ UNCHANGED Gate!gateVars
<1> USE DEF challengeVars, issuanceVars
<1>1. CASE InsertChallenge(c, now)
  BY <1>1, QuietStep DEF InsertChallenge, IInv, TypeOK, Absent
<1>2. CASE ProposePoolSelection(c, now) \/ ConfirmPoolSelection(c, now)
  BY <1>2, QuietStep DEF ProposePoolSelection, ConfirmPoolSelection
<1>3. CASE TerminalizeExpired(c, now)
  <2>1. chState[c] \notin {"cancelled", "expired"}
    BY <1>3 DEF TerminalizeExpired, Lapses, apply_challenge_command, challenge_transition_allowed,
       Forbidden
  <2>2. QED
    BY <1>3, <2>1, EndingStep DEF TerminalizeExpired
<1>4. CASE CancelChallenge(c, now)
  <2>1. chState[c] \notin {"cancelled", "expired"}
    BY <1>4, ChallengeCommandFacts DEF CancelChallenge
  <2>2. QED
    BY <1>4, <2>1, EndingStep DEF CancelChallenge
<1>5. ASSUME NEW reason \in Pauses, PauseChallenge(c, reason, now)
      PROVE  UNCHANGED Gate!gateVars
  BY <1>5, QuietStep DEF PauseChallenge
<1>6. ASSUME NEW s \in Sessions, InsertWorkSession(s, c, now)
      PROVE  UNCHANGED Gate!gateVars
  BY <1>6, QuietStep DEF InsertWorkSession
<1>7. QED
  BY <1>1, <1>2, <1>3, <1>4, <1>5, <1>6 DEF ChallengeRequest

\* Leases come and go unseen.
LEMMA SessionStepRefines ==
  ASSUME IInv, NEW s \in Sessions,
         (\E now \in Readings : SessionRequest(s, now)) \/ SessionReport(s)
  PROVE  UNCHANGED Gate!gateVars
<1> USE DEF challengeVars, issuanceVars
<1>1. ASSUME NEW old \in Sessions, NEW now \in Readings, ReplaceWorkSession(old, s, now)
      PROVE  UNCHANGED Gate!gateVars
  BY <1>1, QuietStep DEF ReplaceWorkSession
<1>2. ASSUME NEW boot \in Boots, NEW reading \in 0..MaxReading, NEW now \in Readings,
             StartWorkLease(s, boot, reading, now)
      PROVE  UNCHANGED Gate!gateVars
  <2>1. /\ chState' = [chState EXCEPT ![sesChallenge[s]] = "active"]
        /\ UNCHANGED <<progress, pass, intent>>
    BY <1>2 DEF StartWorkLease
  <2>2. sesChallenge[s] \in Challenges /\ chState[sesChallenge[s]] \in {"issued", "active"}
    BY <1>2, ChallengeCommandFacts DEF StartWorkLease, IInv, TypeOK, SessionRowShape
  <2>3. QED
    BY <2>1, <2>2, QuietStep DEF IInv, TypeOK
<1>3. ASSUME NEW id, NEW boot \in Boots, NEW reading \in 0..MaxReading, NEW now \in Readings,
             RenewWorkLease(s, id, boot, reading, now)
      PROVE  UNCHANGED Gate!gateVars
  <2>1. UNCHANGED <<chState, progress, pass, intent>>
    BY <1>3 DEF RenewWorkLease
  <2>2. QED
    BY <2>1, QuietStep
<1>4. CASE SessionReport(s)
  <2>1. UNCHANGED <<chState, progress, pass, intent>>
    BY <1>4 DEF SessionReport, InterruptWorkSession, ConfirmWorkSessionRestored, FailWorkSession
  <2>2. QED
    BY <2>1, QuietStep
<1>5. QED
  BY <1>1, <1>2, <1>3, <1>4 DEF SessionRequest

\* A delivery credits, closes or is invisible.
LEMMA DeliveryRefines ==
  ASSUME IInv, NEW e \in Events, NEW s \in Sessions, NEW now \in Readings, Delivery(e, s, now)
  PROVE  (\E c \in Challenges : Gate!Credit(c) \/ Gate!Close(c)) \/ UNCHANGED Gate!gateVars
<1> USE DEF challengeVars, issuanceVars
<1>0. sesChallenge[s] \in Challenges /\ chState[sesChallenge[s]] = "active"
      /\ intent[sesChallenge[s]] = "none"
  BY ChallengeCommandFacts DEF Delivery, AcceptWorkLate, AcceptWorkStops, AcceptWork, Deliverable,
     IInv, TypeOK, SessionRowShape, EarnedShape
<1>1. PICK c \in Challenges : c = sesChallenge[s] /\ chState[c] = "active" /\ intent[c] = "none"
  BY <1>0
<1>2. ASSUME NEW received, AcceptWorkLate(e, s, received, now)
      PROVE  Gate!Close(c) \/ UNCHANGED Gate!gateVars
  <2>1. chState' = [chState EXCEPT ![c] = "expired"] /\ UNCHANGED <<progress, pass, intent>>
    BY <1>1, <1>2 DEF AcceptWorkLate
  <2>2. QED
    BY <1>1, <2>1, EndingStep
<1>3. ASSUME NEW received, NEW id, NEW boot \in Boots, NEW reading \in 0..MaxReading,
             AcceptWorkStops(e, s, id, boot, reading, received, now)
      PROVE  UNCHANGED Gate!gateVars
  <2>1. UNCHANGED <<chState, progress, pass, intent>>
    BY <1>3 DEF AcceptWorkStops
  <2>2. QED
    BY <2>1, QuietStep
<1>4. ASSUME NEW received, NEW id, NEW boot \in Boots, NEW reading \in 0..MaxReading,
             NEW f \in Shares, NEW work \in Works,
             AcceptWork(e, s, f, work, id, boot, reading, received, now)
      PROVE  Gate!Credit(c) \/ UNCHANGED Gate!gateVars
  <2> DEFINE inserted == shareOwner[f] = None
             t == accepted_work_transition(progress[c], Requirement[c], work, inserted)
  <2>1. RecordTransition(c, t) /\ UNCHANGED pass
    BY <1>1, <1>4 DEF AcceptWork
  <2>2. /\ progress[c] \in Nat /\ Requirement[c] \in Nat /\ work \in Nat \ {0}
        /\ ~meets(progress[c], Requirement[c])
    BY <1>1, ConstantsAssumption DEF IInv, TypeOK, EarnedShape
  <2> HIDE DEF inserted
  <2>3. t.credited = (IF inserted THEN work ELSE 0) /\ t.progress = progress[c] + t.credited
    BY <2>2 DEF accepted_work_transition
  <2>4. t.intent_created = (~meets(progress[c], Requirement[c])
                             /\ meets(t.progress, Requirement[c]))
    BY Zenon DEF accepted_work_transition
  <2> HIDE DEF t
  <2>5. progress' = [progress EXCEPT ![c] = t.progress]
    BY <2>1 DEF RecordTransition
  <2>6. CASE ~inserted
    <3>0. t.progress = progress[c]
      BY <2>2, <2>3, <2>6
    <3>1. ~t.intent_created
      BY <2>2, <2>4, <3>0, Zenon
    <3>2. UNCHANGED <<chState, progress, pass, intent>>
      BY <1>1, <2>1, <2>5, <3>0, <3>1 DEF RecordTransition, IInv, TypeOK
    <3>3. QED
      BY <3>2, QuietStep
  <2>7. CASE inserted
    <3>1. progress'[c] = t.progress /\ t.progress \in Nat /\ t.progress > progress[c]
      BY <1>1, <2>2, <2>3, <2>5, <2>7 DEF IInv, TypeOK
    <3>2. progress' = [progress EXCEPT ![c] = progress'[c]]
      BY <2>5, <3>1
    <3>3. \A d \in Challenges : d # c => Stage(d)' = Stage(d)
      BY <2>1 DEF RecordTransition, IInv, TypeOK, Stage
    <3>4. Stage(c) = "open"
      BY <1>1 DEF Stage
    <3>5. Stage(c)' = (IF progress'[c] >= Requirement[c] THEN "earned" ELSE "open")
      <4>0. t.intent_created <=> progress'[c] >= Requirement[c]
        BY <2>2, <2>4, <3>1, Zenon DEF meets
      <4>1. CASE t.intent_created
        BY <1>1, <2>1, <4>0, <4>1 DEF RecordTransition, IInv, TypeOK, Stage
      <4>2. CASE ~t.intent_created
        BY <1>1, <2>1, <4>0, <4>2 DEF RecordTransition, Stage
      <4>3. QED
        BY <4>1, <4>2
    <3>6. Gate!Credit(c)
      BY <1>1, <2>1, <3>1, <3>2, <3>3, <3>4, <3>5 DEF Gate!Credit
    <3>7. QED
      BY <3>6
  <2>8. QED
    BY <2>6, <2>7
<1>5. QED
  BY <1>1, <1>2, <1>3, <1>4 DEF Delivery

\* A sweep lets overdue challenges lapse; a claim is invisible.
LEMMA SweepRefines ==
  ASSUME IInv, NEW w \in Workers, NEW now \in Readings, NEW claimed \in SUBSET Challenges,
         \A c \in claimed : Claimable(c, now), SweepAndMark(claimed, w, now)
  PROVE  \E S \in SUBSET Challenges : Gate!Lapse(S)
<1> DEFINE late == Overdue(now)
<1>1. late \in SUBSET Challenges /\ (\A c \in late : intent[c] \in {"pending", "signing"})
  BY DEF Overdue
<1>2. \A c \in claimed : intent[c] \in {"pending", "signing"} /\ c \notin late
  BY DEF Claimable, Overdue, IInv, TypeOK, Readings
<1>3. /\ chState' = [c \in Challenges |-> IF c \in late THEN "expired" ELSE chState[c]]
      /\ intent' = [c \in Challenges |-> IF c \in claimed THEN "signing"
                                         ELSE IF c \in late THEN "failed" ELSE intent[c]]
      /\ UNCHANGED <<progress, pass>>
  BY DEF SweepAndMark, FailOverdue
<1> HIDE DEF late
<1>4. \A c \in late : Stage(c) = "earned"
  BY <1>1 DEF Stage
<1>5. \A c \in Challenges : Stage(c)' = IF c \in late THEN "lapsed" ELSE Stage(c)
  BY <1>1, <1>2, <1>3 DEF Stage
<1>6. Gate!Lapse(late)
  BY <1>1, <1>3, <1>4, <1>5 DEF Gate!Lapse
<1>7. QED
  BY <1>1, <1>6

\* A commit grants the pass of an earned challenge.
LEMMA CommitRefines ==
  ASSUME IInv, NEW w \in Workers, CommitIssuance(w)
  PROVE  \E c \in Challenges : Gate!Grant(c)
<1> DEFINE new == [by |-> w, issued_at |-> wkAt[w], expires_at |-> wkAt[w] + PassTTL]
<1>0. wkCh[w] \in Challenges /\ intent[wkCh[w]] = "signing" /\ wkAt[w] \in Nat
  BY DEF CommitIssuance, IInv, TypeOK, WorkerShape, OneCompletion
<1>1. PICK c \in Challenges : c = wkCh[w] /\ intent[c] = "signing"
  BY <1>0
<1>2. /\ intent' = [intent EXCEPT ![c] = "issued"]
      /\ chState' = [chState EXCEPT ![c] = "pass_issued"]
      /\ pass' = [pass EXCEPT ![c] = new] /\ UNCHANGED progress
  BY <1>1 DEF CommitIssuance, MarkChallengeIssued
<1>3. new \in Pass
  BY <1>0, ConstantsAssumption DEF Pass
<1> HIDE DEF new
<1>4. Stage(c) = "earned" /\ Stage(c)' = "granted"
  BY <1>1, <1>2 DEF Stage, IInv, TypeOK
<1>5. \A d \in Challenges : d # c => Stage(d)' = Stage(d)
  BY <1>2 DEF Stage, IInv, TypeOK
<1>6. pass'[c] = new /\ pass' = [pass EXCEPT ![c] = pass'[c]]
  BY <1>1, <1>2 DEF IInv, TypeOK
<1>7. Gate!Grant(c)
  BY <1>1, <1>2, <1>3, <1>4, <1>5, <1>6 DEF Gate!Grant
<1>8. QED
  BY <1>1, <1>7

\* Every step of the Authority is a step of the gate, or invisible to it.
LEMMA NextRefines ==
  ASSUME IInv, [Next]_vars
  PROVE  [Gate!GateNext]_(Gate!gateVars)
<1> USE DEF Gate!GateNext
<1>1. CASE UNCHANGED vars \/ Tick
  <2>1. UNCHANGED <<chState, progress, pass, intent>>
    BY <1>1 DEF vars, Tick, challengeVars, issuanceVars
  <2>2. QED
    BY <2>1, QuietStep
<1>2. ASSUME NEW now \in Readings, NEW c \in Challenges, ChallengeRequest(c, now)
      PROVE  [Gate!GateNext]_(Gate!gateVars)
  BY <1>2, ChallengeRequestRefines
<1>3. ASSUME NEW s \in Sessions,
             (\E now \in Readings : SessionRequest(s, now)) \/ SessionReport(s)
      PROVE  [Gate!GateNext]_(Gate!gateVars)
  BY <1>3, SessionStepRefines
<1>4. ASSUME NEW now \in Readings, NEW e \in Events, NEW s \in Sessions, Delivery(e, s, now)
      PROVE  [Gate!GateNext]_(Gate!gateVars)
  BY <1>4, DeliveryRefines
<1>5. ASSUME NEW w \in Workers, NEW now \in Readings, PollIssuance(w, now)
      PROVE  [Gate!GateNext]_(Gate!gateVars)
  BY <1>5, SweepRefines DEF PollIssuance
<1>6. ASSUME NEW w \in Workers, NEW c \in Challenges, NEW now \in Readings,
             ClaimIssuance(w, c, now)
      PROVE  [Gate!GateNext]_(Gate!gateVars)
  <2>1. {c} \in SUBSET Challenges /\ \A d \in {c} : Claimable(d, now)
    BY <1>6 DEF ClaimIssuance
  <2>2. QED
    BY <1>6, <2>1, SweepRefines DEF ClaimIssuance
<1>7. ASSUME NEW w \in Workers, SignPass(w) \/ SigningUnavailable(w) \/ WriteIssuance(w) \/ CrashWorker(w)
      PROVE  [Gate!GateNext]_(Gate!gateVars)
  <2>1. UNCHANGED <<chState, progress, pass, intent>>
    BY <1>7 DEF SignPass, SigningUnavailable, WriteIssuance, CrashWorker, challengeVars, issuanceVars
  <2>2. QED
    BY <2>1, QuietStep
<1>8. ASSUME NEW w \in Workers, CommitIssuance(w)
      PROVE  [Gate!GateNext]_(Gate!gateVars)
  BY <1>8, CommitRefines
<1>9. QED
  BY <1>1, <1>2, <1>3, <1>4, <1>5, <1>6, <1>7, <1>8 DEF Next, WorkerStep

\* The Gate Authority implements the abstract gate: no interleaving of requests,
\* deliveries, expiry, takeover and crashes grants a pass that was not earned, grants
\* two for one challenge, or grants one after the challenge closed unearned.
THEOREM Refinement == Spec => ImplementsGate
<1>1. QED
  BY InitRefines, NextRefines, Invariance, PTL DEF Spec, ImplementsGate, Gate!GateSpec
=============================================================================
