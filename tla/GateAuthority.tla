--------------------------- MODULE GateAuthority ---------------------------
(***************************************************************************)
(* The Gate Authority's durable state and the transactions that change it: *)
(* Work Challenges, Work Sessions and their leases, accepted-work          *)
(* accounting, and Gate Pass issuance by competing workers.                *)
(*                                                                         *)
(* A transaction that holds the challenge row lock from its first read is  *)
(* one action.  complete_issuance does not: it updates the intent row      *)
(* first and the challenge row later, so it is two actions, WriteIssuance  *)
(* and CommitIssuance, and every other transaction may run between them.   *)
(*                                                                         *)
(* A handler reads the wall clock before its transaction runs.  The        *)
(* parameter now of an action is that reading; it may lag the database     *)
(* clock by at most MaxLag.                                                *)
(***************************************************************************)
EXTENDS Lifecycle, FiniteSetsExt

CONSTANTS
  Challenges,    \* challenge identifiers
  Sessions,      \* Work Session identifiers
  Events,        \* Accepted Work Event identifiers, chosen by the Pool Adapter
  Shares,        \* share fingerprints
  Works,         \* credited work of the assignable targets
  Boots,         \* Worker boot-continuity identifiers
  Pauses, Interruptions,  \* the pause and interruption reasons the instance uses
  Workers,       \* issuance worker identifiers; a restarted process is a new one
  Crashable,     \* the workers that may stop for good
  Requirement,   \* Work Requirement of each challenge
  WorkCeiling,   \* the largest representable progress (256 bits in the code)
  ChallengeTTL, LeaseLength, SigningLease, PassTTL,
  MaxLag,        \* how far a handler's clock reading may lag
  PoolSkew,      \* how far the Pool Adapter's clock may run ahead
  MaxClock, MaxInsert, MaxReading, MaxLeases,   \* bounds of the instance
  None

ASSUME ConstantsAssumption ==
  /\ Requirement \in [Challenges -> Nat \ {0}]
  /\ Works \subseteq Nat \ {0}
  /\ Crashable \subseteq Workers
  /\ Pauses \subseteq PauseReasons
  /\ Interruptions \subseteq WorkerInterruptions
  /\ {ChallengeTTL, LeaseLength, SigningLease, PassTTL} \subseteq Nat \ {0}
  /\ {WorkCeiling, MaxLag, PoolSkew, MaxClock, MaxInsert, MaxReading, MaxLeases} \subseteq Nat
  /\ None \notin Challenges \cup Sessions \cup Workers \cup Nat \cup StopReasons
  /\ \A c \in Challenges : Requirement[c] <= WorkCeiling

VARIABLES
  clock,         \* the database clock
  chState, deadline, terminalAt, progress, selection,            \* work_challenges
  sesState, sesChallenge, sesReason, sesLease, leaseCount,       \* work_sessions
  replaces, generation,
  shareOwner,    \* share_fingerprints: the challenge that a share was counted for
  ack,           \* accepted_work_events: the stored acknowledgement
  intent, signer, signLease, pass, outbox,  \* gate_pass_issuance_intents, authority_outbox
  wkPc, wkCh, wkAt   \* each issuance worker: step, claimed challenge, signing time

challengeVars == <<chState, deadline, terminalAt, progress, selection>>
sessionVars   == <<sesState, sesChallenge, sesReason, sesLease, leaseCount,
                   replaces, generation>>
accountVars   == <<shareOwner, ack>>
issuanceVars  == <<intent, signer, signLease, pass, outbox>>
workerVars    == <<wkPc, wkCh, wkAt>>
vars == <<clock, challengeVars, sessionVars, accountVars, issuanceVars, workerVars>>

Absent == "absent"

Lease == [id : Nat, boot : Boots, start : Nat, last : Nat, until : Nat]

Acknowledgement ==
  [session : Sessions, share : Shares, work : Works, challenge : Challenges,
   disposition : {"credited", "duplicate_share"}, credited : Nat,
   progress : Nat, intent_created : BOOLEAN]

Pass == [by : Workers, issued_at : Nat, expires_at : Nat]

\* NULL is not a row.
ASSUME NoneAssumption == None \notin Lease \cup Acknowledgement \cup Pass

Init ==
  /\ clock = 0
  /\ chState    = [c \in Challenges |-> Absent]
  /\ deadline   = [c \in Challenges |-> 0]
  /\ terminalAt = [c \in Challenges |-> None]
  /\ progress   = [c \in Challenges |-> 0]
  /\ selection  = [c \in Challenges |-> "none"]
  /\ sesState     = [s \in Sessions |-> Absent]
  /\ sesChallenge = [s \in Sessions |-> None]
  /\ sesReason    = [s \in Sessions |-> None]
  /\ sesLease     = [s \in Sessions |-> None]
  /\ leaseCount   = [s \in Sessions |-> 0]
  /\ replaces     = [s \in Sessions |-> None]
  /\ generation   = [s \in Sessions |-> 0]
  /\ shareOwner = [f \in Shares |-> None]
  /\ ack        = [e \in Events |-> None]
  /\ intent    = [c \in Challenges |-> "none"]
  /\ signer    = [c \in Challenges |-> None]
  /\ signLease = [c \in Challenges |-> None]
  /\ pass      = [c \in Challenges |-> None]
  /\ outbox    = [c \in Challenges |-> "none"]
  /\ wkPc = [w \in Workers |-> "idle"]
  /\ wkCh = [w \in Workers |-> None]
  /\ wkAt = [w \in Workers |-> 0]

\* The clock readings a handler may be using now.
Readings == {t \in 0..clock : t + MaxLag >= clock}

Tick ==
  /\ clock < MaxClock
  /\ clock' = clock + 1
  /\ UNCHANGED <<challengeVars, sessionVars, accountVars, issuanceVars, workerVars>>

-----------------------------------------------------------------------------
\* Challenges and Pool Selection.

\* A new challenge's retention clock starts at its deadline.
InsertChallenge(c, now) ==
  /\ chState[c] = Absent
  /\ clock <= MaxInsert
  /\ chState'    = [chState EXCEPT ![c] = "issued"]
  /\ deadline'   = [deadline EXCEPT ![c] = now + ChallengeTTL]
  /\ terminalAt' = [terminalAt EXCEPT ![c] = now + ChallengeTTL]
  /\ UNCHANGED <<clock, progress, selection, sessionVars, accountVars, issuanceVars, workerVars>>

\* lock_selectable_challenge
Selectable(c, command, now) ==
  /\ apply_challenge_command(chState[c], command) # Forbidden
  /\ now < deadline[c]

\* An upsert that never overwrites a consented selection.
ProposePoolSelection(c, now) ==
  /\ Selectable(c, "SelectPoolOffer", now)
  /\ selection[c] # "consented"
  /\ selection' = [selection EXCEPT ![c] = "proposed"]
  /\ UNCHANGED <<clock, chState, deadline, terminalAt, progress,
                 sessionVars, accountVars, issuanceVars, workerVars>>

ConfirmPoolSelection(c, now) ==
  /\ Selectable(c, "ConfirmPoolSelection", now)
  /\ selection[c] = "proposed"
  /\ selection' = [selection EXCEPT ![c] = "consented"]
  /\ UNCHANGED <<clock, chState, deadline, terminalAt, progress,
                 sessionVars, accountVars, issuanceVars, workerVars>>

-----------------------------------------------------------------------------
\* Stopping sessions and expiring challenges.

\* The sessions in S stop for reason and lose their leases.
StopSessions(S, reason) ==
  /\ sesState'  = [s \in Sessions |-> IF s \in S THEN "stopping" ELSE sesState[s]]
  /\ sesReason' = [s \in Sessions |-> IF s \in S THEN reason ELSE sesReason[s]]
  /\ sesLease'  = [s \in Sessions |-> IF s \in S THEN None ELSE sesLease[s]]
  /\ UNCHANGED <<sesChallenge, leaseCount, replaces, generation>>

SessionsOf(c, states) ==
  {s \in Sessions : sesChallenge[s] = c /\ sesState[s] \in states}

\* The instant at which the challenge, or the pass it produced, runs out.
LifecycleDeadline(c) ==
  IF chState[c] = "pass_issued" THEN pass[c].expires_at ELSE deadline[c]

Lapses(c, now) ==
  /\ chState[c] # Absent
  /\ now >= LifecycleDeadline(c)
  /\ chState[c] # "expired"
  /\ apply_challenge_command(chState[c], "Expire") = "expired"

\* Fault: the expired challenge's sessions go on.
TerminalizeOnlyChallenge(c, now) ==
  /\ Lapses(c, now)
  /\ chState' = [chState EXCEPT ![c] = "expired"]
  /\ UNCHANGED <<clock, deadline, terminalAt, progress, selection, sessionVars, accountVars,
                 issuanceVars, workerVars>>

\* terminalize_expired: the first statement of challenge_lifecycle, pause, cancel,
\* start and renew.  When it changes the row, each of those commits it and refuses.
TerminalizeExpired(c, now) ==
  /\ Lapses(c, now)
  /\ chState' = [chState EXCEPT ![c] = "expired"]
  /\ terminalAt' = [terminalAt EXCEPT
       ![c] = IF terminalAt[c] = None THEN LifecycleDeadline(c) ELSE terminalAt[c]]
  /\ StopSessions(SessionsOf(c, {"ready", "leased"}), "challenge_expired")
  /\ UNCHANGED <<clock, deadline, progress, selection, accountVars, issuanceVars, workerVars>>

PauseChallenge(c, reason, now) ==
  /\ ~Lapses(c, now)
  /\ apply_challenge_command(chState[c], "Pause") # Forbidden
  /\ StopSessions(SessionsOf(c, {"leased"}), reason)
  /\ UNCHANGED <<clock, challengeVars, accountVars, issuanceVars, workerVars>>

\* Fault: cancellation ignores the challenge matrix.
CancelAnyChallenge(c, now) ==
  /\ ~Lapses(c, now)
  /\ chState[c] \notin {Absent, "cancelled"}
  /\ chState'    = [chState EXCEPT ![c] = "cancelled"]
  /\ terminalAt' = [terminalAt EXCEPT ![c] = now]
  /\ StopSessions(SessionsOf(c, {"ready", "leased"}), "challenge_cancelled")
  /\ UNCHANGED <<clock, deadline, progress, selection, accountVars, issuanceVars, workerVars>>

CancelChallenge(c, now) ==
  /\ ~Lapses(c, now)
  /\ apply_challenge_command(chState[c], "Cancel") = "cancelled"
  /\ chState[c] # "cancelled"
  /\ chState'    = [chState EXCEPT ![c] = "cancelled"]
  /\ terminalAt' = [terminalAt EXCEPT ![c] = now]
  /\ StopSessions(SessionsOf(c, {"ready", "leased"}), "challenge_cancelled")
  /\ UNCHANGED <<clock, deadline, progress, selection, accountVars, issuanceVars, workerVars>>

-----------------------------------------------------------------------------
\* Work Sessions and their leases.

RegisterSession(s, c, predecessor, gen) ==
  /\ sesState'     = [sesState EXCEPT ![s] = "ready"]
  /\ sesChallenge' = [sesChallenge EXCEPT ![s] = c]
  /\ replaces'     = [replaces EXCEPT ![s] = predecessor]
  /\ generation'   = [generation EXCEPT ![s] = gen]
  /\ UNCHANGED <<sesReason, sesLease, leaseCount>>

InsertWorkSession(s, c, now) ==
  /\ sesState[s] = Absent
  /\ apply_challenge_command(chState[c], "RegisterSession") # Forbidden
  /\ now < deadline[c]
  /\ selection[c] = "consented"
  /\ RegisterSession(s, c, None, 0)
  /\ UNCHANGED <<clock, challengeVars, accountVars, issuanceVars, workerVars>>

\* Fault: the next generation is counted from any session.
AnyGeneration(top, c) == top \in SessionsOf(c, SessionStates)

\* The session with the highest replacement generation of its challenge.
HighestGeneration(top, c) ==
  /\ top \in SessionsOf(c, SessionStates)
  /\ \A s \in SessionsOf(c, SessionStates) : generation[s] <= generation[top]

ReplaceWorkSession(old, s, now) ==
  LET c == sesChallenge[old] IN
  /\ sesState[s] = Absent
  /\ \A other \in Sessions : replaces[other] # old
  /\ sesState[old] \in {"stopping", "failed"}
  /\ allows_replacement(sesReason[old])
  /\ apply_challenge_command(chState[c], "RegisterSession") # Forbidden
  /\ now < deadline[c]
  /\ \E top \in Sessions :
       HighestGeneration(top, c) /\ RegisterSession(s, c, old, generation[top] + 1)
  /\ UNCHANGED <<clock, challengeVars, accountVars, issuanceVars, workerVars>>

\* A fresh lease under a fresh identifier; the first one makes the challenge active.
StartWorkLease(s, boot, reading, now) ==
  LET c == sesChallenge[s] IN
  /\ sesState[s] # Absent
  /\ leaseCount[s] < MaxLeases
  /\ ~Lapses(c, now)
  /\ selection[c] = "consented"
  /\ apply_challenge_command(chState[c], "StartWork") = "active"
  /\ apply_session_command(sesState[s], "StartLease") = "leased"
  /\ chState'    = [chState EXCEPT ![c] = "active"]
  /\ sesState'   = [sesState EXCEPT ![s] = "leased"]
  /\ sesReason'  = [sesReason EXCEPT ![s] = None]
  /\ leaseCount' = [leaseCount EXCEPT ![s] = leaseCount[s] + 1]
  /\ sesLease'   = [sesLease EXCEPT
       ![s] = [id |-> leaseCount[s] + 1, boot |-> boot, start |-> reading,
               last |-> reading, until |-> reading + LeaseLength]]
  /\ UNCHANGED <<clock, deadline, terminalAt, progress, selection, sesChallenge,
                 replaces, generation, accountVars, issuanceVars, workerVars>>

\* Renewal is judged against the last reading the lease was renewed at.
RenewWorkLease(s, id, boot, reading, now) ==
  /\ sesState[s] # Absent
  /\ ~Lapses(sesChallenge[s], now)
  /\ apply_session_command(sesState[s], "ObserveLease") # Forbidden
  /\ LET seen == observe_work_lease(sesLease[s], sesLease[s].last, id, boot, reading) IN
     \/ /\ seen = "accepted"
        /\ sesLease' = [sesLease EXCEPT
             ![s] = [@ EXCEPT !.last = reading, !.until = reading + LeaseLength]]
        /\ UNCHANGED <<sesState, sesReason, sesChallenge, leaseCount, replaces, generation>>
     \/ /\ seen \in StopReasons
        /\ StopSessions({s}, seen)
  /\ UNCHANGED <<clock, challengeVars, accountVars, issuanceVars, workerVars>>

\* interrupt_work_session takes only the session row lock.
InterruptWorkSession(s, interruption) ==
  /\ apply_session_command(sesState[s], "Stop") = "stopping"
  /\ sesState[s] # "stopping"
  /\ StopSessions({s}, interruption)
  /\ UNCHANGED <<clock, challengeVars, accountVars, issuanceVars, workerVars>>

ConfirmWorkSessionRestored(s) ==
  /\ apply_session_command(sesState[s], "ConfirmRestored") = "restored"
  /\ sesState' = [sesState EXCEPT ![s] = "restored"]
  /\ UNCHANGED <<clock, challengeVars, sesChallenge, sesReason, sesLease, leaseCount,
                 replaces, generation, accountVars, issuanceVars, workerVars>>

FailWorkSession(s) ==
  /\ sesState[s] \notin {Absent, "failed"}
  /\ sesState'  = [sesState EXCEPT ![s] = apply_session_command(sesState[s], "Fail")]
  /\ sesReason' = [sesReason EXCEPT ![s] = "session_failed"]
  /\ sesLease'  = [sesLease EXCEPT ![s] = None]
  /\ UNCHANGED <<clock, challengeVars, sesChallenge, leaseCount, replaces, generation,
                 accountVars, issuanceVars, workerVars>>

-----------------------------------------------------------------------------
\* Accepted work.  An event identifier that is already stored is answered from
\* the stored row and changes nothing, so each action here needs a new one.

\* Fault: a stored event identifier is accepted again.
DeliverableAgain(e, s) ==
  /\ sesState[s] # Absent
  /\ apply_challenge_command(chState[sesChallenge[s]], "AcceptWork") # Forbidden

\* The event names a session of an active challenge.
Deliverable(e, s) ==
  /\ ack[e] = None
  /\ sesState[s] # Absent
  /\ apply_challenge_command(chState[sesChallenge[s]], "AcceptWork") # Forbidden

\* The later of the Pool Adapter's receipt and the Authority's own clock decides.
BeforeExpiry(c, received, now) ==
  received < deadline[c] /\ now < deadline[c]

\* Late work expires the challenge at its deadline and is refused.
AcceptWorkLate(e, s, received, now) ==
  LET c == sesChallenge[s] IN
  /\ Deliverable(e, s)
  /\ ~BeforeExpiry(c, received, now)
  /\ chState'    = [chState EXCEPT ![c] = "expired"]
  /\ terminalAt' = [terminalAt EXCEPT ![c] = deadline[c]]
  /\ StopSessions(SessionsOf(c, {"ready", "leased"}), "challenge_expired")
  /\ UNCHANGED <<clock, deadline, progress, selection, accountVars, issuanceVars, workerVars>>

\* Work is judged against the lease's start, so late delivery after a renewal counts.
ObserveSessionLease(s, id, boot, reading) ==
  observe_work_lease(sesLease[s], sesLease[s].start, id, boot, reading)

\* A reading that ends the lease stops the session and the event is refused.
AcceptWorkStops(e, s, id, boot, reading, received, now) ==
  /\ Deliverable(e, s)
  /\ BeforeExpiry(sesChallenge[s], received, now)
  /\ apply_session_command(sesState[s], "ObserveLease") # Forbidden
  /\ ObserveSessionLease(s, id, boot, reading) \in StopReasons
  /\ StopSessions({s}, ObserveSessionLease(s, id, boot, reading))
  /\ UNCHANGED <<clock, challengeVars, accountVars, issuanceVars, workerVars>>

\* Fault: the satisfied challenge keeps the retention clock of its deadline.
RecordKeepingClock(c, transition) ==
  /\ progress' = [progress EXCEPT ![c] = transition.progress]
  /\ UNCHANGED terminalAt
  /\ IF transition.intent_created
     THEN /\ chState' = [chState EXCEPT ![c] = "satisfied"]
          /\ intent' = [intent EXCEPT ![c] = "pending"]
          /\ outbox' = [outbox EXCEPT ![c] = "pending"]
          /\ StopSessions(SessionsOf(c, {"ready", "leased"}), "challenge_satisfied")
     ELSE UNCHANGED <<chState, intent, outbox, sessionVars>>

\* The threshold crossing stores one pending intent with its outbox row and stops
\* the challenge's sessions; otherwise only progress moves.
RecordTransition(c, transition) ==
  /\ progress' = [progress EXCEPT ![c] = transition.progress]
  /\ IF transition.intent_created
     THEN /\ chState'    = [chState EXCEPT ![c] = "satisfied"]
          /\ terminalAt' = [terminalAt EXCEPT ![c] = None]
          /\ intent' = [intent EXCEPT ![c] = "pending"]
          /\ outbox' = [outbox EXCEPT ![c] = "pending"]
          /\ StopSessions(SessionsOf(c, {"ready", "leased"}), "challenge_satisfied")
     ELSE UNCHANGED <<chState, terminalAt, intent, outbox, sessionVars>>

\* Fault: the sum is stored whatever its width.
AnyTotal(total) == total \in Nat

\* checked_add: a sum beyond the 256-bit range is refused.
Representable(total) == total <= WorkCeiling

AcceptWork(e, s, f, work, id, boot, reading, received, now) ==
  LET c == sesChallenge[s]
      inserted == shareOwner[f] = None
      transition == accepted_work_transition(progress[c], Requirement[c], work, inserted)
  IN
  /\ Deliverable(e, s)
  /\ BeforeExpiry(c, received, now)
  /\ apply_session_command(sesState[s], "ObserveLease") # Forbidden
  /\ ObserveSessionLease(s, id, boot, reading) = "accepted"
  /\ Representable(transition.progress)
  /\ shareOwner' = [shareOwner EXCEPT ![f] = IF inserted THEN c ELSE shareOwner[f]]
  /\ RecordTransition(c, transition)
  /\ ack' = [ack EXCEPT ![e] =
       [session |-> s, share |-> f, work |-> work, challenge |-> c,
        disposition |-> transition.disposition, credited |-> transition.credited,
        progress |-> transition.progress, intent_created |-> transition.intent_created]]
  /\ UNCHANGED <<clock, deadline, selection, signer, signLease, pass, workerVars>>

-----------------------------------------------------------------------------
\* Gate Pass issuance.

\* The worker, if any, whose open transaction holds the intent row.
IntentLocked(c) == \E w \in Workers : wkPc[w] = "completing" /\ wkCh[w] = c

\* Fault: an overdue intent that a worker had claimed is left alone.
OverduePending(now) ==
  {c \in Challenges : intent[c] = "pending" /\ deadline[c] <= now}

\* fail_expired_issuance applies to these intents at now.
Overdue(now) ==
  {c \in Challenges : intent[c] \in {"pending", "signing"} /\ deadline[c] <= now}

\* Fault: the claim takes every intent that was not issued.
ClaimableUnissued(c, now) ==
  /\ deadline[c] > now
  /\ ~IntentLocked(c)
  /\ \/ intent[c] \in {"pending", "failed"}
     \/ intent[c] = "signing" /\ signLease[c] <= now

\* claim_issuance: pending, or abandoned by a worker whose lease has run out.
Claimable(c, now) ==
  /\ deadline[c] > now
  /\ ~IntentLocked(c)
  /\ \/ intent[c] = "pending"
     \/ intent[c] = "signing" /\ signLease[c] <= now

\* Fault: the intent fails and its challenge stays as it was.
FailOverdueOnlyIntent(now) ==
  /\ \A c \in Overdue(now) : ~IntentLocked(c)
  /\ UNCHANGED <<chState, terminalAt>>

\* The statement that fails overdue intents waits for a locked one.
FailOverdue(now) ==
  /\ \A c \in Overdue(now) : ~IntentLocked(c)
  /\ chState'    = [c \in Challenges |-> IF c \in Overdue(now) THEN "expired" ELSE chState[c]]
  /\ terminalAt' = [c \in Challenges |->
                      IF c \in Overdue(now) THEN deadline[c] ELSE terminalAt[c]]

\* What an overdue sweep followed by a claim of the intents in claimed (none or
\* one) by worker w leaves in the issuance rows.
SweepAndMark(claimed, w, now) ==
  /\ FailOverdue(now)
  /\ intent' = [c \in Challenges |-> IF c \in claimed THEN "signing"
                                     ELSE IF c \in Overdue(now) THEN "failed" ELSE intent[c]]
  /\ outbox' = [c \in Challenges |-> IF c \in claimed THEN "processing"
                                     ELSE IF c \in Overdue(now) THEN "failed" ELSE outbox[c]]
  /\ signer' = [c \in Challenges |-> IF c \in claimed THEN w
                                     ELSE IF c \in Overdue(now) THEN None ELSE signer[c]]
  /\ signLease' = [c \in Challenges |->
                      IF c \in claimed THEN now + SigningLease
                      ELSE IF c \in Overdue(now) THEN None ELSE signLease[c]]
  /\ UNCHANGED <<clock, deadline, progress, selection, sessionVars, accountVars, pass>>

\* maybe_claim_issuance with nothing to claim.
PollIssuance(w, now) ==
  /\ wkPc[w] = "idle"
  /\ \A c \in Challenges : ~Claimable(c, now)
  /\ SweepAndMark({}, w, now)
  /\ UNCHANGED workerVars

\* maybe_claim_issuance takes the claimable intent with the earliest deadline.
ClaimIssuance(w, c, now) ==
  /\ wkPc[w] = "idle"
  /\ Claimable(c, now)
  /\ \A other \in Challenges : Claimable(other, now) => deadline[c] <= deadline[other]
  /\ SweepAndMark({c}, w, now)
  /\ wkPc' = [wkPc EXCEPT ![w] = "claimed"]
  /\ wkCh' = [wkCh EXCEPT ![w] = c]
  /\ UNCHANGED wkAt

\* process_next_issuance reads the clock again and signs the stored claims.
SignPass(w) ==
  /\ wkPc[w] = "claimed"
  /\ wkPc' = [wkPc EXCEPT ![w] = "signed"]
  /\ wkAt' = [wkAt EXCEPT ![w] = clock]
  /\ UNCHANGED <<clock, challengeVars, sessionVars, accountVars, issuanceVars, wkCh>>

\* Without a signer the iteration ends and the claim runs into its lease.
SigningUnavailable(w) ==
  /\ wkPc[w] = "claimed"
  /\ wkPc' = [wkPc EXCEPT ![w] = "idle"]
  /\ UNCHANGED <<clock, challengeVars, sessionVars, accountVars, issuanceVars, wkCh, wkAt>>

\* Fault: the completion trusts its claim and checks only the deadline.
WithinDeadline(w) == deadline[wkCh[w]] > clock

\* Fault: the completion checks its lease and not the challenge deadline.
HoldsLeaseOnly(w) ==
  LET c == wkCh[w] IN
  intent[c] = "signing" /\ signer[c] = w /\ signLease[c] > clock

\* The guard of complete_issuance.sql, on the database clock.
HoldsSigningLease(w) ==
  LET c == wkCh[w] IN
  /\ intent[c] = "signing"
  /\ signer[c] = w
  /\ signLease[c] > clock
  /\ deadline[c] > clock

\* The first statement of complete_issuance: the intent row is written and locked,
\* or the worker has lost its lease and gives the pass up.
WriteIssuance(w) ==
  /\ wkPc[w] = "signed"
  /\ wkPc' = [wkPc EXCEPT ![w] = IF HoldsSigningLease(w) THEN "completing" ELSE "idle"]
  /\ UNCHANGED <<clock, challengeVars, sessionVars, accountVars, issuanceVars, wkCh, wkAt>>

\* mark_challenge_issued, without a condition on the challenge's state.
MarkChallengeIssued(c, issued_at) ==
  /\ chState'    = [chState EXCEPT ![c] = "pass_issued"]
  /\ terminalAt' = [terminalAt EXCEPT ![c] = issued_at]

\* The rest of complete_issuance and its commit.
CommitIssuance(w) ==
  LET c == wkCh[w] IN
  /\ wkPc[w] = "completing"
  /\ intent'    = [intent EXCEPT ![c] = "issued"]
  /\ signer'    = [signer EXCEPT ![c] = None]
  /\ signLease' = [signLease EXCEPT ![c] = None]
  /\ pass' = [pass EXCEPT ![c] = [by |-> w, issued_at |-> wkAt[w],
                                  expires_at |-> wkAt[w] + PassTTL]]
  /\ MarkChallengeIssued(c, wkAt[w])
  /\ outbox' = [outbox EXCEPT ![c] = "completed"]
  /\ wkPc' = [wkPc EXCEPT ![w] = "idle"]
  /\ UNCHANGED <<clock, deadline, progress, selection, sessionVars, accountVars, wkCh, wkAt>>

\* The process stops; an open transaction rolls back.
CrashWorker(w) ==
  /\ w \in Crashable
  /\ wkPc[w] # "dead"
  /\ wkPc' = [wkPc EXCEPT ![w] = "dead"]
  /\ UNCHANGED <<clock, challengeVars, sessionVars, accountVars, issuanceVars, wkCh, wkAt>>

-----------------------------------------------------------------------------
WorkerStep(w) ==
  \/ \E now \in Readings : PollIssuance(w, now) \/ \E c \in Challenges : ClaimIssuance(w, c, now)
  \/ SignPass(w) \/ SigningUnavailable(w) \/ WriteIssuance(w) \/ CommitIssuance(w)

ChallengeRequest(c, now) ==
  \/ InsertChallenge(c, now) \/ ProposePoolSelection(c, now) \/ ConfirmPoolSelection(c, now)
  \/ TerminalizeExpired(c, now) \/ CancelChallenge(c, now)
  \/ \E reason \in Pauses : PauseChallenge(c, reason, now)
  \/ \E s \in Sessions : InsertWorkSession(s, c, now)

SessionRequest(s, now) ==
  \/ \E old \in Sessions : ReplaceWorkSession(old, s, now)
  \/ \E boot \in Boots, reading \in 0..MaxReading :
       \/ StartWorkLease(s, boot, reading, now)
       \/ \E id \in 1..leaseCount[s] : RenewWorkLease(s, id, boot, reading, now)

SessionReport(s) ==
  \/ \E interruption \in Interruptions : InterruptWorkSession(s, interruption)
  \/ ConfirmWorkSessionRestored(s) \/ FailWorkSession(s)

Delivery(e, s, now) ==
  \E received \in 0..(clock + PoolSkew) :
    \/ AcceptWorkLate(e, s, received, now)
    \/ \E id \in 1..leaseCount[s], boot \in Boots, reading \in 0..MaxReading :
         \/ AcceptWorkStops(e, s, id, boot, reading, received, now)
         \/ \E f \in Shares, work \in Works :
              AcceptWork(e, s, f, work, id, boot, reading, received, now)

Next ==
  \/ Tick
  \/ \E now \in Readings :
       \/ \E c \in Challenges : ChallengeRequest(c, now)
       \/ \E s \in Sessions : SessionRequest(s, now)
       \/ \E e \in Events, s \in Sessions : Delivery(e, s, now)
  \/ \E s \in Sessions : SessionReport(s)
  \/ \E w \in Workers : WorkerStep(w) \/ CrashWorker(w)

Spec == Init /\ [][Next]_vars

\* An open completion ends: its statements run, or the connection is lost and the
\* database rolls it back.
EndCompletion(w) ==
  wkPc[w] = "completing" /\ (CommitIssuance(w) \/ CrashWorker(w))

\* Time passes, the issuance workers outside Crashable poll forever, and no
\* transaction stays open.
FairSpec ==
  /\ Spec
  /\ WF_vars(Tick)
  /\ \A w \in Workers : WF_vars(EndCompletion(w))
  /\ \A w \in Workers \ Crashable : WF_vars(WorkerStep(w))

-----------------------------------------------------------------------------
\* Properties.

\* Every row has its shape, and progress never leaves the 256-bit range: an addition
\* that would overflow is refused.
TypeOK ==
  /\ clock \in 0..MaxClock
  /\ chState \in [Challenges -> ChallengeStates \cup {Absent}]
  /\ deadline \in [Challenges -> Nat]
  /\ terminalAt \in [Challenges -> Nat \cup {None}]
  /\ progress \in [Challenges -> 0..WorkCeiling]
  /\ selection \in [Challenges -> {"none", "proposed", "consented"}]
  /\ sesState \in [Sessions -> SessionStates \cup {Absent}]
  /\ sesChallenge \in [Sessions -> Challenges \cup {None}]
  /\ sesReason \in [Sessions -> StopReasons \cup {None}]
  /\ sesLease \in [Sessions -> Lease \cup {None}]
  /\ leaseCount \in [Sessions -> 0..MaxLeases]
  /\ replaces \in [Sessions -> Sessions \cup {None}]
  /\ generation \in [Sessions -> Nat]
  /\ shareOwner \in [Shares -> Challenges \cup {None}]
  /\ ack \in [Events -> Acknowledgement \cup {None}]
  /\ intent \in [Challenges -> {"none", "pending", "signing", "issued", "failed"}]
  /\ signer \in [Challenges -> Workers \cup {None}]
  /\ signLease \in [Challenges -> Nat \cup {None}]
  /\ pass \in [Challenges -> Pass \cup {None}]
  /\ outbox \in [Challenges -> {"none", "pending", "processing", "completed", "failed"}]
  /\ wkPc \in [Workers -> {"idle", "claimed", "signed", "completing", "dead"}]
  /\ wkCh \in [Workers -> Challenges \cup {None}]
  /\ wkAt \in [Workers -> Nat]

\* The CHECK constraints of work_sessions hold after every transaction: a lease is
\* stored exactly while the session is leased, a stop reason exactly while it is
\* stopping, restored or failed, and the session names its challenge.
SessionRowShape ==
  \A s \in Sessions :
    /\ sesLease[s] # None <=> sesState[s] = "leased"
    /\ sesReason[s] # None <=> sesState[s] \in {"stopping", "restored", "failed"}
    /\ sesChallenge[s] = None <=> sesState[s] = Absent

\* No Worker may mine for a challenge that is not active: whichever of cancel,
\* expiry, late work, satisfaction and issuance ends it, no session keeps a lease.
LeasedOnlyWhileActive ==
  \A s \in Sessions : sesState[s] = "leased" => chState[sesChallenge[s]] = "active"

\* A challenge that can no longer earn a pass has no session that is ready to start.
ReadyOnlyWhileOpen ==
  \A s \in Sessions :
    sesState[s] = "ready" => chState[sesChallenge[s]] \in {"issued", "active"}

CreditedEvents(c) ==
  {e \in Events : ack[e] # None /\ ack[e].challenge = c /\ ack[e].disposition = "credited"}

\* One share contributes Credited Work at most once, whatever event identifiers,
\* sessions and challenges it is delivered under.
ShareCreditedOnce ==
  \A e1, e2 \in Events :
    (/\ ack[e1] # None /\ ack[e1].disposition = "credited"
     /\ ack[e2] # None /\ ack[e2].disposition = "credited"
     /\ ack[e1].share = ack[e2].share) => e1 = e2

\* Verified Progress is the sum of the credits acknowledged for the challenge.
ProgressIsCreditedWork ==
  \A c \in Challenges :
    progress[c] = MapThenSumSet(LAMBDA e : ack[e].credited, CreditedEvents(c))

\* A pass is owed exactly when the requirement is met, and the intent that owes it
\* was created by exactly one acknowledged event.
IntentExactlyWhenEarned ==
  \A c \in Challenges :
    /\ intent[c] # "none" <=> progress[c] >= Requirement[c]
    /\ intent[c] # "none" =>
         /\ chState[c] \in {"satisfied", "pass_issued", "expired"}
         /\ \E e \in Events : ack[e] # None /\ ack[e].challenge = c /\ ack[e].intent_created
    /\ chState[c] \in {"satisfied", "pass_issued"} => intent[c] # "none"
    /\ \A e1, e2 \in Events :
         (/\ ack[e1] # None /\ ack[e1].challenge = c /\ ack[e1].intent_created
          /\ ack[e2] # None /\ ack[e2].challenge = c /\ ack[e2].intent_created) => e1 = e2

\* Accounting is exact: progress is the sum of the acknowledged credits, and crossing the
\* requirement, by duplicated, late or skewed events too, owes one pass (accept_work).
ProgressExact == ProgressIsCreditedWork /\ IntentExactlyWhenEarned

\* The challenge, the intent, the pass and the outbox row tell one story.
IssuanceAgrees ==
  \A c \in Challenges :
    /\ pass[c] # None <=> intent[c] = "issued"
    /\ chState[c] = "pass_issued" => intent[c] = "issued"
    /\ chState[c] = "satisfied" => intent[c] \in {"pending", "signing"}
    /\ intent[c] = "failed" => chState[c] = "expired"
    /\ signer[c] # None <=> intent[c] = "signing"
    /\ intent[c] = "none"    => outbox[c] = "none"
    /\ intent[c] = "pending" => outbox[c] = "pending"
    /\ intent[c] = "signing" => outbox[c] = "processing"
    /\ intent[c] = "issued"  => outbox[c] = "completed"
    /\ intent[c] = "failed"  => outbox[c] = "failed"

\* Only the holder of a live signing lease writes the intent row, so two workers
\* are never both completing one challenge.
OneCompletion ==
  \A w \in Workers :
    wkPc[w] = "completing" =>
      intent[wkCh[w]] = "signing" /\ signer[wkCh[w]] = w

\* A stored pass was signed before the challenge's absolute deadline.
PassSignedInTime ==
  \A c \in Challenges : pass[c] # None => pass[c].issued_at < deadline[c]

\* Completion is exclusive and in time: a worker whose completion is open still owns the
\* intent, although leases lapse and others claim, and what it stores it signed before the
\* deadline (maybe_claim_issuance, complete_issuance).
CompletionSound == OneCompletion /\ PassSignedInTime

\* The retention clock runs from the deadline while work may still arrive, is off
\* while a pass is owed, and is set once the challenge is over.
RetentionClock ==
  \A c \in Challenges :
    /\ chState[c] \in {"issued", "active"} => terminalAt[c] = deadline[c]
    /\ chState[c] = "satisfied" => terminalAt[c] = None
    /\ chState[c] \in {"pass_issued", "cancelled", "expired"} => terminalAt[c] # None

\* A stopped session has at most one successor, in the same challenge, and the
\* generations of a challenge's replacements are distinct and increase along the chain.
ReplacementChain ==
  /\ \A s \in Sessions : replaces[s] # None =>
       /\ sesChallenge[replaces[s]] = sesChallenge[s]
       /\ generation[s] > generation[replaces[s]]
  /\ \A s1, s2 \in Sessions :
       (replaces[s1] # None /\ replaces[s2] # None /\ s1 # s2) =>
         /\ replaces[s1] # replaces[s2]
         /\ sesChallenge[s1] = sesChallenge[s2] => generation[s1] # generation[s2]

\* The session rows stay coherent through leases, stops, restorations, failures and
\* replacements: their constraints hold, none is ready to start for a challenge that is
\* over, and replacements form one chain (lifecycle.rs, pool_selection.rs).
SessionsSound == SessionRowShape /\ ReadyOnlyWhileOpen /\ ReplacementChain

\* A stored Gate Pass is never signed again: retries, takeovers after an expired
\* signing lease and late completions leave the stored bytes alone.
StoredPassNeverChanges ==
  [][\A c \in Challenges : pass[c] # None => pass'[c] = pass[c]]_vars

\* Progress moves only for an active challenge, upwards, and by a newly stored event
\* of a session that holds a lease at that moment.
CreditNeedsLease ==
  [][\A c \in Challenges : progress'[c] # progress[c] =>
       /\ chState[c] = "active"
       /\ progress'[c] > progress[c]
       /\ \E e \in Events :
            /\ ack[e] = None /\ ack'[e] # None
            /\ ack'[e].challenge = c
            /\ sesState[ack'[e].session] = "leased"]_vars

\* Every change of a Work Session row follows the session matrix; in particular a
\* session is not leased again before its restoration is confirmed.
SessionStepsAllowed ==
  [][\A s \in Sessions :
       sesState[s] # Absent => session_transition_allowed(sesState[s], sesState'[s])]_vars

\* Every change of a Work Challenge row follows the challenge matrix.
ChallengeStepsAllowed ==
  [][\A c \in Challenges :
       chState[c] # Absent => challenge_transition_allowed(chState[c], chState'[c])]_vars

\* The one departure from the matrix: a challenge that expired while its pass was
\* being committed becomes pass_issued, with a pass that was signed in time.
OnlyLateCommitRevives ==
  [][\A c \in Challenges :
       chState[c] # Absent =>
         \/ challenge_transition_allowed(chState[c], chState'[c])
         \/ /\ chState[c] = "expired" /\ chState'[c] = "pass_issued"
            /\ pass[c] = None /\ pass'[c] # None
            /\ pass'[c].issued_at < deadline[c]]_vars

\* A pass that is owed is issued or failed in the end, although workers crash with
\* the intent in hand.
EarnedIsSettled ==
  \A c \in Challenges :
    intent[c] \in {"pending", "signing"} ~> intent[c] \in {"issued", "failed"}

\* What the abstract gate sees of a challenge.
Stage(c) ==
  IF intent[c] \in {"pending", "signing"} THEN "earned"
  ELSE IF intent[c] = "issued" THEN "granted"
  ELSE IF intent[c] = "failed" THEN "lapsed"
  ELSE IF chState[c] \in {"cancelled", "expired"} THEN "closed"
  ELSE "open"

Gate == INSTANCE PassGate WITH
          Passes <- Pass, NoPass <- None,
          work <- progress, stage <- [c \in Challenges |-> Stage(c)]

\* The Authority implements the abstract gate: no interleaving of requests, deliveries,
\* expiry, takeover and crashes grants a pass that was not earned, grants two, or
\* grants one after the challenge closed.
ImplementsGate == Gate!GateSpec
=============================================================================
