--------------------------- MODULE RelyingService ---------------------------
(***************************************************************************)
(* The Reference Relying Service: redemption of Gate Passes and execution  *)
(* of the Protected Action by competing action workers.                    *)
(*                                                                         *)
(* redeem locks the action row first and is one action.  A worker's claim  *)
(* transaction is two: it marks lapsed attempts abandoned (and holds their *)
(* rows) and only then fails exhausted intents and claims one.  The        *)
(* transaction that ends an attempt is two as well: it writes and holds    *)
(* the intent row, and then the outcome and the attempt row.  Statements   *)
(* wait for rows that another open transaction holds; claim_action skips   *)
(* them.                                                                   *)
(*                                                                         *)
(* A DPoP proof is bound to one pass and is recorded by the transaction    *)
(* that consumes the pass, so pass_consumptions refuses every request that *)
(* dpop_proofs would; the proof tables are left out.                       *)
(***************************************************************************)
EXTENDS Naturals

CONSTANTS
  Actions,       \* action references
  Passes,        \* verified Gate Passes
  PassFor,       \* the action a pass is bound to
  PassExpires,   \* the instant a pass expires
  Workers,       \* action worker identifiers; a restarted process is a new one
  Crashable,     \* the workers that may stop for good
  MaxAttempts, Timeout, LeaseLength,
  MaxLag,        \* how far a clock reading may lag behind the database clock
  MaxOpen,       \* how far it may lag once a claim transaction is open
  MaxClock,      \* bound of the instance
  None

ASSUME RelyingAssumption ==
  /\ PassFor \in [Passes -> Actions]
  /\ PassExpires \in [Passes -> Nat]
  /\ Crashable \subseteq Workers
  /\ {MaxAttempts, Timeout, LeaseLength} \subseteq Nat \ {0}
  /\ {MaxLag, MaxOpen, MaxClock} \subseteq Nat
  /\ MaxLag <= MaxOpen /\ MaxOpen < LeaseLength
  /\ None \notin Actions \cup Workers \cup Nat

VARIABLES
  clock,
  known,                                 \* protected_actions
  accepted,                              \* redemption_records: accepted_at
  consumed,                              \* pass_consumptions: the action it was spent on
  outcome,                               \* protected_action_outcomes
  intent, tries, owner, lease, nextAt,   \* action_execution_intents
  attempt,                               \* action_execution_attempts, by number
  account,                               \* reference_accounts: the worker that created it
  wkPc, wkAct, wkTry,                    \* each worker: step, claimed action, attempt number
  wkNow,                                 \* its clock reading for the transaction it is in
  wkSwept,                               \* actions whose attempt row it holds, marked abandoned
  wkEnd                                  \* the intent status it is writing

recordVars == <<known, accepted, consumed>>
intentVars == <<intent, tries, owner, lease, nextAt>>
workerVars == <<wkPc, wkAct, wkTry, wkNow, wkSwept, wkEnd>>
vars == <<clock, recordVars, outcome, intentVars, attempt, account, workerVars>>

Init ==
  /\ clock = 0
  /\ known    = [a \in Actions |-> FALSE]
  /\ accepted = [a \in Actions |-> None]
  /\ consumed = [p \in Passes |-> None]
  /\ outcome  = [a \in Actions |-> "none"]
  /\ intent = [a \in Actions |-> "none"]
  /\ tries  = [a \in Actions |-> 0]
  /\ owner  = [a \in Actions |-> None]
  /\ lease  = [a \in Actions |-> None]
  /\ nextAt = [a \in Actions |-> 0]
  /\ attempt = [a \in Actions |-> [n \in 1..MaxAttempts |-> "none"]]
  /\ account = [a \in Actions |-> None]
  /\ wkPc    = [w \in Workers |-> "idle"]
  /\ wkAct   = [w \in Workers |-> None]
  /\ wkTry   = [w \in Workers |-> 0]
  /\ wkNow   = [w \in Workers |-> 0]
  /\ wkSwept = [w \in Workers |-> {}]
  /\ wkEnd   = [w \in Workers |-> "none"]

\* The clock readings a handler may be using now.
Readings == {t \in 0..clock : t + MaxLag >= clock}

\* No claim transaction stays open for as long as an execution lease.
Tick ==
  /\ clock < MaxClock
  /\ \A w \in Workers : wkPc[w] = "sweeping" => clock < wkNow[w] + MaxOpen
  /\ clock' = clock + 1
  /\ UNCHANGED <<recordVars, outcome, intentVars, attempt, account, workerVars>>

-----------------------------------------------------------------------------
\* Redemption.

InsertProtectedAction(a) ==
  /\ ~known[a]
  /\ known' = [known EXCEPT ![a] = TRUE]
  /\ UNCHANGED <<clock, accepted, consumed, outcome, intentVars, attempt, account, workerVars>>

\* validate_redemption_binding and the refusals of redeem: a known action, a pass
\* within its validity, not consumed before.
Redeemable(p, now) ==
  /\ known[PassFor[p]]
  /\ now < PassExpires[p]
  /\ consumed[p] = None

\* The redemption record, its pending outcome and its pending intent.
InsertRedemption(a, now) ==
  /\ accepted' = [accepted EXCEPT ![a] = now]
  /\ outcome'  = [outcome EXCEPT ![a] = "pending"]
  /\ intent'   = [intent EXCEPT ![a] = "pending"]
  /\ nextAt'   = [nextAt EXCEPT ![a] = now]

\* The first pass for an action creates its record; a later one joins it.
Redeem(p, now) ==
  LET a == PassFor[p] IN
  /\ Redeemable(p, now)
  /\ consumed' = [consumed EXCEPT ![p] = a]
  /\ IF accepted[a] = None
     THEN InsertRedemption(a, now)
     ELSE UNCHANGED <<accepted, outcome, intent, nextAt>>
  /\ UNCHANGED <<clock, known, tries, owner, lease, attempt, account, workerVars>>

-----------------------------------------------------------------------------
\* The claim transaction.

\* An open transaction holds the intent row of a.
IntentLocked(a) == \E w \in Workers : wkPc[w] = "ending" /\ wkAct[w] = a

\* An open transaction holds the current attempt row of a.
AttemptLocked(a) == \E w \in Workers : a \in wkSwept[w]

Deadline(a) == accepted[a] + Timeout

\* abandon_expired_attempts and abandon_terminal_attempts: the attempt's lease or the
\* action's deadline has passed.
LapsedAttempts(now) ==
  {a \in Actions :
     /\ intent[a] = "processing"
     /\ attempt[a][tries[a]] = "processing"
     /\ lease[a] <= now \/ Deadline(a) <= now}

SweepAttempts(w, now) ==
  /\ wkPc[w] = "idle"
  /\ \A a \in LapsedAttempts(now) : ~AttemptLocked(a)
  /\ wkPc'    = [wkPc EXCEPT ![w] = "sweeping"]
  /\ wkNow'   = [wkNow EXCEPT ![w] = now]
  /\ wkSwept' = [wkSwept EXCEPT ![w] = LapsedAttempts(now)]
  /\ UNCHANGED <<clock, recordVars, outcome, intentVars, attempt, account, wkAct, wkTry, wkEnd>>

\* Fault: only pending intents are failed; a claimed one keeps its attempts.
ExhaustedPending(now) ==
  {a \in Actions : intent[a] = "pending" /\ (Deadline(a) <= now \/ tries[a] >= MaxAttempts)}

\* fail_exhausted_actions: out of time, or out of attempts with none running.
Exhausted(now) ==
  {a \in Actions :
     /\ intent[a] \in {"pending", "processing"}
     /\ \/ Deadline(a) <= now
        \/ /\ tries[a] >= MaxAttempts
           /\ intent[a] = "pending" \/ lease[a] <= now}

\* claim_action: due, with an attempt left, pending or abandoned by its owner, and
\* its row not held by another transaction.
Claimable(a, now) ==
  /\ \/ intent[a] = "pending"
     \/ intent[a] = "processing" /\ lease[a] <= now
  /\ Deadline(a) > now
  /\ tries[a] < MaxAttempts
  /\ nextAt[a] <= now
  /\ ~IntentLocked(a)

\* The rest of the claim transaction: the swept attempts become abandoned, exhausted
\* actions fail, and the actions in claimed (none or one) start their next attempt.
FailAndClaim(w, claimed) ==
  LET now  == wkNow[w]
      gone == Exhausted(now)
  IN
  /\ wkPc[w] = "sweeping"
  /\ \A a \in gone : ~IntentLocked(a)
  /\ outcome' = [a \in Actions |-> IF a \in gone /\ outcome[a] = "pending"
                                    THEN "failed" ELSE outcome[a]]
  /\ intent'  = [a \in Actions |-> IF a \in claimed THEN "processing"
                                   ELSE IF a \in gone THEN "failed" ELSE intent[a]]
  /\ owner'   = [a \in Actions |-> IF a \in claimed THEN w
                                   ELSE IF a \in gone THEN None ELSE owner[a]]
  /\ lease'   = [a \in Actions |-> IF a \in claimed THEN now + LeaseLength
                                   ELSE IF a \in gone THEN None ELSE lease[a]]
  /\ tries'   = [a \in Actions |-> IF a \in claimed THEN tries[a] + 1 ELSE tries[a]]
  /\ attempt' = [a \in Actions |-> [n \in 1..MaxAttempts |->
       IF a \in wkSwept[w] /\ n = tries[a] THEN "abandoned"
       ELSE IF a \in claimed /\ n = tries[a] + 1 THEN "processing"
       ELSE attempt[a][n]]]
  /\ wkSwept' = [wkSwept EXCEPT ![w] = {}]
  /\ UNCHANGED <<clock, recordVars, nextAt, account, wkNow, wkEnd>>

\* maybe_claim_action finds nothing to claim.
ClaimNothing(w) ==
  /\ \A a \in Actions : ~Claimable(a, wkNow[w])
  /\ FailAndClaim(w, {})
  /\ wkPc' = [wkPc EXCEPT ![w] = "idle"]
  /\ UNCHANGED <<wkAct, wkTry>>

\* maybe_claim_action takes the intent that has been due the longest.
ClaimAction(w, a) ==
  /\ Claimable(a, wkNow[w])
  /\ \A other \in Actions : Claimable(other, wkNow[w]) => nextAt[a] <= nextAt[other]
  /\ FailAndClaim(w, {a})
  /\ wkPc'  = [wkPc EXCEPT ![w] = "claimed"]
  /\ wkAct' = [wkAct EXCEPT ![w] = a]
  /\ wkTry' = [wkTry EXCEPT ![w] = tries[a] + 1]

-----------------------------------------------------------------------------
\* Execution.

\* Without an executor the iteration ends and the claim runs into its lease.
ExecutionUnavailable(w) ==
  /\ wkPc[w] = "claimed"
  /\ wkPc' = [wkPc EXCEPT ![w] = "idle"]
  /\ UNCHANGED <<clock, recordVars, outcome, intentVars, attempt, account,
                 wkAct, wkTry, wkNow, wkSwept, wkEnd>>

\* Fault: any worker that once claimed the action may end it.
StillProcessing(w, end) == intent[wkAct[w]] = "processing"

\* The guards of complete_action_intent, fail_claimed_action and schedule_action_retry,
\* on the database clock; only the first looks at the deadline.
HoldsExecutionLease(w, end) ==
  LET a == wkAct[w] IN
  /\ intent[a] = "processing"
  /\ owner[a] = w
  /\ lease[a] > clock
  /\ end = "completed" => Deadline(a) > clock

\* The executor has answered: success, a final error, or one worth another attempt
\* (execution_failure_decision).  The intent row is written and held, or the lease is
\* lost and the iteration ends.
EndAttempt(w, end, done) ==
  /\ wkPc[w] = "claimed"
  /\ wkPc'  = [wkPc EXCEPT ![w] = IF HoldsExecutionLease(w, end) THEN "ending" ELSE "idle"]
  /\ wkEnd' = [wkEnd EXCEPT ![w] = end]
  /\ wkNow' = [wkNow EXCEPT ![w] = done]
  /\ UNCHANGED <<clock, recordVars, outcome, intentVars, attempt, account, wkAct, wkTry, wkSwept>>

\* Fault: a failed attempt does not end its attempt row.
EndedProcessing(status, end) ==
  IF status = "processing" /\ end = "completed" THEN "succeeded" ELSE status

\* What ending does to the attempt row, which a sweep may have abandoned meanwhile.
EndedAttempt(status, end) ==
  IF status # "processing" THEN status
  ELSE IF end = "completed" THEN "succeeded" ELSE "abandoned"

\* Fault: the account does not wait for the attempt to succeed.
AccountOfAttempt(a, w, end) == IF account[a] = None THEN w ELSE account[a]

\* insert_reference_account does nothing where there is an account.
AccountFor(a, w, end) ==
  IF end = "completed" /\ account[a] = None THEN w ELSE account[a]

\* The rest of complete_account_creation, fail_claimed_action or schedule_action_retry.
CommitAttempt(w) ==
  LET a   == wkAct[w]
      end == wkEnd[w]
  IN
  /\ wkPc[w] = "ending"
  /\ ~AttemptLocked(a)
  /\ end = "completed" => outcome[a] = "pending"
  /\ intent' = [intent EXCEPT ![a] = end]
  /\ owner'  = [owner EXCEPT ![a] = None]
  /\ lease'  = [lease EXCEPT ![a] = None]
  /\ nextAt' = [nextAt EXCEPT ![a] = IF end = "pending" THEN wkNow[w] + 1 ELSE nextAt[a]]
  /\ outcome' = [outcome EXCEPT ![a] =
       IF end = "completed" THEN "succeeded"
       ELSE IF end = "failed" /\ outcome[a] = "pending" THEN "failed" ELSE outcome[a]]
  /\ account' = [account EXCEPT ![a] = AccountFor(a, w, end)]
  /\ attempt' = [attempt EXCEPT ![a][wkTry[w]] = EndedAttempt(attempt[a][wkTry[w]], end)]
  /\ wkPc' = [wkPc EXCEPT ![w] = "idle"]
  /\ UNCHANGED <<clock, recordVars, tries, wkAct, wkTry, wkNow, wkSwept, wkEnd>>

\* Sweeper v holds the attempt row that ender w needs and waits for w's intent row.
Deadlocked(w, v) ==
  /\ wkPc[w] = "ending" /\ wkPc[v] = "sweeping"
  /\ wkAct[w] \in wkSwept[v]
  /\ wkAct[w] \in Exhausted(wkNow[v])

\* The database breaks a deadlock by rolling one of the two transactions back; that
\* worker's iteration fails and it polls again.
DeadlockVictim(w) ==
  /\ \E v \in Workers : Deadlocked(w, v) \/ Deadlocked(v, w)
  /\ wkPc'    = [wkPc EXCEPT ![w] = "idle"]
  /\ wkSwept' = [wkSwept EXCEPT ![w] = {}]
  /\ UNCHANGED <<clock, recordVars, outcome, intentVars, attempt, account,
                 wkAct, wkTry, wkNow, wkEnd>>

\* The process stops; an open transaction rolls back.
CrashWorker(w) ==
  /\ w \in Crashable
  /\ wkPc[w] # "dead"
  /\ wkPc'    = [wkPc EXCEPT ![w] = "dead"]
  /\ wkSwept' = [wkSwept EXCEPT ![w] = {}]
  /\ UNCHANGED <<clock, recordVars, outcome, intentVars, attempt, account,
                 wkAct, wkTry, wkNow, wkEnd>>

-----------------------------------------------------------------------------
WorkerStep(w) ==
  \/ \E now \in Readings : SweepAttempts(w, now)
  \/ ClaimNothing(w) \/ (\E a \in Actions : ClaimAction(w, a))
  \/ ExecutionUnavailable(w)
  \/ \E end \in {"completed", "failed", "pending"}, done \in Readings : EndAttempt(w, end, done)
  \/ CommitAttempt(w) \/ DeadlockVictim(w)

Next ==
  \/ Tick
  \/ \E a \in Actions : InsertProtectedAction(a)
  \/ \E p \in Passes, now \in Readings : Redeem(p, now)
  \/ \E w \in Workers : WorkerStep(w) \/ CrashWorker(w)

Spec == Init /\ [][Next]_vars

\* An open transaction ends: its statements run, the database breaks the deadlock it
\* is in, or the connection is lost and it rolls back.
CloseTransaction(w) ==
  /\ wkPc[w] \in {"sweeping", "ending"}
  /\ \/ ClaimNothing(w) \/ (\E a \in Actions : ClaimAction(w, a))
     \/ CommitAttempt(w) \/ DeadlockVictim(w) \/ CrashWorker(w)

\* Time passes, the workers outside Crashable poll forever, and no transaction stays
\* open.
FairSpec ==
  /\ Spec
  /\ WF_vars(Tick)
  /\ \A w \in Workers : WF_vars(CloseTransaction(w))
  /\ \A w \in Workers \ Crashable : WF_vars(WorkerStep(w))

-----------------------------------------------------------------------------
\* Properties.

AttemptStates == {"none", "processing", "succeeded", "abandoned"}

\* Every row has its shape, and no action starts more than MaxAttempts attempts.
TypeOK ==
  /\ clock \in 0..MaxClock
  /\ known \in [Actions -> BOOLEAN]
  /\ accepted \in [Actions -> Nat \cup {None}]
  /\ consumed \in [Passes -> Actions \cup {None}]
  /\ outcome \in [Actions -> {"none", "pending", "succeeded", "failed"}]
  /\ intent \in [Actions -> {"none", "pending", "processing", "completed", "failed"}]
  /\ tries \in [Actions -> 0..MaxAttempts]
  /\ owner \in [Actions -> Workers \cup {None}]
  /\ lease \in [Actions -> Nat \cup {None}]
  /\ nextAt \in [Actions -> Nat]
  /\ attempt \in [Actions -> [1..MaxAttempts -> AttemptStates]]
  /\ account \in [Actions -> Workers \cup {None}]
  /\ wkPc \in [Workers -> {"idle", "sweeping", "claimed", "ending", "dead"}]
  /\ wkAct \in [Workers -> Actions \cup {None}]
  /\ wkTry \in [Workers -> 0..MaxAttempts]
  /\ wkNow \in [Workers -> Nat]
  /\ wkSwept \in [Workers -> SUBSET Actions]
  /\ wkEnd \in [Workers -> {"none", "completed", "failed", "pending"}]

\* The outcome, the intent, the account and the redemption record tell one story: an
\* account exists exactly for a succeeded outcome, and a consumed pass has a record.
OutcomeAgrees ==
  /\ \A a \in Actions :
       /\ outcome[a] = "none"      <=> accepted[a] = None
       /\ outcome[a] = "none"      <=> intent[a] = "none"
       /\ outcome[a] = "pending"   <=> intent[a] \in {"pending", "processing"}
       /\ outcome[a] = "succeeded" <=> intent[a] = "completed"
       /\ outcome[a] = "succeeded" <=> account[a] # None
       /\ owner[a] # None <=> intent[a] = "processing"
       /\ lease[a] # None <=> intent[a] = "processing"
  /\ \A p \in Passes : consumed[p] # None => accepted[consumed[p]] # None

\* Two workers never end one action at the same time: the one that does still owns it,
\* even if its lease has run out since.
OneEnding ==
  \A w \in Workers :
    wkPc[w] = "ending" =>
      /\ intent[wkAct[w]] = "processing" /\ owner[wkAct[w]] = w
      /\ tries[wkAct[w]] = wkTry[w]

\* Attempts run one after another: only the latest may be processing, and there is none
\* beyond the count.
AttemptsInTurn ==
  \A a \in Actions : \A n \in 1..MaxAttempts :
    /\ n < tries[a] => attempt[a][n] = "abandoned"
    /\ n > tries[a] => attempt[a][n] = "none"
    /\ n = tries[a] /\ intent[a] \in {"pending", "completed"} => attempt[a][n] # "processing"

\* Attempts are bounded, run one after another and end under their owner, whatever is
\* retried, taken over or abandoned (maybe_claim_action, complete_action, fail_action).
AttemptsSound == TypeOK /\ OneEnding /\ AttemptsInTurn

\* A final outcome leaves no attempt running: whether the action succeeded or failed,
\* every attempt that was started is succeeded or abandoned.
AttemptsAreTerminal ==
  \A a \in Actions :
    outcome[a] \in {"succeeded", "failed"} =>
      \A n \in 1..MaxAttempts : attempt[a][n] # "processing"

\* An accepted redemption reaches a final outcome although workers crash, lose their
\* leases and deadlock.
AcceptedIsSettled ==
  \A a \in Actions : outcome[a] = "pending" ~> outcome[a] \in {"succeeded", "failed"}

Once == INSTANCE ProtectedAction WITH
          Makers <- Workers, Nobody <- None, maker <- account,
          spent <- [p \in Passes |-> consumed[p] # None]

\* The service implements the once-only Protected Action: no interleaving of
\* redemptions, claims, takeovers, retries and crashes opens two outcomes for an action,
\* creates an account for one that did not succeed, or changes a final outcome.
ImplementsOnce == Once!ActionSpec
=============================================================================
