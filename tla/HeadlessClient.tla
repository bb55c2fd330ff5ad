--------------------------- MODULE HeadlessClient ---------------------------
(***************************************************************************)
(* The headless client of one Work Challenge between its Authority and its *)
(* Worker.  Consent, Start, Pause, Resume, Renew, Cancel and Close are     *)
(* async functions that suspend at each await; the user, the Authority's   *)
(* event stream and the loss of the Worker interleave there.  The          *)
(* Controller takes one command at a time and rejects another.             *)
(***************************************************************************)
EXTENDS Lifecycle, Sequences, FiniteSets

CONSTANTS LeaseLimit, CallLimit, FailureLimit, CancelLimit  \* bounds of the instance

VARIABLES
  challenge, control,  \* lifecycle
  receipt,             \* maybeConsentReceipt is set
  generation,          \* consentGeneration
  binding, stored,     \* the consent in the identity's record, and in its store
  calls,               \* the functions under way
  listening, connected,
  aState, aSession, aLease, events,  \* the Authority, and what it sent
  lease, fresh,        \* the Worker's lease, and whether it has time left
  failures

clientVars == <<challenge, control, receipt, generation, listening>>
consentVars == <<binding, stored>>
authorityVars == <<aState, aSession, aLease, events>>
workerVars == <<connected, lease, fresh>>
vars == <<clientVars, consentVars, calls, authorityVars, workerVars, failures>>

Calls == {"grant", "start", "pause", "resume", "cancel", "renew", "close", "event", "lost"}
Terminal == {"satisfied", "pass_issued", "cancelled", "expired"}

\* pc is the await; ctl and auth are the Controller command and the Authority request it
\* awaits; gen is the captured generation, 0 once the signal is aborted.
IdleCall == [pc |-> "idle", ctl |-> "idle", auth |-> "idle", lease |-> 0, gen |-> 0, next |-> "none"]

\* restoredLifecycle: a client resumes a challenge whose consent its identity still holds;
\* its last page may have left the session leased and the Worker mining for a while.
Restorations ==
  {[challenge |-> "issued", control |-> "awaiting_consent", session |-> "ready", consent |-> FALSE, lease |-> 0],
   [challenge |-> "issued", control |-> "ready", session |-> "ready", consent |-> TRUE, lease |-> 0],
   [challenge |-> "active", control |-> "paused", session |-> "leased", consent |-> TRUE, lease |-> 1],
   [challenge |-> "active", control |-> "paused", session |-> "stopping", consent |-> TRUE, lease |-> 0],
   [challenge |-> "satisfied", control |-> "completed", session |-> "stopping", consent |-> TRUE, lease |-> 0]}

\* createHeadlessClient.
Init ==
  /\ \E r \in Restorations :
       /\ challenge = r.challenge /\ control = r.control /\ receipt = r.consent /\ binding = r.consent /\ stored = r.consent
       /\ aState = r.challenge /\ aSession = r.session /\ aLease = r.lease /\ lease = r.lease
  /\ generation = 1 /\ calls = [c \in Calls |-> IdleCall]
  /\ listening = TRUE /\ connected = TRUE
  /\ events = <<>> /\ fresh = FALSE /\ failures = 0

InFlight == {c \in Calls : calls[c].pc # "idle"}
Idle(c) == calls[c].pc = "idle"
Running == challenge = "active" /\ control = "running"
Paused == challenge = "active" /\ control = "paused"

\* A command is refused at once while another is pending (operation_active) or without a session.
Available == connected /\ \A c \in Calls : calls[c].ctl # "waiting"
Command == IF Available THEN "waiting" ELSE "failed"

Set(c, call) == calls' = [calls EXCEPT ![c] = call]
Return(c) == Set(c, IdleCall)
Show(ch, co) == challenge' = ch /\ control' = co

\* The functions are called in any order and overlap; only Close is the last.
MayCall(c) == Idle(c) /\ Idle("close") /\ listening /\ Cardinality(InFlight) < CallLimit

-----------------------------------------------------------------------------
\* Consent.

GrantConsent ==
  /\ MayCall("grant") /\ challenge = "issued" /\ control = "awaiting_consent"
  /\ Set("grant", [IdleCall EXCEPT !.pc = "verify", !.gen = generation])
  /\ UNCHANGED <<clientVars, consentVars, authorityVars, workerVars, failures>>

\* The page aborts the confirmation.
Abort ==
  /\ ~Idle("grant") /\ calls["grant"].gen # 0
  /\ calls' = [calls EXCEPT !["grant"].gen = 0]
  /\ UNCHANGED <<clientVars, consentVars, authorityVars, workerVars, failures>>

NotAborted == calls["grant"].gen = generation

\* throwIfConsentAborted after the receipt was verified, or its refusal.
Verified(ok) ==
  /\ calls["grant"].pc = "verify"
  /\ IF ok /\ NotAborted THEN Set("grant", [calls["grant"] EXCEPT !.pc = "record"]) ELSE Return("grant")
  /\ UNCHANGED <<clientVars, consentVars, authorityVars, workerVars, failures>>

\* Fault: an aborted consent is not shown as granted, and stays in the store.
RecordedAndKept ==
  /\ calls["grant"].pc = "record"
  /\ binding' = TRUE /\ stored' = TRUE
  /\ Return("grant")
  /\ IF NotAborted THEN receipt' = TRUE /\ Show("issued", "ready") ELSE UNCHANGED <<receipt, challenge, control>>
  /\ UNCHANGED <<generation, listening, authorityVars, workerVars, failures>>

\* recordConsent settled: a consent that was aborted meanwhile is cleared.
Recorded ==
  /\ calls["grant"].pc = "record"
  /\ binding' = TRUE /\ stored' = TRUE
  /\ IF NotAborted
     THEN Return("grant") /\ receipt' = TRUE /\ Show("issued", "ready")
     ELSE Set("grant", [calls["grant"] EXCEPT !.pc = "clear"]) /\ UNCHANGED <<receipt, challenge, control>>
  /\ UNCHANGED <<generation, listening, authorityVars, workerVars, failures>>

\* clearConsent writes only when its own record holds a consent.
ClearConsent == binding' = FALSE /\ stored' = (stored /\ ~binding)

\* The clearConsent that grantConsent or cancel awaits has settled; only then does cancel look
\* at the lifecycle again.
Cleared(c) ==
  /\ calls[c].pc = "clear"
  /\ ClearConsent /\ Return(c)
  /\ IF c = "cancel" /\ challenge \in {"issued", "active"} THEN Show("cancelled", "cancelled")
     ELSE UNCHANGED <<challenge, control>>
  /\ UNCHANGED <<receipt, generation, listening, authorityVars, workerVars, failures>>

-----------------------------------------------------------------------------
\* Work.

\* Fault: an issued challenge is started whether or not consent was recorded.
StartsUnconsented(c) == CASE c = "start" -> challenge = "issued" [] c = "resume" -> Paused [] OTHER -> Running

Starts(c) ==
  CASE c = "start" -> receipt /\ challenge = "issued" /\ control = "ready"
    [] c = "resume" -> Paused
    [] OTHER -> Running

\* start, resume and renewWorkerLease ask the Controller for its context first.
Begin(c) ==
  /\ MayCall(c) /\ Starts(c) /\ Available
  /\ Set(c, [IdleCall EXCEPT !.pc = "context", !.ctl = "waiting"])
  /\ UNCHANGED <<clientVars, consentVars, authorityVars, workerVars, failures>>

\* pause, cancel and the shutdown of close command the Worker and the Authority together.
Stops(c) == [IdleCall EXCEPT !.pc = "stop", !.ctl = Command, !.auth = "waiting"]

\* rollbackControllerOperation.
Rollback(c) == Set(c, [calls[c] EXCEPT !.pc = "undo", !.ctl = Command, !.auth = "waiting"])

Pause ==
  /\ MayCall("pause") /\ Running
  /\ Set("pause", Stops("pause"))
  /\ UNCHANGED <<clientVars, consentVars, authorityVars, workerVars, failures>>

Cancel ==
  /\ MayCall("cancel") /\ challenge \in {"issued", "active"} /\ generation <= CancelLimit
  /\ generation' = generation + 1
  /\ Set("cancel", Stops("cancel"))
  /\ UNCHANGED <<challenge, control, receipt, listening, consentVars, authorityVars, workerVars, failures>>

Close ==
  /\ MayCall("close")
  /\ listening' = FALSE
  /\ Set("close", IF Running THEN Stops("close") ELSE [IdleCall EXCEPT !.pc = "release"])
  /\ UNCHANGED <<challenge, control, receipt, generation, consentVars, authorityVars, workerVars, failures>>

\* A command that was pending when the session ended rejects.
Rejected(call) ==
  IF call.ctl # "waiting" THEN call
  ELSE CASE call.pc = "context" -> IdleCall
         [] call.pc = "worker" -> [call EXCEPT !.pc = "undo", !.ctl = "failed", !.auth = "waiting"]
         [] OTHER -> [call EXCEPT !.ctl = "failed"]

\* connectWebSerialHeadlessClient: the controller is closed after the client.
Release ==
  /\ calls["close"].pc = "release"
  /\ calls' = [c \in Calls |-> IF c = "close" THEN IdleCall ELSE Rejected(calls[c])]
  /\ connected' = FALSE
  /\ UNCHANGED <<clientVars, consentVars, authorityVars, lease, fresh, failures>>

\* The Authority's answer to the request of c (claimant routes, PassGate lifecycle).
Tell(state) == IF state = aState THEN events' = events ELSE events' = Append(events, state)

Lease ==
  /\ aLease' = aLease + 1 /\ aSession' = "leased" /\ aState' = "active" /\ Tell("active")

StopSession == aSession' = IF aSession = "leased" THEN "stopping" ELSE aSession

Admits(c) ==
  CASE c = "start" /\ calls[c].pc = "request" ->
         /\ apply_challenge_command(aState, "StartWork") # Forbidden
         /\ apply_session_command(aSession, "StartLease") = "leased" /\ aLease < LeaseLimit
    [] c = "resume" /\ calls[c].pc = "request" ->
         apply_challenge_command(aState, "StartWork") # Forbidden /\ aSession \in {"stopping", "restored"} /\ aLease < LeaseLimit
    [] c = "renew" /\ calls[c].pc = "request" -> aSession = "leased" /\ aState = "active"
    [] c = "cancel" -> apply_challenge_command(aState, "Cancel") # Forbidden
    [] OTHER -> apply_challenge_command(aState, "Pause") # Forbidden

\* The Authority handles the request; its answer may be lost.
Serve(c, lost) ==
  /\ calls[c].auth = "waiting"
  /\ failures' = IF lost THEN failures + 1 ELSE failures
  /\ IF ~Admits(c)
     THEN ~lost /\ calls' = [calls EXCEPT ![c].auth = "failed"] /\ UNCHANGED authorityVars
     ELSE /\ IF calls[c].pc = "request" /\ c \in {"start", "resume"} THEN Lease
             ELSE IF c = "renew" /\ calls[c].pc = "request" THEN UNCHANGED authorityVars
             ELSE IF c = "cancel" THEN StopSession /\ aState' = "cancelled" /\ Tell("cancelled") /\ UNCHANGED aLease
             ELSE StopSession /\ UNCHANGED <<aState, aLease, events>>
          /\ calls' = [calls EXCEPT ![c].auth = IF lost THEN "failed" ELSE "ok",
                                    ![c].lease = IF calls[c].pc = "request" THEN aLease' ELSE calls[c].lease]
  /\ (lost => failures < FailureLimit)
  /\ UNCHANGED <<clientVars, consentVars, workerVars>>

\* The Authority's answer reaches start, resume or renewWorkerLease.
Granted(c) ==
  /\ calls[c].pc = "request" /\ calls[c].auth \in {"ok", "failed"}
  /\ IF calls[c].auth = "failed"
     THEN IF c = "renew" THEN Rollback(c) ELSE Return(c)
     ELSE IF Available THEN Set(c, [calls[c] EXCEPT !.pc = "worker", !.ctl = "waiting", !.auth = "idle"])
     ELSE Rollback(c)
  /\ UNCHANGED <<clientVars, consentVars, authorityVars, workerVars, failures>>

\* Fault: the end of start shows the work as running whatever happened meanwhile.
DoneAlways(c) == IF c = "start" THEN Show("active", "running") ELSE UNCHANGED <<challenge, control>>

\* The last lines of start and resume.
Done(c) ==
  IF (c = "start" /\ challenge = "issued") \/ (c = "resume" /\ Paused)
  THEN Show("active", "running") ELSE UNCHANGED <<challenge, control>>

\* The Worker executes the command c awaits and its answer settles it, or the Worker refuses.
Answer(c, refused) ==
  /\ calls[c].ctl = "waiting" /\ connected
  /\ (refused => failures < FailureLimit)
  /\ failures' = IF refused THEN failures + 1 ELSE failures
  /\ CASE calls[c].pc = "context" ->
            /\ IF refused THEN Return(c) ELSE Set(c, [calls[c] EXCEPT !.pc = "request", !.ctl = "idle", !.auth = "waiting"])
            /\ UNCHANGED <<challenge, control, lease, fresh>>
       [] calls[c].pc = "worker" ->
            IF refused \/ (IF c = "renew" THEN lease # calls[c].lease ELSE lease # 0)
            THEN /\ calls' = [calls EXCEPT ![c].pc = "undo", ![c].ctl = "waiting", ![c].auth = "waiting"]
                 /\ UNCHANGED <<challenge, control, lease, fresh>>
            ELSE lease' = calls[c].lease /\ fresh' = TRUE /\ Return(c) /\ Done(c)
       [] OTHER ->
            /\ calls' = [calls EXCEPT ![c].ctl = IF refused THEN "failed" ELSE "ok"]
            /\ lease' = IF refused THEN lease ELSE 0
            /\ UNCHANGED <<challenge, control, fresh>>
  /\ UNCHANGED <<receipt, generation, listening, consentVars, authorityVars, connected>>

Settled(c) == calls[c].ctl \in {"ok", "failed"} /\ calls[c].auth \in {"ok", "failed"}
BothOk(c) == calls[c].ctl = "ok" /\ calls[c].auth = "ok"

\* stopWorkerController, shutdownWorkerController and rollbacks after both answers.
Stopped(c) ==
  /\ calls[c].pc \in {"stop", "undo"} /\ Settled(c)
  /\ CASE c = "close" -> Set(c, [IdleCall EXCEPT !.pc = "release"])
       [] c = "cancel" /\ BothOk(c) -> Set(c, [IdleCall EXCEPT !.pc = "clear"])
       [] OTHER -> Return(c)
  /\ IF c = "pause" /\ BothOk(c) /\ Running THEN Show("active", "paused") ELSE UNCHANGED <<challenge, control>>
  /\ UNCHANGED <<receipt, generation, listening, consentVars, authorityVars, workerVars, failures>>

-----------------------------------------------------------------------------
\* What the client does not ask for.

ControlOf(state) == IF state \in {"satisfied", "pass_issued"} THEN "completed" ELSE state

\* challengeTransitionAllowed, with the snapshot after an offline interval.
TransitionAllowed(from, to) == challenge_transition_allowed(from, to) \/ (from = "active" /\ to = "pass_issued")

\* authorityLifecycleTransition throws, or the Worker cannot be restored: the event is dropped.
Refused(e) ==
  \/ ~TransitionAllowed(challenge, e)
  \/ e = "active" /\ challenge # "active" /\ control # "ready"
  \/ e \in Terminal /\ ~Available

\* Leaving the wait for consent invalidates what is being recorded.
Invalidate == generation' = IF challenge = "issued" /\ control = "awaiting_consent" THEN generation + 1 ELSE generation

\* Handlers overlap: a terminal event that arrives while the Worker is being restored for
\* another one finds the Controller busy.
Event ==
  /\ listening /\ events # <<>> /\ calls["event"].ctl \in {"idle", "waiting"}
  /\ events' = Tail(events)
  /\ LET e == Head(events) IN
     IF Refused(e) THEN UNCHANGED <<calls, challenge, control>>
     ELSE IF e \in Terminal
     THEN Set("event", [IdleCall EXCEPT !.pc = "restore", !.ctl = "waiting", !.next = e]) /\ UNCHANGED <<challenge, control>>
     ELSE /\ UNCHANGED calls
          /\ IF challenge = "issued" THEN Show("active", "running") ELSE UNCHANGED <<challenge, control>>
  /\ UNCHANGED <<receipt, generation, listening, consentVars, aState, aSession, aLease, workerVars, failures>>

\* restoreWorkerController settled: the lifecycle follows only a confirmed restoration.
Restored ==
  /\ calls["event"].pc = "restore" /\ calls["event"].ctl \in {"ok", "failed"}
  /\ Return("event")
  /\ IF calls["event"].ctl = "ok"
     THEN Invalidate /\ Show(calls["event"].next, ControlOf(calls["event"].next))
     ELSE UNCHANGED <<generation, challenge, control>>
  /\ UNCHANGED <<receipt, listening, consentVars, authorityVars, workerVars, failures>>

\* Fault: a pending command is left waiting when the session is lost.
DisconnectSilently ==
  /\ connected /\ connected' = FALSE
  /\ calls' = [calls EXCEPT !["lost"] = IF listening /\ Running THEN [IdleCall EXCEPT !.pc = "stop", !.ctl = "ok", !.auth = "waiting"] ELSE @]
  /\ UNCHANGED <<clientVars, consentVars, authorityVars, lease, fresh, failures>>

\* The serial session is lost: its pending command rejects, and running work is paused
\* at the Authority (pauseAfterControllerDisconnect).
Disconnect ==
  /\ connected /\ connected' = FALSE
  /\ calls' = [c \in Calls |->
       IF c = "lost" /\ listening /\ Running
       THEN [IdleCall EXCEPT !.pc = "stop", !.ctl = "ok", !.auth = "waiting"]
       ELSE Rejected(calls[c])]
  /\ UNCHANGED <<clientVars, consentVars, authorityVars, lease, fresh, failures>>

Lost ==
  /\ calls["lost"].pc = "stop" /\ Settled("lost")
  /\ Return("lost")
  /\ IF calls["lost"].auth = "ok" /\ Running THEN Show("active", "paused") ELSE UNCHANGED <<challenge, control>>
  /\ UNCHANGED <<receipt, generation, listening, consentVars, authorityVars, workerVars, failures>>

\* Fault: the Worker trusts its link and ends a lease only with it.
WorkerEndsWithLink == lease # 0 /\ ~connected

\* The Worker ends its lease by its own clock, or when it hears no heartbeat.
WorkerEnds == lease # 0 /\ (~connected \/ ~fresh)

EndLease ==
  /\ WorkerEnds
  /\ lease' = 0
  /\ UNCHANGED <<clientVars, consentVars, calls, authorityVars, connected, fresh, failures>>

Age ==
  /\ lease # 0 /\ fresh
  /\ fresh' = FALSE
  /\ UNCHANGED <<clientVars, consentVars, calls, authorityVars, connected, lease, failures>>

\* The Authority ends or completes the challenge.
Decide(state) ==
  /\ state \in {"satisfied", "pass_issued", "expired"} /\ challenge_transition_allowed(aState, state) /\ state # aState
  /\ (state = "satisfied" => aSession = "leased" /\ lease = aLease)
  /\ aState' = state /\ Tell(state) /\ StopSession
  /\ UNCHANGED <<clientVars, consentVars, calls, aLease, workerVars, failures>>

Next ==
  \/ GrantConsent \/ Abort \/ Recorded \/ \E ok \in BOOLEAN : Verified(ok)
  \/ \E c \in {"grant", "cancel"} : Cleared(c)
  \/ \E c \in {"start", "resume", "renew"} : Begin(c) \/ Granted(c)
  \/ Pause \/ Cancel \/ Close \/ Release
  \/ \E c \in Calls, b \in BOOLEAN : Serve(c, b) \/ Answer(c, b)
  \/ \E c \in Calls \ {"lost"} : Stopped(c)
  \/ Event \/ Restored \/ Disconnect \/ Lost \/ EndLease \/ Age
  \/ \E state \in {"satisfied", "pass_issued", "expired"} : Decide(state)

Spec == Init /\ [][Next]_vars

\* Stores, commands and requests settle (the Controller bounds its own), a closed client
\* releases its Worker, and the Worker's clock runs.
FairSpec ==
  /\ Spec
  /\ WF_vars(\E ok \in BOOLEAN : Verified(ok)) /\ WF_vars(Recorded)
  /\ \A c \in {"grant", "cancel"} : WF_vars(Cleared(c))
  /\ \A c \in Calls : WF_vars(\E b \in BOOLEAN : Serve(c, b)) /\ WF_vars(\E b \in BOOLEAN : Answer(c, b))
  /\ \A c \in {"start", "resume", "renew"} : WF_vars(Granted(c))
  /\ \A c \in Calls \ {"lost"} : WF_vars(Stopped(c))
  /\ WF_vars(Lost) /\ WF_vars(Restored) /\ WF_vars(Release) /\ WF_vars(Age) /\ WF_vars(EndLease)

-----------------------------------------------------------------------------
\* Properties.

Rank(state) ==
  CASE state = "issued" -> 0 [] state = "active" -> 1 [] state = "satisfied" -> 2 [] state = "pass_issued" -> 3
    [] OTHER -> 4

\* Every field has its type, and the shown pair is one of the union LifecycleEvent.
TypeOK ==
  /\ <<challenge, control>> \in
       {<<"issued", "awaiting_consent">>, <<"issued", "ready">>, <<"active", "running">>, <<"active", "paused">>,
        <<"satisfied", "completed">>, <<"pass_issued", "completed">>, <<"cancelled", "cancelled">>, <<"expired", "expired">>}
  /\ generation \in 1..CancelLimit + 2 /\ lease \in 0..LeaseLimit /\ aLease \in 0..LeaseLimit
  /\ aState \in ChallengeStates /\ aSession \in SessionStates
  /\ \A c \in Calls : calls[c].pc \in {"idle", "verify", "record", "clear", "context", "request", "worker", "undo", "stop",
                                       "release", "restore"}

\* The shown lifecycle goes back in one way only, whatever settles late: grantConsent does not
\* look at it again after recordConsent, so a consent asked for while a Cancel was pending shows
\* the cancelled challenge as ready.  The checks after the awaits of start, pause, resume and
\* cancel, and the busy Controller, leave no other.
OnlyLateGrantRevives ==
  [][Rank(challenge') < Rank(challenge) =>
       challenge = "cancelled" /\ challenge' = "issued" /\ calls["grant"].pc = "record" /\ NotAborted]_vars

\* The shown lifecycle never goes back.  The late grant refutes it.
NoRegression == [][Rank(challenge') >= Rank(challenge)]_vars

\* A consent on disk was granted: one that was invalidated while it was being written is
\* removed again (grantConsent after recordConsent).
DurableMeansGranted == stored /\ Idle("grant") => receipt

\* The Authority leases nothing, and the Worker mines nothing, before consent was granted.
NoWorkBeforeConsent == aSession # "ready" \/ lease # 0 => receipt \/ aState \in Terminal

\* A function that must return, also when the Worker is lost in the middle of it, and a
\* lease of an ended challenge, which the Worker must end even when the client lost sight of it.
Waits == InFlight # {} \/ (challenge \in Terminal /\ lease # 0)

\* A client that shows a terminal challenge has a Worker at its baseline.
TerminalMeansRestored == challenge \in Terminal => lease = 0
=============================================================================
