---------------------------- MODULE SerialRestart ----------------------------
(***************************************************************************)
(* One qualification restart of a Worker over its open serial session:     *)
(* WorkerSerialRestart awaits, step by step, what WorkerSerialRestart-     *)
(* Observer concludes from the byte stream, reopens the port at most once  *)
(* and admits the rebooted Worker afresh.  Lines, a stream end, a loss of  *)
(* control and the 30-second deadline arrive in any order between awaits.  *)
(***************************************************************************)
EXTENDS Naturals, Sequences, FiniteSets

CONSTANTS
  Deadline,     \* 30000 ms in ticks
  RecordLimit,  \* 512 observations
  MaxUptime, MaxRuns  \* bounds of the instance

VARIABLES
  at,             \* where run awaits: "idle", "prepare", "freeze", "request", "boot", "admission"
  consumed,       \* #consumed
  stage, error,   \* of the observer
  ackMatched, bootMode,
  boot, identity, samples, uptime,        \* what this epoch showed
  statsRequired, statsActive, admitted,
  ready, ended,   \* the epoch's ready and streamEnd promises are resolved
  interrupted, reopens, records, elapsed,
  session, prior, \* the controller's session, the one before the restart
  control,        \* #state of the controller: "ready", "restarting", "admitting", "closed"
  commands,       \* restart commands the Worker received
  seen            \* history: lines since the acknowledgement or the reopen

observerVars == <<stage, error, ackMatched, bootMode, boot, identity, samples, uptime, statsRequired, statsActive,
                  admitted, ready, ended, interrupted, reopens, records, elapsed>>
runVars == <<at, consumed, session, prior, control, commands, seen>>
vars == <<observerVars, runVars>>

Init ==
  /\ at = "idle" /\ consumed = FALSE
  /\ stage = "none" /\ error = FALSE /\ ackMatched = FALSE /\ bootMode = FALSE
  /\ boot = FALSE /\ identity = FALSE /\ samples = 0 /\ uptime = 0
  /\ statsRequired = FALSE /\ statsActive = FALSE /\ admitted = FALSE
  /\ ready = FALSE /\ ended = FALSE /\ interrupted = FALSE /\ reopens = 0
  /\ records = 0 /\ elapsed = 0
  /\ session = 1 /\ prior = 0 /\ control = "ready"
  /\ commands = 0 /\ seen = <<>>

Active == stage \notin {"none", "complete", "failed"}

\* observer.fail, then the catch block of run with the controller's cleanup.
GiveUp ==
  /\ stage' = "failed" /\ error' = TRUE
  /\ at' = "idle" /\ control' = "closed"
  /\ UNCHANGED <<ackMatched, bootMode, boot, identity, samples, uptime, statsRequired, statsActive, admitted, ready,
                 ended, interrupted, reopens, records, elapsed, consumed, session, prior, commands, seen>>

\* Fault: a second request is taken once the first has ended.
ReadyAgain == control = "ready" /\ ~Active

\* ready and #consumed of run: one request per controller.
MayRun == control = "ready" /\ ~consumed

Run ==
  /\ MayRun /\ at = "idle" /\ session <= MaxRuns
  /\ consumed' = TRUE /\ prior' = session
  /\ stage' = "armed" /\ at' = "prepare" /\ error' = FALSE
  /\ UNCHANGED <<ackMatched, bootMode, boot, identity, samples, uptime, statsRequired, statsActive, admitted, ready,
                 ended, interrupted, reopens, records, elapsed, session, control, commands, seen>>

\* limit: every await ends with the observer's failure or its deadline.
StillTime == ~error /\ elapsed < Deadline

\* prepare proves possession and baseline; freezeWrites stops the heartbeats and drains.
Prepared ==
  /\ at = "prepare" /\ StillTime
  /\ at' = "freeze" /\ control' = "restarting"
  /\ UNCHANGED <<observerVars, consumed, session, prior, commands, seen>>

Frozen ==
  /\ at = "freeze" /\ StillTime
  /\ at' = "request" /\ commands' = commands + 1
  /\ UNCHANGED <<observerVars, consumed, session, prior, control, seen>>

\* acceptResponse: the acknowledgement ends the old session in the task that receives it.
Acknowledged ==
  /\ at = "request" /\ StillTime /\ ~ackMatched /\ stage = "armed"
  /\ ackMatched' = TRUE /\ stage' = "acknowledged" /\ bootMode' = TRUE
  /\ session' = 0 /\ at' = "boot" /\ seen' = <<>>
  /\ UNCHANGED <<error, boot, identity, samples, uptime, statsRequired, statsActive, admitted, ready, ended, interrupted,
                 reopens, records, elapsed, consumed, prior, control, commands>>

Lines ==
  [kind : {"boot"}, ordinal : {"prior", "next", "other"}, up : {0}]
  \cup [kind : {"identity"}, ordinal : {"same", "other"}, up : {0}]
  \cup [kind : {"statistics"}, ordinal : {"prepared", "active", "failed"}, up : {0}]
  \cup [kind : {"startup"}, ordinal : {"complete"}, up : 1..MaxUptime]
  \cup [kind : {"startup"}, ordinal : {"failed"}, up : {0}]

\* Lines that end the observation: another boot, another image, a failed start, a clock
\* that went back.
Refuted(d) ==
  CASE d.kind = "boot" -> d.ordinal = "other" \/ (d.ordinal = "prior" /\ boot)
    [] d.kind = "identity" -> d.ordinal = "other"
    [] d.kind = "statistics" -> d.ordinal = "failed"
    [] OTHER -> d.ordinal = "failed" \/ (boot /\ d.up < uptime)

StatisticsReady(required, active) == required => active

\* A runtime_ready line counts once its boot was seen and its uptime rose.
Sampled(d) == d.kind = "startup" /\ boot /\ d.up > uptime

\* diagnostic after the acknowledgement.
Diagnostic(d) ==
  /\ Active /\ ackMatched /\ at # "idle"
  /\ IF records >= RecordLimit \/ elapsed >= Deadline \/ Refuted(d) THEN GiveUp
     ELSE LET first == d.kind = "boot" /\ d.ordinal = "next" /\ ~boot IN
          /\ records' = records + 1
          /\ boot' = (boot \/ first)
          /\ identity' = (identity \/ d.kind = "identity")
          /\ statsRequired' = (statsRequired \/ d.ordinal = "prepared")
          /\ statsActive' = IF first \/ d.ordinal = "prepared" THEN FALSE
                            ELSE statsActive \/ (boot /\ d.ordinal = "active")
          /\ samples' = IF first THEN 0 ELSE IF Sampled(d) /\ samples < 2 THEN samples + 1 ELSE samples
          /\ uptime' = IF first THEN 0 ELSE IF Sampled(d) THEN d.up ELSE uptime
          /\ ready' = (ready \/ (boot' /\ identity' /\ samples' >= 2 /\ StatisticsReady(statsRequired', statsActive')))
          /\ seen' = Append(seen, d)
          /\ UNCHANGED <<stage, error, ackMatched, bootMode, admitted, ended, interrupted, reopens, elapsed, at, consumed,
                         session, prior, control, commands>>

\* The native stream ends: expected once after the acknowledgement, a loss otherwise.
StreamEnds ==
  /\ Active /\ control # "closed" /\ ~ended
  /\ IF ackMatched /\ reopens = 0
     THEN /\ interrupted' = TRUE /\ ended' = TRUE
          /\ UNCHANGED <<stage, error, ackMatched, bootMode, boot, identity, samples, uptime, statsRequired, statsActive,
                         admitted, ready, reopens, records, elapsed, runVars>>
     ELSE GiveUp

\* Fault: what the first stream showed is kept.
ForgetNothing == UNCHANGED <<boot, identity, samples, uptime, statsActive, admitted, ready>>

\* reopened: the new stream must show everything again.
ForgetEpoch ==
  /\ boot' = FALSE /\ identity' = FALSE /\ samples' = 0 /\ uptime' = 0
  /\ statsActive' = FALSE /\ admitted' = FALSE /\ ready' = FALSE

\* #reopenRestart: the same port, once; an admission under way becomes stale.
Reopen ==
  /\ at \in {"boot", "admission"} /\ StillTime
  /\ ended /\ reopens = 0
  /\ reopens' = 1 /\ ended' = FALSE /\ bootMode' = TRUE /\ stage' = "acknowledged"
  /\ ForgetEpoch
  /\ at' = "boot" /\ control' = "restarting" /\ session' = 0 /\ seen' = <<>>
  /\ UNCHANGED <<error, ackMatched, statsRequired, interrupted, records, elapsed, consumed, prior, commands>>

\* fresh: a new Hello on the channel that survived or was reopened.
BeginAdmission ==
  /\ at = "boot" /\ StillTime /\ ready /\ ~ended
  /\ IF StatisticsReady(statsRequired, statsActive)
     THEN /\ bootMode' = FALSE /\ stage' = "reacquiring"
          /\ at' = "admission" /\ control' = "admitting"
          /\ UNCHANGED <<error, ackMatched, boot, identity, samples, uptime, statsRequired, statsActive, admitted, ready,
                         ended, interrupted, reopens, records, elapsed, consumed, session, prior, commands, seen>>
     ELSE GiveUp

\* The guard of complete.
Complete == ackMatched /\ boot /\ identity /\ samples >= 2 /\ StatisticsReady(statsRequired, statsActive)

\* Fault: any acknowledgement will do.
FreshAckUnchecked(ack) == TRUE

\* freshAck: the acknowledgement must not be the one of the session before.
FreshAck(ack) == ack # prior

\* The acknowledged session is admitted, and the observation complete.
Admit(ack) ==
  /\ at = "admission" /\ StillTime /\ ~ended
  /\ IF FreshAck(ack) /\ Complete
     THEN /\ session' = ack /\ admitted' = TRUE
          /\ stage' = "complete" /\ control' = "ready" /\ at' = "idle"
          /\ UNCHANGED <<error, ackMatched, bootMode, boot, identity, samples, uptime, statsRequired, statsActive, ready,
                         ended, interrupted, reopens, records, elapsed, consumed, prior, commands, seen>>
     ELSE GiveUp

\* A step of the run fails, control is lost, or close is called.
Fails == at # "idle" /\ GiveUp

Tick ==
  /\ Active /\ elapsed < Deadline
  /\ elapsed' = elapsed + 1
  /\ UNCHANGED <<stage, error, ackMatched, bootMode, boot, identity, samples, uptime, statsRequired, statsActive, admitted,
                 ready, ended, interrupted, reopens, records, runVars>>

\* Fault: only the wait for the boot is bounded.
TimesOutAtBoot == at = "boot" /\ elapsed >= Deadline /\ GiveUp

\* boundedSerial rejects the await at the deadline.
TimesOut == at # "idle" /\ elapsed >= Deadline /\ GiveUp

Next ==
  \/ Run \/ Prepared \/ Frozen \/ Acknowledged \/ BeginAdmission \/ Reopen
  \/ \E ack \in {prior, prior + 1} : Admit(ack)
  \/ \E d \in Lines : Diagnostic(d)
  \/ StreamEnds \/ Fails \/ Tick \/ TimesOut

Spec == Init /\ [][Next]_vars

\* Time passes, and a deadline that passed is acted on.
FairSpec == Spec /\ WF_vars(Tick) /\ WF_vars(TimesOut)

-----------------------------------------------------------------------------
\* Properties.

\* Every field has its type (WorkerSerialRestartObserver).
TypeOK ==
  /\ at \in {"idle", "prepare", "freeze", "request", "boot", "admission"}
  /\ stage \in {"none", "armed", "acknowledged", "reacquiring", "complete", "failed"}
  /\ samples \in 0..2 /\ uptime \in 0..MaxUptime
  /\ reopens \in 0..1 /\ records \in 0..RecordLimit /\ elapsed \in 0..Deadline
  /\ control \in {"ready", "restarting", "admitting", "closed"}
  /\ (stage = "failed" => control = "closed")

\* A completed restart saw, after its acknowledgement and on the stream that is in use, the
\* next boot, after it two rising runtime_ready lines, and the identity, which may have come
\* before the boot marker; nothing of the stream before a reopen counts.
CompletionIsEarned ==
  stage = "complete" =>
    /\ \E b \in DOMAIN seen :
         /\ seen[b].kind = "boot" /\ seen[b].ordinal = "next"
         /\ \E i, j \in DOMAIN seen :
              /\ b < i /\ i < j /\ seen[i].kind = "startup" /\ seen[j].kind = "startup"
              /\ seen[i].up < seen[j].up
    /\ \E i \in DOMAIN seen : seen[i].kind = "identity" /\ seen[i].ordinal = "same"
    /\ \A i \in DOMAIN seen : seen[i].ordinal = "prepared" =>
         \E j \in i + 1..Len(seen) : seen[j].ordinal = "active"

\* The identity was seen after the marker of the next boot.  The observer keeps an identity it
\* saw before the marker, where it resets the other evidence, and refutes this (diagnostic).
IdentityIsOfNextBoot ==
  stage = "complete" => \E b, i \in DOMAIN seen : b < i /\ seen[b].kind = "boot" /\ seen[b].ordinal = "next"
                                                 /\ seen[i].kind = "identity"

\* A controller that is ready after a restart is ready in another session.
FreshSession == control = "ready" /\ consumed /\ ackMatched => session # prior /\ session # 0

\* The Worker is restarted at most once, however the run ends (#consumed).
RestartedOnce == commands <= 1

\* A run that must end, in completion or in a closed controller.
Waits == at # "idle"
=============================================================================
