--------------------------- MODULE RestorationPage ---------------------------
(***************************************************************************)
(* The restoration qualification page.  A host calls its operations one at *)
(* a time; each is a chain of awaited exchanges with the Worker and the    *)
(* local supervisor.  Nothing renews, stops or polls by itself, but the    *)
(* Worker ends a lease on its own and the transport is lost at any await.  *)
(* The page keeps its own view of the lease beside the controller's.       *)
(***************************************************************************)
EXTENDS Naturals

VARIABLES
  worker,      \* the Worker: mining, and why its last lease ended
  ctl,         \* the controller: ready, #activeLease, #maybePossession, #renewalsStopped
  page,        \* RestorationSession
  op,          \* the operation in flight: name, its exchange, where it waits, the answer, reviews left
  journal,     \* journalled events about the lease since it was started
  stimulated   \* history: a stimulus was sent under the lease the controller last started

vars == <<worker, ctl, page, op, journal, stimulated>>

NoWindow == 2   \* maybeWindow is undefined; otherwise the renewals it still holds
Idle == [name |-> "none", cmd |-> "none", at |-> "none", result |-> "none", reviews |-> 0]

Effects == {"start", "renew", "stop", "restore", "stimulus"}  \* requests that make the last status stale; "stop" is pause, cancel or restore
StatusCommands == {"status", "start", "renew", "stop", "restore"}

Operations == {"none", "connect", "prepare", "load", "start", "renew", "stop", "stimulus", "review", "status",
               "replay", "close", "completion"}

\* Events that tell a reader of the journal that the lease is over.
Ends == {"stopped", "device_baseline_observed", "disconnected", "closed", "close_failed", "connected",
         "connect_failed"}

Init ==
  /\ worker = [mining |-> FALSE, reason |-> "none"]
  /\ ctl = [open |-> FALSE, active |-> FALSE, proven |-> FALSE, stopped |-> FALSE]
  /\ page = [connected |-> FALSE, leaseActive |-> FALSE, window |-> NoWindow, stimulusUsed |-> FALSE,
             ownStop |-> FALSE, device |-> "unknown"]
  /\ op = Idle
  /\ journal = {"closed"}
  /\ stimulated = FALSE

-----------------------------------------------------------------------------
\* The session.

EndLease(p) == [p EXCEPT !.leaseActive = FALSE, !.window = NoWindow]

Done == op' = Idle
At(name, at) == op.name = name /\ op.at = at
Ready == page.connected                     \* controller()
IdleLease == Ready /\ ~page.leaseActive     \* idle()
Leased == Ready /\ page.leaseActive         \* leased()

\* observeStatus: a baseline ends the page's lease, journalled unless the page stops it itself.
Observed(p, s) ==
  LET seen == [p EXCEPT !.device = s] IN IF s = "baseline" /\ p.leaseActive THEN EndLease(seen) ELSE seen

\* Fault: every baseline is the device's own.
BaselineEventAlways(s) ==
  IF s = "baseline" /\ page.leaseActive THEN {"device_baseline_observed"} ELSE {}

BaselineEvent(s) ==
  IF s = "baseline" /\ page.leaseActive /\ ~page.ownStop THEN {"device_baseline_observed"} ELSE {}

\* Fault: the disconnect handler leaves the lease to the next connection.
DisconnectedKeepingLease ==
  [page EXCEPT !.device = "unknown", !.connected = FALSE]

\* #lost clears the observed status; the subscribed handler acts only on a connected page.
Disconnected ==
  IF page.connected THEN [EndLease(page) EXCEPT !.device = "unknown", !.connected = FALSE]
  ELSE [page EXCEPT !.device = "unknown"]
DisconnectEvent == IF page.connected THEN {"disconnected"} ELSE {}

\* #lost and #cleanup of a ready controller: the pending exchange is rejected, or its answer is stale.
Lost(next) ==
  /\ ctl' = [ctl EXCEPT !.open = FALSE, !.active = FALSE, !.proven = FALSE]
  /\ page' = Disconnected
  /\ journal' = journal \cup DisconnectEvent
  /\ op' = next

Failing == IF op.at \in {"sent", "handled"} THEN [op EXCEPT !.at = "failed", !.result = "none"] ELSE op

\* A disconnect, a hidden page, a bad record, or 30 seconds without an answer.  The
\* continuation of an answer that was already checked still runs after it.
Lose ==
  /\ ctl.open
  /\ Lost(Failing)
  /\ UNCHANGED <<worker, stimulated>>

\* The Worker ends a lease: expiry, a clock reset, a safe stop or missing heartbeats.
WorkerEndsLease ==
  /\ worker.mining
  /\ worker' = [mining |-> FALSE, reason |-> "device"]
  /\ UNCHANGED <<ctl, page, op, journal, stimulated>>

-----------------------------------------------------------------------------
\* Exchanges of the controller.

\* Fault: the replayed renewal is not held back after a stimulus.
AdmitsRenewal(cmd) ==
  CASE cmd = "start"    -> ~ctl.active /\ ctl.proven
    [] cmd = "renew"    -> ctl.active
    [] cmd = "stimulus" -> ctl.active /\ ~ctl.stopped
    [] cmd \in {"prove", "review"} -> ~ctl.active
    [] OTHER            -> TRUE

\* Guards of startLease, renewLease, stimulus and the reviews.
Admits(cmd) ==
  CASE cmd = "start"    -> ~ctl.active /\ ctl.proven
    [] cmd = "renew"    -> ctl.active /\ ~ctl.stopped
    [] cmd = "stimulus" -> ctl.active /\ ~ctl.stopped
    [] cmd \in {"prove", "review"} -> ~ctl.active
    [] OTHER            -> TRUE

\* A command leaves the browser, or the controller refuses it; p is the page before it.
Send(next, cmd, p) ==
  IF ctl.open /\ Admits(cmd)
  THEN /\ op' = [next EXCEPT !.cmd = cmd, !.at = "sent", !.result = "none"]
       /\ ctl' = IF cmd = "stimulus" THEN [ctl EXCEPT !.stopped = TRUE] ELSE ctl
       /\ page' = IF cmd \in Effects THEN [p EXCEPT !.device = "unknown"] ELSE p
       /\ stimulated' = (stimulated \/ cmd = "stimulus")
  ELSE /\ op' = [next EXCEPT !.cmd = cmd, !.at = "failed", !.result = "none"]
       /\ page' = p
       /\ UNCHANGED <<ctl, stimulated>>

State(w) == IF w.mining THEN "mining" ELSE "baseline"

\* The Worker answers.  A restoration is taken in any state; a rejected renewal may stop the lease.
Handle ==
  /\ op.at = "sent"
  /\ \E accepts \in BOOLEAN :
       \/ /\ ~accepts
          /\ worker' \in {worker} \cup (IF op.cmd = "renew" /\ worker.mining
                                        THEN {[mining |-> FALSE, reason |-> "device"]} ELSE {})
          /\ op' = [op EXCEPT !.at = "handled", !.result = "rejected"]
       \/ /\ accepts
          /\ op.cmd = "start" => ~worker.mining
          /\ op.cmd \in {"renew", "stimulus"} => worker.mining
          /\ worker' = CASE op.cmd = "start" -> [mining |-> TRUE, reason |-> "none"]
                         [] op.cmd = "stop" -> [mining |-> FALSE, reason |-> "stopped"]
                         [] op.cmd = "restore" -> [mining |-> FALSE, reason |-> "tab_closed"]
                         [] OTHER -> worker
          /\ op' = [op EXCEPT !.at = "handled",
                              !.result = IF op.cmd \in StatusCommands THEN State(worker') ELSE "ok"]
  /\ UNCHANGED <<ctl, page, journal, stimulated>>

\* The answer is current: #statusRequest observes its status, and a baseline ends the lease.
Check ==
  /\ op.at = "handled" /\ op.result # "rejected"
  /\ op' = [op EXCEPT !.at = "observed"]
  /\ ctl' = [ctl EXCEPT !.active = @ /\ op.result # "baseline"]
  /\ IF op.cmd \in StatusCommands
     THEN page' = Observed(page, op.result) /\ journal' = journal \cup BaselineEvent(op.result)
     ELSE UNCHANGED <<page, journal>>
  /\ UNCHANGED <<worker, stimulated>>

\* What startLease, #restoreCommand and prepareWorkerLeaseAuthorizationContext assign when
\* they continue, on a controller that was lost in between too.
Flags ==
  [ctl EXCEPT !.active = (@ \/ op.cmd = "start") /\ op.cmd \notin {"stop", "restore"},
              !.stopped = @ /\ op.cmd # "start",
              !.proven = (@ \/ op.cmd = "prove") /\ op.cmd \notin {"stop", "restore"}]

Continue ==
  /\ op.at = "observed"
  /\ op' = [op EXCEPT !.at = "checked"]
  /\ ctl' = Flags
  /\ stimulated' = (stimulated /\ op.cmd # "start")
  /\ UNCHANGED <<worker, page, journal>>

\* A rejection ends the session, except of a stimulus or a review, which only fail.
Rejected ==
  /\ op.at = "handled" /\ op.result = "rejected"
  /\ \/ op.cmd \in StatusCommands \cup {"prove"} /\ Lost([op EXCEPT !.at = "failed"])
     \/ op.cmd \in {"stimulus", "review"} /\ op' = [op EXCEPT !.at = "failed"] /\ UNCHANGED <<ctl, page, journal>>
  /\ UNCHANGED <<worker, stimulated>>

-----------------------------------------------------------------------------
\* Connecting.

Fresh(name, at) == [Idle EXCEPT !.name = name, !.at = at]

Connect ==
  /\ op = Idle /\ ~page.connected
  /\ op' = Fresh("connect", "admitting")
  /\ ctl' = [open |-> FALSE, active |-> FALSE, proven |-> FALSE, stopped |-> FALSE]
  /\ page' = [EndLease(page) EXCEPT !.device = "unknown"]
  /\ UNCHANGED <<worker, journal, stimulated>>

\* requestPermission: a Worker is admitted with a possession proof and at baseline.
Admitted ==
  /\ At("connect", "admitting") /\ ~worker.mining
  /\ ctl' = [ctl EXCEPT !.open = TRUE, !.proven = TRUE]
  /\ page' = Observed(page, "baseline")
  /\ op' = [op EXCEPT !.at = "admitted"]
  /\ UNCHANGED <<worker, journal, stimulated>>

ConnectFails ==
  /\ At("connect", "admitting")
  /\ Done
  /\ journal' = journal \cup {"connect_failed"}
  /\ UNCHANGED <<worker, ctl, page, stimulated>>

\* The page is connected and asks for a first status.
Connected ==
  /\ At("connect", "admitted")
  /\ journal' = journal \cup {"connected"}
  /\ Send(op, "status", [page EXCEPT !.connected = TRUE])
  /\ UNCHANGED worker

-----------------------------------------------------------------------------
\* Scenario leases.

\* prepareStart, the reviews and statusReview begin with an exchange.
PrepareStart ==
  /\ op = Idle /\ IdleLease
  /\ Send(Fresh("prepare", "none"), "prove", page)
  /\ UNCHANGED <<worker, journal>>

Review ==
  /\ op = Idle /\ IdleLease
  /\ Send([Fresh("review", "none") EXCEPT !.reviews = 1], "prove", page)
  /\ UNCHANGED <<worker, journal>>

StatusReview ==
  /\ op = Idle /\ Ready
  /\ Send(Fresh("status", "none"), "status", page)
  /\ UNCHANGED <<worker, journal>>

\* loadScenarioLease; a connection is not needed.
LoadScenarioLease ==
  /\ op = Idle /\ ~page.leaseActive
  /\ op' = Fresh("load", "local")
  /\ UNCHANGED <<worker, ctl, page, journal, stimulated>>

\* Lease windows of 60 and of 30 seconds; a window of any other shape is refused.
MaximumRenewals(window) == IF window = "long" THEN 1 ELSE 0

\* parseRestorationWindow admits what the supervisor answers; the rest fails as LocalFails.
Loaded ==
  /\ At("load", "local")
  /\ \E window \in {"long", "short"}, renewals \in 0..2 :
       renewals <= MaximumRenewals(window) /\ page' = [page EXCEPT !.window = renewals]
  /\ Done
  /\ UNCHANGED <<worker, ctl, journal, stimulated>>

StartScenarioLease ==
  /\ op = Idle /\ IdleLease /\ page.window # NoWindow
  /\ Send(Fresh("start", "none"), "start", page)
  /\ UNCHANGED <<worker, journal>>

\* renewOnce takes the renewal before it is sent.
RenewOnce ==
  /\ op = Idle /\ Leased /\ page.window = 1
  /\ Send(Fresh("renew", "none"), "renew", [page EXCEPT !.window = 0])
  /\ UNCHANGED <<worker, journal>>

\* stopLease
StopLease ==
  /\ op = Idle /\ Leased
  /\ Send(Fresh("stop", "none"), "stop", [page EXCEPT !.ownStop = TRUE])
  /\ UNCHANGED <<worker, journal>>

\* triggerClockDiscontinuity: used once, even when it is refused.
TriggerClockDiscontinuity ==
  /\ op = Idle /\ Leased /\ ~page.stimulusUsed
  /\ Send(Fresh("stimulus", "none"), "stimulus",
          [page EXCEPT !.stimulusUsed = TRUE, !.window = IF @ = NoWindow THEN @ ELSE 0])
  /\ UNCHANGED <<worker, journal>>

\* Fault: the page notes its lease only when the host asks for a status.
LeaseStartedLater == UNCHANGED page /\ journal' = {"lease_started"}

LeaseStarted == page' = [page EXCEPT !.leaseActive = TRUE] /\ journal' = {"lease_started"}

\* An operation whose exchange succeeded.
Settle ==
  /\ op.at = "checked" /\ op.name \in {"connect", "prepare", "start", "renew", "stop", "stimulus", "status"}
  /\ \/ op.name = "start" /\ LeaseStarted
     \/ /\ op.name = "stop"
        /\ page' = [EndLease(page) EXCEPT !.ownStop = FALSE]
        /\ journal' = journal \cup {"stopped"}
     \/ op.name \notin {"start", "stop"} /\ UNCHANGED <<page, journal>>
  /\ Done
  /\ UNCHANGED <<worker, ctl, stimulated>>

\* observed: an operation whose exchange failed.
Failed ==
  /\ op.at = "failed"
  /\ op.name \in {"connect", "prepare", "start", "renew", "stop", "stimulus", "status", "review", "completion"}
  /\ op.cmd # "restore"
  /\ page' = CASE op.name = "start" -> [page EXCEPT !.window = NoWindow]
               [] op.name = "stop" -> [page EXCEPT !.ownStop = FALSE]
               [] OTHER -> page
  /\ Done
  /\ UNCHANGED <<worker, ctl, journal, stimulated>>

\* A proof is followed by its review; a completion takes two of them, then closes.
Proved ==
  /\ op.at = "checked" /\ op.cmd = "prove" /\ op.name \in {"review", "completion"}
  /\ Send(op, "review", page)
  /\ UNCHANGED <<worker, journal>>

Reviewed ==
  /\ op.at = "checked" /\ op.cmd = "review"
  /\ \/ op.name = "review" /\ Done /\ UNCHANGED <<ctl, page, stimulated>>
     \/ op.name = "completion" /\ op.reviews = 1
        /\ op' = [op EXCEPT !.at = "closing", !.reviews = 0] /\ UNCHANGED <<ctl, page, stimulated>>
     \/ op.name = "completion" /\ op.reviews = 2 /\ IdleLease
        /\ Send([op EXCEPT !.reviews = 1], "prove", page)
     \/ op.name = "completion" /\ op.reviews = 2 /\ ~IdleLease
        /\ Done /\ UNCHANGED <<ctl, page, stimulated>>
  /\ UNCHANGED <<worker, journal>>

-----------------------------------------------------------------------------
\* Replays.

\* replayArtifact: the artifact is fetched before the page looks at its lease.
ReplayArtifact ==
  /\ op = Idle /\ Ready
  /\ op' = Fresh("replay", "local")
  /\ UNCHANGED <<worker, ctl, page, journal, stimulated>>

FitsLease(operation) == (operation = "start") # page.leaseActive

Deliver ==
  /\ At("replay", "local")
  /\ \E operation \in {"start", "renew"} :
       IF FitsLease(operation) THEN Send(op, operation, page)
       ELSE Done /\ UNCHANGED <<ctl, page, stimulated>>
  /\ UNCHANGED <<worker, journal>>

\* An accepted start is the page's lease; a device rejection gives up the connection
\* and waits for the controller's own close.
ReplaySettles ==
  /\ op.name = "replay"
  /\ \/ op.at = "checked" /\ op.cmd = "start" /\ LeaseStarted
     \/ op.at = "checked" /\ op.cmd = "renew" /\ UNCHANGED <<page, journal>>
     \/ op.at = "failed" /\ op.result # "rejected" /\ UNCHANGED <<page, journal>>
  /\ Done
  /\ UNCHANGED <<worker, ctl, stimulated>>

ReplayRejected ==
  /\ At("replay", "failed") /\ op.result = "rejected"
  /\ page' = [EndLease(page) EXCEPT !.connected = FALSE]
  /\ op' = [op EXCEPT !.at = "settling"]
  /\ UNCHANGED <<worker, ctl, journal, stimulated>>

\* That close settles; when it failed, the journal has it.
ReplayClosed ==
  /\ At("replay", "settling")
  /\ journal' \in {journal, journal \cup {"close_failed"}}
  /\ Done
  /\ UNCHANGED <<worker, ctl, page, stimulated>>

-----------------------------------------------------------------------------
\* Closing and completion.

\* close: a leased page reads the status first.
Close ==
  /\ op = Idle
  /\ IF Leased THEN Send(Fresh("close", "none"), "status", page)
     ELSE op' = Fresh("close", "closing") /\ UNCHANGED <<ctl, page, stimulated>>
  /\ UNCHANGED <<worker, journal>>

StatusRead ==
  /\ op.name = "close" /\ op.cmd = "status" /\ op.at \in {"checked", "failed"}
  /\ op' = [op EXCEPT !.at = "closing"]
  /\ UNCHANGED <<worker, ctl, page, journal, stimulated>>

\* submitCompletion begins idle, with a baseline as the last observed status.
SubmitCompletion ==
  /\ op = Idle /\ IdleLease /\ page.device = "baseline"
  /\ op' = Fresh("completion", "local")
  /\ UNCHANGED <<worker, ctl, page, journal, stimulated>>

\* The supervisor's nonce has come; every review asks for the idle page again.
Nonce ==
  /\ At("completion", "local")
  /\ IF IdleLease THEN Send([op EXCEPT !.reviews = 2], "prove", page)
     ELSE Done /\ UNCHANGED <<ctl, page, stimulated>>
  /\ UNCHANGED <<worker, journal>>

\* Fault: the controller restores whatever the page last saw.
RestoresAlways == ctl.open

\* #finishClose restores an active lease only.
Restores == ctl.open /\ ctl.active

\* Nothing more is awaited between this and the restoration's first write.
BeginClose ==
  /\ op.at = "closing"
  /\ IF Restores
     THEN /\ op' = [op EXCEPT !.cmd = "restore", !.at = "sent", !.result = "none"]
          /\ page' = [EndLease(page) EXCEPT !.connected = FALSE, !.device = "unknown"]
          /\ UNCHANGED <<ctl, journal>>
     ELSE /\ op' = [op EXCEPT !.at = "closed"]
          /\ page' = [EndLease(page) EXCEPT !.connected = FALSE]
          /\ ctl' = [ctl EXCEPT !.open = FALSE, !.active = FALSE, !.proven = FALSE]
          /\ UNCHANGED journal
  /\ UNCHANGED <<worker, stimulated>>

\* The restoration answered or failed; cleanup runs either way.
Restored ==
  /\ op.cmd = "restore" /\ op.at \in {"checked", "failed"}
  /\ ctl' = [ctl EXCEPT !.open = FALSE, !.active = FALSE, !.proven = FALSE]
  /\ IF op.at = "checked" THEN op' = [op EXCEPT !.at = "closed"] /\ UNCHANGED journal
     ELSE Done /\ journal' = journal \cup {"close_failed"}
  /\ UNCHANGED <<worker, page, stimulated>>

\* A completion goes on to flush and submit its judgement, which need no device.
Closed ==
  /\ op.at = "closed"
  /\ journal' = journal \cup {"closed"}
  /\ Done
  /\ UNCHANGED <<worker, ctl, page, stimulated>>

\* The supervisor does not answer or its answer is refused.
LocalFails ==
  /\ op.at = "local"
  /\ Done
  /\ UNCHANGED <<worker, ctl, page, journal, stimulated>>

Next ==
  \/ Connect \/ Admitted \/ ConnectFails \/ Connected
  \/ PrepareStart \/ Review \/ StatusReview \/ LoadScenarioLease \/ Loaded
  \/ StartScenarioLease \/ RenewOnce \/ StopLease \/ TriggerClockDiscontinuity
  \/ Settle \/ Failed \/ Proved \/ Reviewed
  \/ ReplayArtifact \/ Deliver \/ ReplaySettles \/ ReplayRejected \/ ReplayClosed
  \/ Close \/ StatusRead \/ SubmitCompletion \/ Nonce \/ BeginClose \/ Restored \/ Closed \/ LocalFails
  \/ Handle \/ Check \/ Continue \/ Rejected \/ Lose \/ WorkerEndsLease

Spec == Init /\ [][Next]_vars

-----------------------------------------------------------------------------
\* Properties.

\* Every field of the page, the controller and the Worker has its type (RestorationSession).
TypeOK ==
  /\ worker \in [mining : BOOLEAN, reason : {"none", "device", "stopped", "tab_closed"}]
  /\ ctl \in [open : BOOLEAN, active : BOOLEAN, proven : BOOLEAN, stopped : BOOLEAN]
  /\ page \in [connected : BOOLEAN, leaseActive : BOOLEAN, window : 0..NoWindow, stimulusUsed : BOOLEAN,
               ownStop : BOOLEAN, device : {"unknown", "mining", "baseline"}]
  /\ page.ownStop => op.name = "stop"
  /\ op.name \in Operations /\ op.reviews \in 0..2
  /\ journal \subseteq Ends \cup {"lease_started"}

\* Between operations a page that is connected and its controller agree whether a lease is running:
\* observeStatus, the stops and the starts change leaseActive exactly when the
\* controller's continuations change #activeLease, whatever failed on the way.
FlagsAgree == op = Idle /\ page.connected => page.leaseActive = ctl.active

\* A transport loss marks the page disconnected and its lease ended, and it stays so: the
\* page comes to show a connection or a lease over a controller that is closed only by the
\* continuation of a connect (s.connected = true) or of a start (s.leaseActive = true) that
\* was answered before the loss.
LossIsShownUnlessOvertaken ==
  [][/\ (page'.connected \/ page'.leaseActive) /\ ~ctl'.open
     /\ ctl.open \/ ~(page.connected \/ page.leaseActive)
     => \/ At("connect", "admitted")
        \/ op.cmd = "start" /\ op.at = "checked"]_vars

\* The journal tells how every lease went: between operations the page holds a lease
\* exactly when no event since its start says that it is over.
JournalTellsLease == op = Idle => (page.leaseActive <=> journal \cap Ends = {})

\* A lease the page stopped itself is never journalled as ended by the device, even
\* when the answer of the stop is the baseline status that ends it.
OwnStopIsNotDevice == ~({"stopped", "device_baseline_observed"} \subseteq journal)

\* After a stimulus left the browser the lease it targets is never renewed, neither by
\* renewOnce nor by a replayed artifact.
StimulatedNotRenewed ==
  [][op'.cmd = "renew" /\ op'.at = "sent" /\ op.at # "sent" => ~stimulated]_vars

\* close never restores over a lease the page has seen the device end.
SeenEndingIsKept ==
  [][op.at = "closing" /\ op'.at = "sent" => "device_baseline_observed" \notin journal]_vars

\* close reads the status first so that the reason of a lease the device already ended
\* is never replaced by tab_closed.
EndedReasonKept ==
  [][~worker.mining /\ worker.reason = "device" => worker'.reason # "tab_closed"]_vars

\* After a transport loss no operation leaves the page connected or with a lease.
LossIsShown == op = Idle /\ ~ctl.open => ~page.connected /\ ~page.leaseActive
=============================================================================
