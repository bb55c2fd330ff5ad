-------------------------- MODULE SerialController --------------------------
(***************************************************************************)
(* WebSerialWorkerController: admissions, commands, losses and closes of   *)
(* one browser page over one Worker.                                       *)
(*                                                                         *)
(* Every await is a point where other code runs.  #generation tells a      *)
(* continuation whether its admission is still the current one.  A port    *)
(* owner holds the origin's lock; an admission that was given up may still *)
(* be waiting for the lock, the chooser or a native open.                  *)
(***************************************************************************)
EXTENDS Naturals, FiniteSets, Sequences

CONSTANTS MaxAdmissions, MaxCommands  \* bounds of the instance

VARIABLES
  state, generation, failure,   \* #state, #generation, #maybeFailure is set
  activeLease, possession,      \* #activeLease, the session #maybePossession was proved in
  ack, channel, owner,          \* session of #maybeAck and #maybePeer; admissions of #maybeChannel, #maybeOwner
  beating,                      \* #heartbeatAdmitted with its timer
  closing,                      \* where #finishClose waits
  pending,                      \* #maybePending
  calls, issued,                \* exchanges with their continuations; #requestSequence
  tasks,                        \* admissions: where requestPermission waits
  owners, lock,                 \* WorkerSerialPortOwner of each admission; holder of the Web Lock
  session, admitted, lease,     \* the Worker: its session, proved possession in it, mining
  reason, wire, replies,        \* why its last lease ended; records on the way
  proved, started               \* history: sessions that proved possession, that started a lease

controlVars == <<state, generation, failure, activeLease, possession, ack, channel, beating, closing, pending>>
workerVars  == <<session, admitted, lease, reason, wire, replies, proved, started>>
vars == <<controlVars, owner, calls, issued, tasks, owners, lock, workerVars>>

Admissions == 1..MaxAdmissions

Init ==
  /\ state = "unconnected" /\ generation = 0 /\ failure = FALSE
  /\ activeLease = FALSE /\ possession = 0
  /\ ack = 0 /\ channel = 0 /\ owner = 0
  /\ beating = FALSE /\ closing = "none" /\ pending = 0
  /\ calls = {} /\ issued = 0
  /\ tasks = <<>>
  /\ owners = [o \in Admissions |-> [opening |-> "none", closing |-> FALSE, released |-> FALSE]]
  /\ lock = 0
  /\ session = 0 /\ admitted = FALSE /\ lease = FALSE /\ reason = "none"
  /\ wire = <<>> /\ replies = <<>> /\ proved = {} /\ started = {}

-----------------------------------------------------------------------------
\* Losing and giving up.

\* Fault: the heartbeat timer survives the session.
ForgetSessionBeating ==
  /\ state' = "closed" /\ closing' = "none"
  /\ activeLease' = FALSE /\ possession' = 0
  /\ ack' = 0 /\ channel' = 0 /\ pending' = 0
  /\ UNCHANGED beating

\* The assignments of #cleanup.
ForgetSession ==
  /\ state' = "closed" /\ closing' = "none"
  /\ activeLease' = FALSE /\ possession' = 0
  /\ ack' = 0 /\ channel' = 0 /\ pending' = 0
  /\ beating' = FALSE

CloseOwner(o) == owners' = IF o = 0 THEN owners ELSE [owners EXCEPT ![o].closing = TRUE]

\* #cleanup: the session is forgotten, its request rejected, its owner asked to close.
Cleanup(live) ==
  /\ ForgetSession
  /\ calls' = {[c EXCEPT !.phase = IF c.id = pending THEN "failed" ELSE @] : c \in live}
  /\ CloseOwner(owner)

\* #lost.  With #maybeFailure set, close neither restores nor says goodbye, so its
\* cleanup runs in the same task.
Lost(live) ==
  \/ state \in {"closed", "unconnected"}
     /\ calls' = live
     /\ UNCHANGED <<controlVars, owners>>
  \/ state = "closing"
     /\ failure' = TRUE /\ beating' = FALSE /\ pending' = 0
     /\ calls' = {[c EXCEPT !.phase = IF c.id = pending THEN "failed" ELSE @] : c \in live}
     /\ UNCHANGED <<state, generation, activeLease, possession, ack, channel, closing, owners>>
  \/ state \in {"admitting", "ready"}
     /\ failure' = TRUE /\ generation' = generation + 1
     /\ Cleanup(live)

\* A continuation runs before the next timer, gesture or native event.  Verifying a
\* proof is native work, and a failed exchange may still wait for its write.
MicrotasksDone ==
  \A c \in calls : c.phase \in {"waiting", "failed"} \/ (c.cmd = "prove" /\ c.phase = "checked")

\* A read error, a disconnect, a hidden page or two silent heartbeats.  The reader may
\* find a bad record while continuations of the one before are still queued.
LoseControl ==
  /\ channel # 0
  /\ Lost(calls)
  /\ UNCHANGED <<owner, issued, tasks, lock, workerVars>>

-----------------------------------------------------------------------------
\* Exchanges.

\* #exchange: the request goes out for the session of #maybeAck.
Exchange(cmd, who, live) ==
  /\ issued' = issued + 1
  /\ pending' = issued + 1
  /\ calls' = live \cup {[id |-> issued + 1, cmd |-> cmd, who |-> who, gen |-> generation', session |-> ack,
                          phase |-> "waiting", result |-> "none"]}
  /\ wire' = Append(wire, [id |-> issued + 1, cmd |-> cmd, who |-> who, session |-> ack])

\* The Worker takes the next record.  Without proved possession it rejects commands.
Handle ==
  /\ wire # <<>>
  /\ LET m == Head(wire)
         known == m.session = session
         may == known /\ admitted
         ends == m.cmd = "close" \/ (m.cmd = "restore" /\ may)
         starts == m.cmd = "start_lease" /\ may /\ ~lease IN
     /\ wire' = Tail(wire)
     /\ \E accepts \in BOOLEAN :
          /\ admitted' = IF m.cmd = "close" /\ known THEN FALSE ELSE admitted \/ (known /\ m.cmd = "prove" /\ accepts)
          /\ proved' = IF known /\ m.cmd = "prove" /\ accepts THEN proved \cup {session} ELSE proved
          /\ lease' = IF known /\ ends THEN FALSE ELSE lease \/ (starts /\ accepts)
          /\ started' = IF starts /\ accepts THEN started \cup {session} ELSE started
          /\ reason' = IF m.cmd = "restore" /\ may THEN "host" ELSE reason
          /\ replies' = IF ~known \/ m.cmd = "close" THEN replies
                        ELSE Append(replies, [id |-> m.id, session |-> session, result |->
                               IF ~accepts \/ (~may /\ m.cmd \notin {"discover", "prove"}) THEN "rejected"
                               ELSE CASE m.cmd \in {"discover", "prove"} -> "ok"
                                      [] m.cmd = "restore" -> "restored"
                                      [] OTHER -> IF lease' THEN "mining" ELSE "baseline"])
  /\ UNCHANGED <<controlVars, owner, calls, issued, tasks, owners, lock, session>>

\* The Worker ends a lease by itself: expiry, a clock reset, or no heartbeat.
LeaseEnds ==
  /\ lease
  /\ lease' = FALSE /\ reason' = "device"
  /\ UNCHANGED <<controlVars, owner, calls, issued, tasks, owners, lock, session, admitted, wire, replies, proved, started>>

\* #receive: the answer of the pending request, or a loss.
Receive ==
  /\ replies # <<>> /\ channel # 0 /\ ack # 0
  /\ LET m == Head(replies) IN
     /\ replies' = Tail(replies)
     /\ IF m.session = ack /\ m.id = pending /\ ~failure
        THEN /\ pending' = 0
             /\ calls' = {IF c.id = m.id THEN [c EXCEPT !.phase = "answered", !.result = m.result] ELSE c : c \in calls}
             /\ UNCHANGED <<state, generation, failure, activeLease, possession, ack, channel, beating, closing, owners>>
        ELSE Lost(calls)
  /\ UNCHANGED <<owner, issued, tasks, lock, session, admitted, lease, reason, wire, proved, started>>

\* runWorkerSerialExchange after the answer: a response of another generation is stale.
Check(c) ==
  /\ c.phase = "answered" /\ c.gen = generation
  /\ calls' = (calls \ {c}) \cup {[c EXCEPT !.phase = "checked"]}
  /\ UNCHANGED <<controlVars, owner, issued, tasks, owners, lock, workerVars>>

\* A stale or rejected exchange, or 30 seconds without an answer.
ExchangeFails(c) ==
  /\ \/ c.phase = "failed"
     \/ c.phase = "answered" /\ c.gen # generation
     \/ c.phase = "waiting" /\ MicrotasksDone
  /\ c.who = "page"
  /\ Lost(calls \ {c})
  /\ UNCHANGED <<owner, issued, tasks, lock, workerVars>>

-----------------------------------------------------------------------------
\* Commands of the page.

Ready == state = "ready" /\ ~failure

\* Guards of startLease, renewLease, the possession proof and the other commands.
Allowed(cmd) ==
  CASE cmd = "start_lease" -> ~activeLease /\ possession # 0
    [] cmd = "renew_lease" -> activeLease
    [] cmd = "prove"       -> ~activeLease
    [] OTHER               -> TRUE

Command(cmd) ==
  /\ Ready /\ MicrotasksDone
  /\ Cardinality({c \in calls : c.who = "page"}) < MaxCommands
  /\ issued < 3 * MaxAdmissions + MaxCommands
  /\ pending = 0
  /\ Allowed(cmd)
  /\ generation' = generation
  /\ Exchange(cmd, "page", calls)
  /\ UNCHANGED <<state, failure, activeLease, possession, ack, channel, owner, beating, closing, tasks, owners,
                 lock, session, admitted, lease, reason, replies, proved, started>>

\* workerMiningStatusMatches, workerRestoredStatusMatches, challenge.verify
Postcondition(c) ==
  CASE c.cmd \in {"start_lease", "renew_lease"} -> c.result = "mining"
    [] c.cmd = "restore" -> c.result = "restored"
    [] c.cmd = "prove" -> c.result = "ok"
    [] OTHER -> c.result \in {"mining", "baseline"}

\* Fault: startLease trusts the answer and leaves the flag to the next status.
AppliedWithoutFlag(c) ==
  /\ activeLease' = (activeLease /\ c.cmd # "restore" /\ c.result # "baseline")
  /\ possession' = CASE c.cmd = "prove" -> c.session [] c.cmd = "restore" -> 0 [] OTHER -> possession

\* A baseline status ends the lease here too; start sets the flag after its awaits.
Applied(c) ==
  /\ activeLease' = (c.cmd = "start_lease" \/ (activeLease /\ c.cmd # "restore" /\ c.result # "baseline"))
  /\ possession' = CASE c.cmd = "prove" -> c.session [] c.cmd = "restore" -> 0 [] OTHER -> possession

\* The continuation of a command of the page.
Apply(c) ==
  /\ c.phase = "checked" /\ c.who = "page"
  /\ \/ /\ Postcondition(c)
        /\ calls' = calls \ {c}
        /\ Applied(c)
        /\ UNCHANGED <<state, generation, failure, ack, channel, beating, closing, pending, owners>>
     \/ ~Postcondition(c) /\ Lost(calls \ {c})
  /\ UNCHANGED <<owner, issued, tasks, lock, workerVars>>

-----------------------------------------------------------------------------
\* Admission.

At(t, stage) == t \in DOMAIN tasks /\ tasks[t].stage = stage
\* Fault: an admission does not ask whether it was replaced.
AlwaysCurrent(t) == TRUE

Current(t) == tasks[t].gen = generation
Stage(t, stage) == tasks' = [tasks EXCEPT ![t].stage = stage]

\* requestPermission: refused while an owner still holds its port.
RequestPermission ==
  /\ state \in {"unconnected", "closed"} /\ MicrotasksDone
  /\ owner # 0 => owners[owner].released
  /\ Len(tasks) < MaxAdmissions
  /\ state' = "admitting" /\ generation' = generation + 1 /\ failure' = FALSE
  /\ tasks' = Append(tasks, [gen |-> generation + 1, stage |-> "lock"])
  /\ UNCHANGED <<activeLease, possession, ack, channel, beating, closing, pending, owner, calls, issued, owners,
                 lock, workerVars>>

\* The catch block: the current admission cleans up, a stale one closes its own owner.
Fail(t, live) ==
  /\ Stage(t, "failed")
  /\ IF Current(t) THEN Cleanup(live) /\ UNCHANGED <<generation, failure>>
     ELSE /\ CloseOwner(IF tasks[t].stage = "lock" THEN 0 ELSE t)
          /\ calls' = live
          /\ UNCHANGED controlVars

\* Fault: the lock is requested in shared mode.
AcquireSharedLock(t) ==
  /\ At(t, "lock") /\ MicrotasksDone
  /\ lock' = t /\ owner' = t
  /\ Stage(t, "selection")
  /\ UNCHANGED <<controlVars, calls, owners, issued, workerVars>>

\* acquireLock with ifAvailable: the new owner replaces #maybeOwner even for a stale admission.
AcquireLock(t) ==
  /\ At(t, "lock") /\ MicrotasksDone
  /\ IF lock = 0
     THEN /\ lock' = t /\ owner' = t
          /\ Stage(t, "selection")
          /\ UNCHANGED <<controlVars, calls, owners>>
     ELSE Fail(t, calls) /\ UNCHANGED <<lock, owner>>
  /\ UNCHANGED <<issued, workerVars>>

\* The chooser and the device filter, then the continuity scope.
Selected(t) ==
  /\ \/ At(t, "selection") /\ Stage(t, "scope")
     \/ At(t, "scope") /\ ~owners[t].closing /\ Stage(t, "opening")
  /\ Current(t) /\ MicrotasksDone
  /\ owners' = IF At(t, "scope") THEN [owners EXCEPT ![t].opening = "pending"] ELSE owners
  /\ UNCHANGED <<controlVars, owner, calls, issued, lock, workerVars>>

\* The page refuses, hides, or its admission was replaced; an open takes over two
\* seconds or fails; the Hello is not answered.
AdmissionFails(t) ==
  /\ t \in DOMAIN tasks /\ tasks[t].stage \in {"selection", "scope", "opening", "hello"}
  /\ MicrotasksDone
  /\ Fail(t, calls)
  /\ UNCHANGED <<owner, issued, lock, workerVars>>

\* port.open settles, possibly long after its admission gave up.
NativeOpenSettles(o) ==
  /\ owners[o].opening = "pending"
  /\ \E r \in {"open", "failed"} : owners' = [owners EXCEPT ![o].opening = r]
  /\ UNCHANGED <<controlVars, owner, calls, issued, tasks, lock, workerVars>>

\* The channel is attached and the Hello written.
Opened(t) ==
  /\ At(t, "opening") /\ owners[t].opening = "open" /\ MicrotasksDone
  /\ Current(t) /\ ~owners[t].closing
  /\ channel' = t
  /\ Stage(t, "hello")
  /\ UNCHANGED <<state, generation, failure, activeLease, possession, ack, beating, closing, pending, owner, calls,
                 issued, owners, lock, workerVars>>

\* The Worker begins a session; what it sent in earlier ones is skipped.
HelloAcknowledged(t) ==
  /\ At(t, "hello") /\ Current(t) /\ channel = t
  /\ session' = session + 1 /\ admitted' = FALSE
  /\ wire' = <<>> /\ replies' = <<>>
  /\ ack' = session + 1
  /\ Stage(t, "discover")
  /\ UNCHANGED <<state, generation, failure, activeLease, possession, channel, beating, closing, pending, owner,
                 calls, issued, owners, lock, lease, reason, proved, started>>

AdmissionCall(t) == {c \in calls : c.who = "admission" /\ c.gen = tasks[t].gen}
Asks == [discover |-> "discover", prove |-> "prove", baseline |-> "status"]
After == [discover |-> "prove", prove |-> "baseline", baseline |-> "establish"]

\* discover, prove_possession and status, one after the other.
Ask(t) ==
  /\ t \in DOMAIN tasks /\ tasks[t].stage \in DOMAIN Asks
  /\ Current(t) /\ AdmissionCall(t) = {} /\ pending = 0
  /\ generation' = generation
  /\ Exchange(Asks[tasks[t].stage], "admission", calls)
  /\ UNCHANGED <<state, failure, activeLease, possession, ack, channel, beating, closing, owner, tasks, owners, lock,
                 session, admitted, lease, reason, replies, proved, started>>

\* The answer is good: the next stage; a proof installs possession and starts heartbeats.
Answered(t) ==
  /\ t \in DOMAIN tasks /\ tasks[t].stage \in DOMAIN Asks
  /\ \E c \in AdmissionCall(t) :
       /\ c.phase = "checked" /\ Current(t)
       /\ c.result = IF c.cmd = "status" THEN "baseline" ELSE "ok"
       /\ calls' = calls \ {c}
       /\ possession' = IF c.cmd = "prove" THEN c.session ELSE possession
       /\ beating' = (beating \/ c.cmd = "prove")
       /\ activeLease' = (activeLease /\ c.cmd # "status")
       /\ Stage(t, After[tasks[t].stage])
  /\ UNCHANGED <<state, generation, failure, ack, channel, closing, pending, owner, issued, owners, lock, workerVars>>

\* A failed exchange and a rejected status lose control first, so the admission finds
\* itself stale; any other bad answer fails the admission that is still current.  A good proof
\* is installed before the admission asks whether it still is.
AskFails(t) ==
  /\ t \in DOMAIN tasks /\ tasks[t].stage \in DOMAIN Asks
  /\ Stage(t, "failing")
  /\ \/ \E c \in AdmissionCall(t) :
          /\ \/ c.phase \in {"waiting", "failed"} \/ (c.phase = "answered" /\ c.gen # generation)
             \/ c.phase = "checked" /\ c.cmd = "status" /\ c.result = "rejected"
          /\ Lost(calls \ {c})
     \/ /\ \E c \in AdmissionCall(t) :
             /\ c.phase = "checked" /\ (~Current(t) \/ c.result \notin {"ok", "baseline"})
             /\ calls' = calls \ {c}
             /\ possession' = IF c.cmd = "prove" /\ c.result = "ok" THEN c.session ELSE possession
        /\ UNCHANGED <<state, generation, failure, activeLease, ack, channel, beating, closing, pending, owners>>
     \/ /\ AdmissionCall(t) = {} /\ ~Current(t)
        /\ UNCHANGED <<controlVars, owners, calls>>
  /\ UNCHANGED <<owner, issued, lock, workerVars>>

GiveUp(t) ==
  /\ At(t, "failing")
  /\ Fail(t, calls)
  /\ UNCHANGED <<owner, issued, lock, workerVars>>

\* continuity.establish
Establish(t) ==
  /\ At(t, "establish")
  /\ IF Current(t) /\ state = "admitting" /\ ~failure
     THEN state' = "ready" /\ Stage(t, "done")
     ELSE state' = state /\ Stage(t, "failing")
  /\ UNCHANGED <<generation, failure, activeLease, possession, ack, channel, beating, closing, pending, owner, calls,
                 issued, owners, lock, workerVars>>

-----------------------------------------------------------------------------
\* Closing.

CloseSession ==
  /\ closing' = "sending" /\ beating' = FALSE
  /\ wire' = Append(wire, [id |-> 0, cmd |-> "close", who |-> "close", session |-> ack])

\* close: an unfinished record or request means nothing more is said; otherwise an active
\* lease is restored first.
Close ==
  /\ state \in {"admitting", "ready"} /\ MicrotasksDone
  /\ generation' = generation + 1
  /\ UNCHANGED failure
  /\ \E unfinished \in IF beating THEN BOOLEAN ELSE {FALSE} :
       LET interrupted == unfinished \/ pending # 0 IN
       \/ /\ activeLease /\ ~interrupted /\ ack # 0
          /\ state' = "closing" /\ closing' = "restoring"
          /\ Exchange("restore", "close", calls)
          /\ UNCHANGED <<activeLease, possession, ack, channel, beating, owners>>
       \/ /\ ~activeLease /\ ~interrupted /\ ack # 0
          /\ state' = "closing"
          /\ CloseSession
          /\ UNCHANGED <<activeLease, possession, ack, channel, pending, calls, issued, owners>>
       \/ /\ interrupted \/ ack = 0
          /\ Cleanup(calls)
          /\ UNCHANGED <<issued, wire>>
  /\ UNCHANGED <<owner, tasks, lock, session, admitted, lease, reason, replies, proved, started>>

\* After the restore: goodbye, or straight to the cleanup when it failed.
Restored ==
  /\ closing = "restoring"
  /\ \E c \in calls :
       /\ c.who = "close"
       /\ \/ /\ c.phase = "checked" /\ c.result = "restored" /\ ~failure
             /\ calls' = calls \ {c}
             /\ CloseSession
             /\ activeLease' = FALSE /\ possession' = 0
             /\ UNCHANGED <<state, failure, ack, channel, pending, owners>>
          \/ /\ c.phase \in {"waiting", "failed"} \/ (c.phase = "checked" /\ (c.result # "restored" \/ failure))
             /\ Cleanup(calls \ {c}) /\ failure' = TRUE
             /\ UNCHANGED wire
  /\ UNCHANGED <<generation, owner, issued, tasks, lock, session, admitted, lease, reason, replies, proved, started>>

\* The goodbye was written or failed.
CloseSent ==
  /\ closing = "sending" /\ MicrotasksDone
  /\ Cleanup(calls)
  /\ UNCHANGED <<generation, failure, owner, issued, tasks, lock, workerVars>>

\* Fault: a native open that failed is never accounted for.
OpeningSettledOpen(o) == owners[o].opening \in {"none", "open"}

\* Fault: the owner does not wait for an open it no longer needs.
OpeningIgnored(o) == owners[o].opening # "stuck"

OpeningSettled(o) == owners[o].opening \in {"none", "open", "failed"}

\* WorkerSerialPortOwner.#finishClose: the port is closed, then the lock released.
OwnerCloses(o) ==
  /\ owners[o].closing /\ ~owners[o].released
  /\ OpeningSettled(o)
  /\ owners' = [owners EXCEPT ![o].released = TRUE, ![o].opening = IF @ = "open" THEN "none" ELSE @]
  /\ lock' = IF lock = o THEN 0 ELSE lock
  /\ UNCHANGED <<controlVars, owner, calls, issued, tasks, workerVars>>

\* port.close fails: the port stays with its owner, and the page must be reloaded.
OwnerStuck(o) ==
  /\ owners[o].closing /\ ~owners[o].released /\ owners[o].opening = "open"
  /\ owners' = [owners EXCEPT ![o].opening = "stuck"]
  /\ UNCHANGED <<controlVars, owner, calls, issued, tasks, lock, workerVars>>

-----------------------------------------------------------------------------
Commands == {"start_lease", "renew_lease", "status", "restore", "prove"}

AdmissionStep(t) ==
  \/ AcquireLock(t) \/ Selected(t) \/ AdmissionFails(t) \/ Opened(t) \/ HelloAcknowledged(t)
  \/ Ask(t) \/ Answered(t) \/ AskFails(t) \/ GiveUp(t) \/ Establish(t)

Next ==
  \/ RequestPermission \/ \E t \in Admissions : AdmissionStep(t)
  \/ \E o \in Admissions : NativeOpenSettles(o) \/ OwnerCloses(o) \/ OwnerStuck(o)
  \/ \E cmd \in Commands : Command(cmd)
  \/ \E c \in calls : Check(c) \/ ExchangeFails(c) \/ Apply(c)
  \/ Handle \/ LeaseEnds \/ Receive \/ LoseControl
  \/ Close \/ Restored \/ CloseSent

Spec == Init /\ [][Next]_vars

\* Native opens and closes settle, and a Worker without heartbeats ends its lease.
FairSpec ==
  /\ Spec
  /\ \A o \in Admissions : WF_vars(NativeOpenSettles(o)) /\ WF_vars(OwnerCloses(o))
  /\ WF_vars(LeaseEnds /\ ~beating)

-----------------------------------------------------------------------------
\* Properties.

\* Every field has its type; at most one request is pending, and it waits for its answer.
TypeOK ==
  /\ state \in {"unconnected", "admitting", "ready", "closing", "closed"}
  /\ closing \in {"none", "restoring", "sending"} /\ (closing # "none" => state = "closing")
  /\ \A t \in DOMAIN tasks : tasks[t].stage \in
       {"lock", "selection", "scope", "opening", "hello", "discover", "prove", "baseline", "establish", "failing",
        "failed", "done"}
  /\ {channel, owner, lock} \subseteq 0..MaxAdmissions
  /\ \A c \in calls : (c.phase = "waiting") = (c.id = pending)

\* A native port that is open, or may still become open, belongs to the holder of the
\* lock: two admissions never share the device, however late an open settles
\* (WorkerSerialPortOwner).
PortHasOneOwner ==
  \A o \in Admissions : owners[o].opening \in {"pending", "open", "stuck"} => lock = o

\* The channel in use is the lock holder's, and a stale admission that obtained the lock
\* late never replaced the owner of a live channel (requestPermission).
ChannelIsOwned ==
  channel # 0 /\ state \in {"admitting", "ready"} => owner = channel /\ lock = channel

\* A controller is ready only in a session whose Worker proved possession, not by what an
\* earlier admission left behind (admitWorkerSerialSession).
ReadyMeansProved == state = "ready" => ack = session /\ ack \in proved

\* The possession a ready controller holds is of its own session.  A proof that was verified
\* after its admission was given up is installed nevertheless, and refutes it (#prove).
PossessionIsCurrent == state = "ready" => possession \in {0, ack}

\* Between commands the controller knows of the Worker's lease, so a close restores it
\* (startLease, #statusRequest, #restoreCommand).
KnowsItsLease ==
  state = "ready" /\ lease /\ (\A c \in calls : c.gen # generation) /\ wire = <<>> /\ replies = <<>> => activeLease

\* A lease that the Worker ended by itself keeps its reason: close asks for a restore only
\* in a session that started a lease (#statusRequest).
CloseKeepsReason ==
  [][wire # <<>> /\ wire' = Tail(wire) /\ Head(wire).who = "close" /\ session \notin started => reason' = reason]_vars

\* The lock that must come free after a close, unless the native close itself fails, even when the
\* native open was still running (WorkerSerialPortOwner.#finishClose).
LockHeld == \E o \in Admissions : owners[o].closing /\ ~owners[o].released /\ owners[o].opening # "stuck"

\* A closed controller stops keeping the Worker's lease alive (#cleanup).
LeaseKept == state = "closed" /\ lease

\* What must come to an end.  Admissions are bounded, so that both do exactly when a state
\* without either always follows.
Waits == LockHeld \/ LeaseKept
=============================================================================
