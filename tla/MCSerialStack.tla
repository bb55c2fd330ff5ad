--------------------------- MODULE MCSerialStack ---------------------------
(***************************************************************************)
(* The browser's serial stack on small instances, its parts side by side:  *)
(* the writing channel, the reader, the restart observer, the controller   *)
(* and the headless client above it.  Each behaviour moves one of them,    *)
(* named by part, and leaves the others in their first state, so that the  *)
(* reachable states are the disjoint union of those of the parts and a     *)
(* property of one part says of it what it says in its own module.         *)
(***************************************************************************)
EXTENDS Integers, Sequences

CONSTANTS None, Sizes, Window, ChunkBytes, QueueLimit, SequenceLimit, CounterLimit, ChannelBacklog, MaxRecords, MaxSessions
CONSTANTS WireBound, BacklogLimit, PeerTimeout, MaxSequence, MaxTime
CONSTANTS Deadline, RecordLimit, MaxUptime, MaxRuns
CONSTANTS MaxAdmissions, MaxCommands
CONSTANTS LeaseLimit, CallLimit, FailureLimit, CancelLimit

\* Every bound is a natural number.  A record has at least one byte, and None is no record.
ASSUME ChannelConstants ==
  /\ {Window, QueueLimit, SequenceLimit, CounterLimit, ChannelBacklog, MaxRecords, MaxSessions} \subseteq Nat
  /\ ChunkBytes \in Nat \ {0} /\ Sizes \subseteq Nat \ {0}
  /\ None \notin [id : Nat, kind : {"control", "heartbeat", "hello"}, left : Nat, seq : Nat]
ASSUME ReaderConstants == {WireBound, BacklogLimit, PeerTimeout, MaxSequence, MaxTime} \subseteq Nat
ASSUME RestartConstants == {Deadline, RecordLimit, MaxUptime, MaxRuns} \subseteq Nat
ASSUME ControlConstants == {MaxAdmissions, MaxCommands} \subseteq Nat

VARIABLES
  part,
  queue, active, unfinished, sequence, sent, received, credit, channelFailed, closed, greeting, skipped,
  channelSession, outcome, channelIssued, channelWire, drained, hearing, inbox, channelConsumed,
  bootstrap, prefixDiscarded, discarded, waiting, ignored, lastSequence, lastHeartbeat, revoked,
  readerFailed, now, accepted, garbled,
  at, restartConsumed, stage, error, ackMatched, bootMode, boot, identity, samples, uptime, statsRequired,
  statsActive, restartAdmitted, ready, ended, interrupted, reopens, records, elapsed, restartSession, prior,
  restartControl, commands, seen,
  state, controlGeneration, failure, activeLease, possession, ack, channel, owner, beating, closing, pending,
  controlCalls, controlIssued, tasks, owners, lock, controlSession, controlAdmitted, controlLease, reason,
  controlWire, replies, proved, started,
  challenge, clientControl, receipt, clientGeneration, binding, stored, clientCalls, listening, connected,
  aState, aSession, aLease, events, clientLease, fresh, failures

Channel == INSTANCE SerialChannel WITH BacklogLimit <- ChannelBacklog, failed <- channelFailed,
  session <- channelSession, issued <- channelIssued, wire <- channelWire, consumed <- channelConsumed
Reader == INSTANCE SerialReader WITH failed <- readerFailed
Restart == INSTANCE SerialRestart WITH consumed <- restartConsumed, admitted <- restartAdmitted,
  session <- restartSession, control <- restartControl
Control == INSTANCE SerialController WITH generation <- controlGeneration, calls <- controlCalls,
  issued <- controlIssued, session <- controlSession, admitted <- controlAdmitted, lease <- controlLease,
  wire <- controlWire
Client == INSTANCE HeadlessClient WITH control <- clientControl, generation <- clientGeneration,
  calls <- clientCalls, lease <- clientLease

channelVars ==
  <<queue, active, unfinished, sequence, sent, received, credit, channelFailed, closed, greeting, skipped,
    channelSession, outcome, channelIssued, channelWire, drained, hearing, inbox, channelConsumed>>
readerVars ==
  <<bootstrap, prefixDiscarded, discarded, waiting, ignored, lastSequence, lastHeartbeat, revoked,
    readerFailed, now, accepted, garbled>>
restartVars ==
  <<at, restartConsumed, stage, error, ackMatched, bootMode, boot, identity, samples, uptime, statsRequired,
    statsActive, restartAdmitted, ready, ended, interrupted, reopens, records, elapsed, restartSession, prior,
    restartControl, commands, seen>>
controlVars ==
  <<state, controlGeneration, failure, activeLease, possession, ack, channel, owner, beating, closing,
    pending, controlCalls, controlIssued, tasks, owners, lock, controlSession, controlAdmitted, controlLease,
    reason, controlWire, replies, proved, started>>
clientVars ==
  <<challenge, clientControl, receipt, clientGeneration, binding, stored, clientCalls, listening, connected,
    aState, aSession, aLease, events, clientLease, fresh, failures>>
vars == <<part, channelVars, readerVars, restartVars, controlVars, clientVars>>

\* A client that does not move is one that has just been created for a new challenge.
Init ==
  /\ part \in {"channel", "reader", "restart", "control", "client"}
  /\ Channel!Init /\ Reader!Init /\ Restart!Init /\ Control!Init /\ Client!Init
  /\ part # "client" => challenge = "issued" /\ ~stored

ChannelMoves == part = "channel" /\ Channel!Next /\ UNCHANGED <<part, readerVars, restartVars, controlVars, clientVars>>
ReaderMoves == part = "reader" /\ Reader!Next /\ UNCHANGED <<part, channelVars, restartVars, controlVars, clientVars>>
RestartMoves == part = "restart" /\ Restart!Next /\ UNCHANGED <<part, channelVars, readerVars, controlVars, clientVars>>
ControlMoves == part = "control" /\ Control!Next /\ UNCHANGED <<part, channelVars, readerVars, restartVars, clientVars>>
ClientMoves == part = "client" /\ Client!Next /\ UNCHANGED <<part, channelVars, readerVars, restartVars, controlVars>>

Next == ChannelMoves \/ ReaderMoves \/ RestartMoves \/ ControlMoves \/ ClientMoves

Spec == Init /\ [][Next]_vars

\* The fairness each part's own module states.
ChannelFairness ==
  /\ WF_channelVars(part = "channel" /\ (Channel!FinishRecord \/ Channel!RecordFails))
  /\ WF_channelVars(part = "channel" /\ Channel!SequenceExhausted)
RestartFairness ==
  WF_restartVars(part = "restart" /\ Restart!Tick) /\ WF_restartVars(part = "restart" /\ Restart!TimesOut)
ControlFairness ==
  /\ \A o \in 1..MaxAdmissions :
       /\ WF_controlVars(part = "control" /\ Control!NativeOpenSettles(o))
       /\ WF_controlVars(part = "control" /\ Control!OwnerCloses(o))
  /\ WF_controlVars(part = "control" /\ Control!LeaseEnds /\ ~beating)
ClientFairness ==
  /\ WF_clientVars(part = "client" /\ \E ok \in BOOLEAN : Client!Verified(ok))
  /\ WF_clientVars(part = "client" /\ Client!Recorded)
  /\ \A c \in {"grant", "cancel"} : WF_clientVars(part = "client" /\ Client!Cleared(c))
  /\ \A c \in {"grant", "start", "pause", "resume", "cancel", "renew", "close", "event", "lost"} :
       /\ WF_clientVars(part = "client" /\ \E b \in BOOLEAN : Client!Serve(c, b))
       /\ WF_clientVars(part = "client" /\ \E b \in BOOLEAN : Client!Answer(c, b))
  /\ \A c \in {"start", "resume", "renew"} : WF_clientVars(part = "client" /\ Client!Granted(c))
  /\ \A c \in {"grant", "start", "pause", "resume", "cancel", "renew", "close", "event"} :
       WF_clientVars(part = "client" /\ Client!Stopped(c))
  /\ WF_clientVars(part = "client" /\ Client!Lost) /\ WF_clientVars(part = "client" /\ Client!Restored)
  /\ WF_clientVars(part = "client" /\ Client!Release) /\ WF_clientVars(part = "client" /\ Client!Age)
  /\ WF_clientVars(part = "client" /\ Client!EndLease)

FairSpec == Spec /\ ChannelFairness /\ RestartFairness /\ ControlFairness /\ ClientFairness

-----------------------------------------------------------------------------
\* Properties.

\* WorkerSerialChannel (worker-serial-port.ts): its bytes never exceed the Worker's receive
\* window, a send that resolved was consumed whole, a record's bytes are never mixed with
\* another's, a heartbeat is never queued behind control records, and a channel that failed
\* or closed writes nothing more; all of it across lost, late and repeated credits.
ChannelSound ==
  /\ [](Channel!TypeOK /\ Channel!WindowRespected /\ Channel!SentMeansConsumed)
  /\ [](Channel!RecordsStayWhole /\ Channel!HeartbeatsFirst)
  /\ Channel!SilentAfterFailure

\* WorkerSerialFramer, WorkerSerialHelloExchange and WorkerSerialPeer (worker-serial.ts):
\* what is discarded before the Hello is bounded, at most one torn line is forgiven,
\* envelopes are accepted with rising sequences, gaps included, and only a fresh heartbeat
\* extends the time the peer is trusted for.
ReaderSound ==
  Reader!TypeOK /\ Reader!BootstrapBounded /\ Reader!OneTornLine /\ Reader!AcceptedInOrder /\ Reader!HeartbeatGoverns

\* WorkerSerialRestartObserver (worker-serial-restart-observer.ts): a restart is reported
\* complete only on evidence seen after its acknowledgement, the next boot and two signs of
\* life after it, and the firmware's identity, which may be of the boot before; the session
\* that follows is a new one, and one controller restarts its Worker at most once.
RestartSound == Restart!TypeOK /\ Restart!CompletionIsEarned /\ Restart!FreshSession /\ Restart!RestartedOnce

\* WebSerialWorkerController (worker-serial-controller-runtime.ts): however locks, choosers,
\* native opens, answers, losses and closes interleave, one owner holds the port, the
\* channel in use is the current owner's, a ready controller has proved possession on this
\* very session, and it knows of the lease its Worker runs.
ControllerSound ==
  Control!TypeOK /\ Control!PortHasOneOwner /\ Control!ChannelIsOwned /\ Control!ReadyMeansProved /\ Control!KnowsItsLease

\* Nothing waits for ever: every send settles, a closed controller frees its lock and its
\* Worker, a restart run ends by its deadline, a function of the client returns, and the
\* Worker of an ended challenge goes back to its baseline.
Waits == Channel!Waits \/ Control!Waits \/ Restart!Waits \/ Client!Waits
EveryWaitEnds == Waits ~> ~Waits
=============================================================================
