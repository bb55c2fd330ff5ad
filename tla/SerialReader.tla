---------------------------- MODULE SerialReader ----------------------------
(***************************************************************************)
(* What the browser believes of a Worker's byte stream: WorkerSerialFramer *)
(* cuts it into lines, WorkerSerialHelloExchange waits for the answer to   *)
(* this Hello among the output of a retired session, WorkerSerialPeer      *)
(* judges what follows.  A line is its class and its length; any of them   *)
(* may come next, so the stream holds boot noise, a torn first line, old   *)
(* records and damaged ones.                                               *)
(***************************************************************************)
EXTENDS Naturals, Sequences

CONSTANTS
  WireBound,      \* MAXIMUM_SERIAL_WIRE_BYTES
  BacklogLimit,   \* 32 records of retired sessions
  PeerTimeout,    \* 2800 ms without a heartbeat
  MaxSequence, MaxTime  \* bounds of the instance

VARIABLES
  bootstrap, prefixDiscarded, discarded,  \* #framer
  waiting, ignored,                       \* #maybeWaiting of the Hello, #ignored of its backlog
  lastSequence, lastHeartbeat, revoked,   \* the peer, once the Hello was answered
  failed,                                 \* the reader threw
  now,
  accepted, garbled                       \* history: records taken as the Worker's, torn lines let pass

framerVars == <<bootstrap, prefixDiscarded, discarded>>
helloVars  == <<waiting, ignored>>
peerVars   == <<lastSequence, lastHeartbeat, revoked>>
vars == <<framerVars, helloVars, peerVars, failed, now, accepted, garbled>>

Init ==
  /\ bootstrap = TRUE /\ prefixDiscarded = FALSE /\ discarded = 0
  /\ waiting = TRUE /\ ignored = 0
  /\ lastSequence = 0 /\ lastHeartbeat = 0 /\ revoked = FALSE
  /\ failed = FALSE /\ now = 0
  /\ accepted = <<>> /\ garbled = 0

Lengths == 1..WireBound + 1

Stop == failed' = TRUE /\ UNCHANGED <<framerVars, helloVars, peerVars, now, accepted, garbled>>

\* #countBootstrapBytes, before the bound is tested.
Counted(n) == discarded' = discarded + n

\* Fault: bytes of discarded lines are not counted.
WithinUnbounded(n) == TRUE

WithinBootstrap(n) == discarded + n <= WireBound

\* A line that does not fit the buffer with its delimiter.
Oversized(n) ==
  /\ ~failed /\ n > WireBound
  /\ Stop

\* Text that opens no JSON object: startup output, or a diagnostic line.
Noise(n) ==
  /\ ~failed /\ n <= WireBound
  /\ IF bootstrap /\ ~WithinBootstrap(n) THEN Stop
     ELSE /\ IF bootstrap THEN Counted(n) ELSE UNCHANGED discarded
          /\ UNCHANGED <<bootstrap, prefixDiscarded, helloVars, peerVars, failed, now, accepted, garbled>>

\* Fault: every torn line of the bootstrap is let pass.
DiscardAnyPrefix == bootstrap

\* #discardBootstrapPrefix
DiscardBootstrapPrefix == bootstrap /\ ~prefixDiscarded

\* Bytes that are no UTF-8, or that begin an object and are no JSON: the reader may have
\* joined the stream in the middle of a line, once.
Garbled(n) ==
  /\ ~failed /\ n <= WireBound
  /\ IF DiscardBootstrapPrefix /\ WithinBootstrap(n)
     THEN /\ Counted(n) /\ prefixDiscarded' = TRUE /\ garbled' = garbled + 1
          /\ UNCHANGED <<bootstrap, helloVars, peerVars, failed, now, accepted>>
     ELSE Stop

\* parseWorkerSerialJson: JSON with a duplicate key or a lone surrogate.
BadJson(n) == ~failed /\ n <= WireBound /\ Stop

\* parseWorkerSerialEnvelope: another profile, a wrong digest or length, a payload over
\* its bound.
BadEnvelope(n) == ~failed /\ n <= WireBound /\ Stop

\* The peer has gone silent, or time went back.
Expired(t) == t - lastHeartbeat >= PeerTimeout

\* The acknowledgement of this Hello installs the peer and ends the bootstrap in one task.
Acknowledge(n) ==
  /\ ~failed /\ n <= WireBound
  /\ IF waiting
     THEN /\ waiting' = FALSE /\ bootstrap' = FALSE
          /\ UNCHANGED <<prefixDiscarded, discarded, ignored, peerVars, failed, now, accepted, garbled>>
     ELSE /\ revoked' = TRUE /\ failed' = TRUE
          /\ UNCHANGED <<framerVars, helloVars, lastSequence, lastHeartbeat, now, accepted, garbled>>

\* Fault: a record of an old session that arrives after the acknowledgement is skipped
\* as the backlog is.
BelongsToAny(r) == r.seq > lastSequence

BelongsToPeer(r) == r.fresh /\ r.seq > lastSequence

\* Fault: any record proves that the Worker is alive.
RefreshedByAny(r) == now

\* Only a heartbeat moves the deadline.
Refreshed(r) == IF r.heartbeat THEN now ELSE lastHeartbeat

\* A well-formed record: backlog while the Hello waits, otherwise judged by the peer.
Record(n, r) ==
  /\ ~failed /\ n <= WireBound
  /\ \/ /\ waiting /\ ignored < BacklogLimit /\ WithinBootstrap(n)
        /\ ignored' = ignored + 1 /\ Counted(n)
        /\ UNCHANGED <<bootstrap, prefixDiscarded, waiting, peerVars, failed, accepted, garbled>>
     \/ /\ ~waiting /\ ~revoked /\ ~Expired(now) /\ BelongsToPeer(r)
        /\ lastSequence' = r.seq
        /\ lastHeartbeat' = Refreshed(r)
        /\ accepted' = Append(accepted, [fresh |-> r.fresh, seq |-> r.seq, heartbeat |-> r.heartbeat, at |-> now])
        /\ UNCHANGED <<framerVars, helloVars, revoked, failed, garbled>>
     \/ /\ \/ waiting /\ (ignored >= BacklogLimit \/ ~WithinBootstrap(n))
           \/ ~waiting /\ (revoked \/ Expired(now) \/ ~BelongsToPeer(r))
        /\ failed' = TRUE /\ revoked' = (revoked \/ ~waiting)
        /\ UNCHANGED <<framerVars, helloVars, lastSequence, lastHeartbeat, accepted, garbled>>
  /\ UNCHANGED now

\* #tick of the controller asks the peer whether it expired; the Hello has the same
\* 2800 ms as its own deadline.
Tick ==
  /\ now < MaxTime /\ ~failed
  /\ now' = now + 1
  /\ revoked' = (revoked \/ Expired(now + 1))
  /\ failed' = revoked'
  /\ UNCHANGED <<framerVars, helloVars, lastSequence, lastHeartbeat, accepted, garbled>>

Next ==
  \/ \E n \in Lengths :
       \/ Oversized(n) \/ Noise(n) \/ Garbled(n) \/ BadJson(n) \/ BadEnvelope(n) \/ Acknowledge(n)
       \/ \E r \in [fresh : BOOLEAN, seq : 1..MaxSequence, heartbeat : BOOLEAN] : Record(n, r)
  \/ Tick

Spec == Init /\ [][Next]_vars

-----------------------------------------------------------------------------
\* Properties.

\* Every field has its type (WorkerSerialFramer, WorkerSerialPeer).
TypeOK ==
  /\ {bootstrap, prefixDiscarded, waiting, revoked, failed} \subseteq BOOLEAN
  /\ discarded \in Nat /\ ignored \in 0..BacklogLimit
  /\ lastSequence \in 0..MaxSequence /\ lastHeartbeat \in 0..now
  /\ bootstrap = waiting

\* However long a Worker talks before it answers, the reader gives up at its bound:
\* noise, a torn line and backlog share one budget.
BootstrapBounded == discarded <= WireBound

\* One torn line is let pass, and none once the session began: a record damaged in the
\* session always ends it.
OneTornLine == garbled <= 1

\* Everything accepted is of this session, in strictly rising sequence.
AcceptedInOrder ==
  /\ \A i \in DOMAIN accepted : accepted[i].fresh
  /\ \A i \in 1..Len(accepted) - 1 : accepted[i].seq < accepted[i + 1].seq

\* A record is accepted only within the timeout of the last heartbeat before it: busy
\* traffic does not replace heartbeats.
HeartbeatGoverns ==
  \A i \in DOMAIN accepted :
    accepted[i].at >= PeerTimeout =>
      \E j \in 1..i - 1 : accepted[j].heartbeat /\ accepted[i].at - accepted[j].at < PeerTimeout
=============================================================================
