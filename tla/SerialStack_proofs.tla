------------------------- MODULE SerialStack_proofs -------------------------
(***************************************************************************)
(* Proofs about the browser's serial stack, part by part: the reader, the  *)
(* restart observer, the controller and the writing channel, for every     *)
(* bound that the assumptions of MCSerialStack admit.                      *)
(***************************************************************************)
EXTENDS MCSerialStack, FiniteSums, SequenceTheorems, TLAPS

-----------------------------------------------------------------------------
\* The reader.

Accepted == [fresh : BOOLEAN, seq : Nat, heartbeat : BOOLEAN, at : Nat]

\* What the reader has accepted: records of this session whose sequences rise up to the
\* last one, each within the timeout of a heartbeat before it.
AcceptedShape ==
  /\ accepted \in Seq(Accepted)
  /\ Reader!AcceptedInOrder
  /\ Reader!HeartbeatGoverns
  /\ \A i \in DOMAIN accepted : accepted[i].seq <= lastSequence

\* The last heartbeat is the time of an accepted one, or the start.
HeartbeatShape ==
  lastHeartbeat = 0 \/ \E j \in DOMAIN accepted : accepted[j].heartbeat /\ accepted[j].at = lastHeartbeat

\* The flags of the reader.
ReaderFlags ==
  /\ {bootstrap, prefixDiscarded, waiting, revoked, readerFailed} \subseteq BOOLEAN
  /\ bootstrap = waiting

\* The counters of the reader; the torn line that was let pass is remembered.
ReaderCounters ==
  /\ discarded \in 0..WireBound /\ ignored \in 0..BacklogLimit
  /\ lastSequence \in 0..MaxSequence /\ now \in Nat /\ lastHeartbeat \in 0..now
  /\ garbled = (IF prefixDiscarded THEN 1 ELSE 0)

\* The inductive invariant of the reader.
ReaderInv == ReaderFlags /\ ReaderCounters /\ AcceptedShape /\ HeartbeatShape

\* A reader that has read nothing.
LEMMA ReaderStarts == Reader!Init => ReaderInv
<1> SUFFICES ASSUME Reader!Init PROVE ReaderInv
  OBVIOUS
<1> USE ReaderConstants DEF Reader!Init
<1>0. ReaderFlags
  BY Zenon DEF ReaderFlags
<1>1. ReaderCounters
  BY DEF ReaderCounters
<1>2. accepted \in Seq(Accepted) /\ DOMAIN accepted = {} /\ Len(accepted) = 0
  OBVIOUS
<1>3. AcceptedShape /\ HeartbeatShape
  BY <1>2 DEF AcceptedShape, Reader!AcceptedInOrder, Reader!HeartbeatGoverns, HeartbeatShape
<1>4. QED
  BY <1>0, <1>1, <1>3 DEF ReaderInv

\* A step that accepts nothing keeps the accepted records and the heartbeat.
LEMMA ReaderKeeps ==
  ASSUME ReaderInv, UNCHANGED <<accepted, lastSequence, lastHeartbeat>>
  PROVE  AcceptedShape' /\ HeartbeatShape'
BY DEF ReaderInv, AcceptedShape, HeartbeatShape, Reader!AcceptedInOrder, Reader!HeartbeatGoverns

\* Whatever line comes, short of an accepted record, the reader's fields stay in bounds.
LEMMA ReaderLine ==
  ASSUME ReaderInv, NEW n \in Reader!Lengths,
         \/ Reader!Oversized(n) \/ Reader!Noise(n) \/ Reader!Garbled(n) \/ Reader!BadJson(n)
         \/ Reader!BadEnvelope(n) \/ Reader!Acknowledge(n)
  PROVE  ReaderInv'
<1> USE DEF Reader!framerVars, Reader!helloVars, Reader!peerVars
<1>1. UNCHANGED <<accepted, lastSequence, lastHeartbeat, now>>
  BY DEF Reader!Oversized, Reader!Noise, Reader!Garbled, Reader!BadJson, Reader!BadEnvelope,
     Reader!Acknowledge, Reader!Stop
<1>2. n \in Nat
  BY ReaderConstants DEF Reader!Lengths
<1>3. ReaderFlags'
  BY Zenon
     DEF ReaderInv, ReaderFlags, Reader!Oversized, Reader!Noise, Reader!Garbled, Reader!BadJson,
     Reader!BadEnvelope, Reader!Acknowledge, Reader!Stop, Reader!DiscardBootstrapPrefix
<1>4. ReaderCounters'
  BY <1>2, ReaderConstants
     DEF ReaderInv, ReaderCounters, Reader!Oversized, Reader!Noise, Reader!Garbled, Reader!BadJson,
     Reader!BadEnvelope, Reader!Acknowledge, Reader!Stop, Reader!WithinBootstrap, Reader!Counted,
     Reader!DiscardBootstrapPrefix
<1>5. QED
  BY <1>1, <1>3, <1>4, ReaderKeeps DEF ReaderInv

\* An accepted record goes to the end: its sequence is above all before it, and the
\* heartbeat that covers it was accepted before it.
LEMMA ReaderAccepts ==
  ASSUME ReaderInv, NEW r \in [fresh : BOOLEAN, seq : 1..MaxSequence, heartbeat : BOOLEAN],
         ~Reader!Expired(now), Reader!BelongsToPeer(r),
         lastSequence' = r.seq, lastHeartbeat' = Reader!Refreshed(r), now' = now,
         accepted' = Append(accepted, [fresh |-> r.fresh, seq |-> r.seq, heartbeat |-> r.heartbeat, at |-> now])
  PROVE  AcceptedShape' /\ HeartbeatShape' /\ lastSequence' \in 0..MaxSequence /\ lastHeartbeat' \in 0..now'
<1> USE ReaderConstants
<1> DEFINE x == [fresh |-> r.fresh, seq |-> r.seq, heartbeat |-> r.heartbeat, at |-> now]
           k == Len(accepted)
<1>0. r.fresh /\ r.fresh \in BOOLEAN /\ r.heartbeat \in BOOLEAN /\ r.seq \in 1..MaxSequence
  BY DEF Reader!BelongsToPeer
<1>1. /\ r.seq \in Nat /\ r.seq > lastSequence /\ r.seq <= MaxSequence
      /\ now \in Nat /\ lastHeartbeat \in 0..now /\ lastSequence \in Nat /\ now - lastHeartbeat < PeerTimeout
  <2>1. now \in Nat /\ lastHeartbeat \in 0..now /\ lastSequence \in 0..MaxSequence
    BY DEF ReaderInv, ReaderCounters
  <2>2. ~(now - lastHeartbeat >= PeerTimeout) /\ r.seq > lastSequence
    BY DEF Reader!Expired, Reader!BelongsToPeer
  <2>3. QED
    BY <1>0, <2>1, <2>2
<1>2. x \in Accepted /\ x.fresh /\ x.seq = r.seq /\ x.at = now /\ x.heartbeat = r.heartbeat
  BY <1>0, <1>1 DEF Accepted
<1>3. accepted \in Seq(Accepted) /\ k \in Nat /\ accepted' = Append(accepted, x)
  BY DEF ReaderInv, AcceptedShape
<1> HIDE DEF x
<1>4. /\ accepted' \in Seq(Accepted) /\ Len(accepted') = k + 1 /\ accepted'[k + 1] = x
      /\ DOMAIN accepted' = 1..k + 1 /\ DOMAIN accepted = 1..k
      /\ \A i \in 1..k : accepted'[i] = accepted[i]
  BY <1>2, <1>3
<1> HIDE DEF k
<1>5. \A i \in 1..k : accepted[i] \in Accepted /\ accepted[i].fresh /\ accepted[i].seq <= lastSequence
  <2>1. \A i \in 1..k : accepted[i] \in Accepted
    BY <1>3, <1>4
  <2>2. \A i \in 1..k : accepted[i].fresh
    BY <1>4, Zenon DEF ReaderInv, AcceptedShape, Reader!AcceptedInOrder
  <2>3. \A i \in 1..k : accepted[i].seq <= lastSequence
    BY <1>4, Zenon DEF ReaderInv, AcceptedShape
  <2>4. QED
    BY <2>1, <2>2, <2>3, Zenon
<1>6. \A i \in 1..k : accepted[i].seq \in Nat /\ accepted[i].at \in Nat
  BY <1>5 DEF Accepted
<1>7. Reader!AcceptedInOrder'
  <2>1. \A i \in DOMAIN accepted' : accepted'[i].fresh
    BY <1>2, <1>3, <1>4, <1>5
  <2>2. \A i \in 1..k - 1 : accepted[i].seq < accepted[i + 1].seq
    BY <1>3, <1>4 DEF ReaderInv, AcceptedShape, Reader!AcceptedInOrder, k
  <2>3. ASSUME NEW i \in 1..Len(accepted') - 1
        PROVE  accepted'[i].seq < accepted'[i + 1].seq
    <3>1. CASE i = k
      BY <1>1, <1>2, <1>3, <1>4, <1>5, <1>6, <3>1
    <3>2. CASE i # k
      <4>1. i \in 1..k - 1 /\ i \in 1..k /\ i + 1 \in 1..k
        BY <1>3, <1>4, <3>2
      <4>2. QED
        BY <1>4, <2>2, <4>1
    <3>3. QED
      BY <3>1, <3>2
  <2>4. QED
    BY <2>1, <2>3 DEF Reader!AcceptedInOrder
<1>8. \A i \in DOMAIN accepted' : accepted'[i].seq <= lastSequence'
  BY <1>1, <1>2, <1>3, <1>4, <1>5, <1>6
<1>9. Reader!HeartbeatGoverns'
  <2> SUFFICES ASSUME NEW i \in 1..k + 1, accepted'[i].at >= PeerTimeout
               PROVE  \E j \in 1..i - 1 : accepted'[j].heartbeat /\ accepted'[i].at - accepted'[j].at < PeerTimeout
    BY <1>4 DEF Reader!HeartbeatGoverns
  <2>1. CASE i = k + 1
    <3>1. now >= PeerTimeout /\ accepted'[i].at = now
      BY <1>2, <1>4, <2>1
    <3>2. lastHeartbeat # 0
      BY <1>1, <3>1
    <3>3. PICK j \in 1..k : accepted[j].heartbeat /\ accepted[j].at = lastHeartbeat
      BY <1>4, <3>2 DEF ReaderInv, HeartbeatShape
    <3>4. j \in 1..i - 1 /\ accepted'[j].heartbeat /\ accepted'[i].at - accepted'[j].at < PeerTimeout
      BY <1>1, <1>3, <1>4, <2>1, <3>1, <3>3
    <3>5. QED
      BY <3>4
  <2>2. CASE i # k + 1
    <3>1. i \in 1..k
      BY <1>3, <2>2
    <3>2. PICK j \in 1..i - 1 : accepted[j].heartbeat /\ accepted[i].at - accepted[j].at < PeerTimeout
      BY <1>4, <3>1 DEF ReaderInv, AcceptedShape, Reader!HeartbeatGoverns
    <3>3. j \in 1..k
      BY <1>3, <3>1
    <3>4. QED
      BY <1>4, <3>1, <3>2, <3>3
  <2>3. QED
    BY <2>1, <2>2
<1>10. HeartbeatShape'
  <2>1. CASE r.heartbeat
    <3>1. k + 1 \in DOMAIN accepted' /\ accepted'[k + 1].heartbeat /\ accepted'[k + 1].at = lastHeartbeat'
      BY <1>2, <1>3, <1>4, <2>1 DEF Reader!Refreshed
    <3>2. QED
      BY <3>1 DEF HeartbeatShape
  <2>2. CASE ~r.heartbeat
    <3>1. lastHeartbeat' = lastHeartbeat
      BY <2>2 DEF Reader!Refreshed
    <3>2. ASSUME NEW j \in DOMAIN accepted, accepted[j].heartbeat, accepted[j].at = lastHeartbeat
          PROVE  j \in DOMAIN accepted' /\ accepted'[j].heartbeat /\ accepted'[j].at = lastHeartbeat'
      BY <1>3, <1>4, <3>1, <3>2
    <3>3. QED
      BY <3>1, <3>2 DEF ReaderInv, HeartbeatShape
  <2>3. QED
    BY <2>1, <2>2
<1>11. lastSequence' \in 0..MaxSequence /\ lastHeartbeat' \in 0..now'
  BY <1>1 DEF Reader!Refreshed
<1>12. QED
  BY <1>4, <1>7, <1>8, <1>9, <1>10, <1>11 DEF AcceptedShape

\* A well-formed record is backlog, accepted, or the end of the session.
LEMMA ReaderRecord ==
  ASSUME ReaderInv, NEW n \in Reader!Lengths,
         NEW r \in [fresh : BOOLEAN, seq : 1..MaxSequence, heartbeat : BOOLEAN], Reader!Record(n, r)
  PROVE  ReaderInv'
<1> USE DEF Reader!framerVars, Reader!helloVars, Reader!peerVars
<1>1. n \in Nat
  BY ReaderConstants DEF Reader!Lengths
<1>2. ReaderFlags'
  BY Zenon DEF ReaderInv, ReaderFlags, Reader!Record
<1>3. CASE /\ waiting /\ ignored < BacklogLimit /\ Reader!WithinBootstrap(n)
           /\ ignored' = ignored + 1 /\ Reader!Counted(n)
           /\ UNCHANGED <<prefixDiscarded, lastSequence, lastHeartbeat, accepted, garbled, now>>
  <2>1. ReaderCounters'
    BY <1>1, <1>3, ReaderConstants DEF ReaderInv, ReaderCounters, Reader!WithinBootstrap, Reader!Counted
  <2>2. QED
    BY <1>2, <1>3, <2>1, ReaderKeeps DEF ReaderInv
<1>4. CASE UNCHANGED <<prefixDiscarded, discarded, ignored, lastSequence, lastHeartbeat, accepted, garbled, now>>
  BY <1>2, <1>4, ReaderKeeps DEF ReaderInv, ReaderCounters
<1>5. CASE /\ ~Reader!Expired(now) /\ Reader!BelongsToPeer(r)
           /\ lastSequence' = r.seq /\ lastHeartbeat' = Reader!Refreshed(r)
           /\ accepted' = Append(accepted, [fresh |-> r.fresh, seq |-> r.seq, heartbeat |-> r.heartbeat, at |-> now])
           /\ UNCHANGED <<prefixDiscarded, discarded, ignored, garbled, now>>
  <2>1. AcceptedShape' /\ HeartbeatShape' /\ lastSequence' \in 0..MaxSequence /\ lastHeartbeat' \in 0..now'
    BY <1>5, ReaderAccepts
  <2>2. ReaderCounters'
    BY <1>5, <2>1 DEF ReaderInv, ReaderCounters
  <2>3. QED
    BY <1>2, <2>1, <2>2 DEF ReaderInv
<1>6. QED
  BY <1>3, <1>4, <1>5 DEF Reader!Record

\* Time keeps the last heartbeat in the past.
LEMMA ReaderTick ==
  ASSUME ReaderInv, Reader!Tick
  PROVE  ReaderInv'
<1> USE DEF Reader!Tick, Reader!framerVars, Reader!helloVars
<1>1. ReaderFlags'
  BY Zenon DEF ReaderInv, ReaderFlags
<1>2. ReaderCounters'
  BY DEF ReaderInv, ReaderCounters
<1>3. QED
  BY <1>1, <1>2, ReaderKeeps DEF ReaderInv

\* The reader gives up within its bound, forgives one torn line, accepts in order and only
\* while heartbeats come, for every bound and every stream of lines.
THEOREM ReaderSoundness == Spec => []ReaderSound
<1>1. Init => ReaderInv
  BY ReaderStarts DEF Init
<1>2. ASSUME ReaderInv, [Next]_vars
      PROVE  ReaderInv'
  <2>1. CASE UNCHANGED readerVars
    <3>1. UNCHANGED <<accepted, lastSequence, lastHeartbeat>>
      BY <2>1 DEF readerVars
    <3>2. ReaderFlags' /\ ReaderCounters'
      BY <1>2, <2>1 DEF readerVars, ReaderInv, ReaderFlags, ReaderCounters
    <3>3. QED
      BY <1>2, <3>1, <3>2, ReaderKeeps DEF ReaderInv
  <2>2. CASE Reader!Next
    BY <1>2, <2>2, ReaderLine, ReaderRecord, ReaderTick DEF Reader!Next
  <2>3. QED
    BY <1>2, <2>1, <2>2
       DEF Next, ChannelMoves, ReaderMoves, RestartMoves, ControlMoves, ClientMoves, vars
<1>3. ReaderInv => ReaderSound
  <2> SUFFICES ASSUME ReaderInv PROVE ReaderSound
    OBVIOUS
  <2>1. Reader!BootstrapBounded /\ Reader!OneTornLine
    BY ReaderConstants DEF ReaderInv, ReaderCounters, Reader!BootstrapBounded, Reader!OneTornLine
  <2>2. discarded \in Nat
    BY DEF ReaderInv, ReaderCounters
  <2>3. Reader!TypeOK
    BY <2>2, Zenon DEF ReaderInv, ReaderFlags, ReaderCounters, Reader!TypeOK
  <2>4. QED
    BY <2>1, <2>3 DEF ReaderInv, AcceptedShape, ReaderSound
<1>4. QED
  BY <1>1, <1>2, <1>3, PTL DEF Spec

-----------------------------------------------------------------------------
\* The restart observer.

\* Each field of the observer and of the run has its type.
RestartTypes ==
  /\ at \in {"idle", "prepare", "freeze", "request", "boot", "admission"}
  /\ stage \in {"none", "armed", "acknowledged", "reacquiring", "complete", "failed"}
  /\ samples \in 0..2 /\ uptime \in 0..MaxUptime
  /\ reopens \in 0..1 /\ records \in 0..RecordLimit /\ elapsed \in 0..Deadline
  /\ restartControl \in {"ready", "restarting", "admitting", "closed"}
  /\ restartSession \in Nat /\ prior \in Nat /\ commands \in 0..1
  /\ seen \in Seq(Restart!Lines)

\* The run, the observer and the controller move together; the one command is sent
\* between freezing and the acknowledgement, and a complete observation is complete.
RestartPhases ==
  /\ stage = "failed" <=> restartControl = "closed"
  /\ at = "idle" <=> stage \in {"none", "complete", "failed"}
  /\ at \in {"prepare", "freeze", "request"} => stage = "armed"
  /\ at = "boot" => stage = "acknowledged"
  /\ at = "admission" => stage = "reacquiring"
  /\ stage \in {"none", "armed"} => ~ackMatched
  /\ stage = "none" <=> ~restartConsumed
  /\ stage = "none" \/ at \in {"prepare", "freeze"} => commands = 0
  /\ stage = "complete" => restartSession = prior + 1 /\ Restart!Complete
  /\ restartControl = "ready" => stage \in {"none", "armed", "complete"} /\ at \notin {"freeze", "request"}
  /\ ~ackMatched => ~boot /\ ~identity /\ samples = 0 /\ ~statsActive

\* Line b of q is the next boot.
NextBoot(q, b) == q[b].kind = "boot" /\ q[b].ordinal = "next"

\* Line i of q, after line b, is a runtime_ready line that reports the time t.
ReadyAt(q, b, i, t) == b < i /\ q[i].kind = "startup" /\ q[i].up = t

\* What the observer concluded of a boot is in the lines q it saw since the
\* acknowledgement or the reopen: the last sample after that boot, and two rising ones.
BootShown(q, booted, count, t) ==
  /\ booted => \E b \in DOMAIN q :
       /\ NextBoot(q, b)
       /\ count >= 1 => \E i \in DOMAIN q : ReadyAt(q, b, i, t)
       /\ count >= 2 => \E i, j \in DOMAIN q : ReadyAt(q, b, i, q[i].up) /\ ReadyAt(q, i, j, q[j].up) /\ q[i].up < q[j].up
  /\ ~booted => count = 0

\* The identity that was concluded was shown.
IdentityShown(q, identified) ==
  identified => \E i \in DOMAIN q : q[i].kind = "identity" /\ q[i].ordinal = "same"

\* Prepared statistics are required, and active statistics were shown after them.
StatisticsShown(q, required, counting) ==
  \A i \in DOMAIN q : q[i].ordinal = "prepared" =>
    /\ required
    /\ counting => \E j \in i + 1..Len(q) : q[j].ordinal = "active"

\* The evidence part of the inductive invariant.
RestartEvidence ==
  /\ BootShown(seen, boot, samples, uptime)
  /\ IdentityShown(seen, identity)
  /\ StatisticsShown(seen, statsRequired, statsActive)

\* The conclusions of the observer are flags.
RestartFlags ==
  boot \in BOOLEAN /\ identity \in BOOLEAN /\ statsRequired \in BOOLEAN /\ statsActive \in BOOLEAN

\* The inductive invariant of the restart.
RestartInv == RestartTypes /\ RestartFlags /\ RestartPhases /\ RestartEvidence

\* With no lines seen there is nothing to show.
LEMMA NothingShown ==
  /\ \A t : BootShown(<<>>, FALSE, 0, t)
  /\ IdentityShown(<<>>, FALSE)
  /\ \A required : StatisticsShown(<<>>, required, FALSE)
BY DEF BootShown, IdentityShown, StatisticsShown

\* No run was requested yet.
LEMMA RestartStarts == Restart!Init => RestartInv
<1> SUFFICES ASSUME Restart!Init PROVE RestartInv
  OBVIOUS
<1> USE RestartConstants DEF Restart!Init
<1>1. RestartTypes
  BY DEF RestartTypes
<1>2. RestartPhases
  BY DEF RestartPhases
<1>3. RestartEvidence
  BY NothingShown, Zenon DEF RestartEvidence
<1>4. RestartFlags
  BY Zenon DEF RestartFlags
<1>5. QED
  BY <1>1, <1>2, <1>3, <1>4 DEF RestartInv

\* Giving up closes the controller and keeps what was seen.
LEMMA RestartGivesUp ==
  ASSUME RestartInv, at # "idle", Restart!GiveUp
  PROVE  RestartInv'
<1> USE DEF RestartInv, Restart!GiveUp
<1>1. RestartTypes'
  BY DEF RestartTypes
<1>2. RestartPhases'
  BY DEF RestartPhases, RestartTypes
<1>3. RestartEvidence' /\ RestartFlags'
  BY DEF RestartEvidence, RestartFlags
<1>4. QED
  BY <1>1, <1>2, <1>3

\* The steps of the run that leave the observation alone.
LEMMA RestartRuns ==
  ASSUME RestartInv,
         \/ Restart!Run \/ Restart!Prepared \/ Restart!Frozen \/ Restart!BeginAdmission
         \/ Restart!Tick \/ Restart!StreamEnds \/ Restart!Fails \/ Restart!TimesOut
  PROVE  RestartInv'
<1> USE RestartConstants DEF Restart!observerVars, Restart!runVars, Restart!Active
<1>1. CASE at # "idle" /\ Restart!GiveUp
  BY <1>1, RestartGivesUp
<1>2. CASE \/ Restart!Run \/ Restart!Prepared \/ Restart!Frozen \/ Restart!BeginAdmission
           \/ Restart!Tick \/ Restart!StreamEnds
  <2>1. CASE ~Restart!GiveUp
    <3>1. UNCHANGED <<seen, boot, samples, uptime, identity, statsRequired, statsActive>>
      BY <1>2, <2>1 DEF Restart!Run, Restart!Prepared, Restart!Frozen, Restart!BeginAdmission, Restart!Tick,
         Restart!StreamEnds
    <3>2. RestartEvidence' /\ RestartFlags'
      BY <3>1 DEF RestartInv, RestartEvidence, RestartFlags
    <3>3. RestartTypes'
      <4>1. CASE Restart!Run \/ Restart!Prepared \/ Restart!BeginAdmission
        BY <2>1, <4>1 DEF RestartInv, RestartTypes, Restart!Run, Restart!Prepared, Restart!BeginAdmission
      <4>2. CASE Restart!Frozen
        BY <4>2 DEF RestartInv, RestartTypes, RestartPhases, Restart!Frozen
      <4>3. CASE Restart!Tick
        BY <4>3 DEF RestartInv, RestartTypes, Restart!Tick
      <4>4. CASE Restart!StreamEnds
        BY <2>1, <4>4 DEF RestartInv, RestartTypes, Restart!StreamEnds
      <4>5. QED
        BY <1>2, <4>1, <4>2, <4>3, <4>4
    <3>4. RestartPhases'
      <4> USE DEF RestartInv, RestartTypes, RestartPhases, Restart!Complete, Restart!StatisticsReady
      <4>1. CASE Restart!Run
        BY <2>1, <4>1 DEF Restart!Run, Restart!MayRun
      <4>2. CASE Restart!Prepared \/ Restart!Tick
        BY <2>1, <4>2 DEF Restart!Prepared, Restart!Tick
      <4>3. CASE Restart!Frozen
        BY <2>1, <4>3 DEF Restart!Frozen
      <4>4. CASE Restart!BeginAdmission
        BY <2>1, <4>4 DEF Restart!BeginAdmission
      <4>5. CASE Restart!StreamEnds
        BY <2>1, <4>5 DEF Restart!StreamEnds
      <4>6. QED
        BY <1>2, <4>1, <4>2, <4>3, <4>4, <4>5
    <3>5. QED
      BY <3>2, <3>3, <3>4 DEF RestartInv
  <2>2. CASE Restart!GiveUp
    <3>1. at # "idle"
      BY <1>2, <2>2 DEF RestartInv, RestartPhases, Restart!GiveUp, Restart!Run, Restart!Prepared, Restart!Frozen,
         Restart!BeginAdmission, Restart!Tick, Restart!StreamEnds
    <3>2. QED
      BY <1>1, <2>2, <3>1
  <2>3. QED
    BY <2>1, <2>2
<1>3. QED
  BY <1>1, <1>2 DEF Restart!Fails, Restart!TimesOut

\* A line is a record of one of the five classes.
LEMMA LineFacts ==
  ASSUME NEW d \in Restart!Lines
  PROVE  /\ d.up \in 0..MaxUptime
         /\ d.kind \in {"boot", "identity", "statistics", "startup"}
         /\ d.kind = "identity" => d.ordinal \in {"same", "other"}
         /\ d.kind # "statistics" => d.ordinal \notin {"prepared", "active"}
BY RestartConstants DEF Restart!Lines

\* A line goes to the end of the lines seen.
LEMMA LineAppended ==
  ASSUME NEW q \in Seq(Restart!Lines), NEW d \in Restart!Lines
  PROVE  /\ Append(q, d) \in Seq(Restart!Lines) /\ Len(q) \in Nat /\ Len(Append(q, d)) = Len(q) + 1
         /\ DOMAIN q = 1..Len(q) /\ DOMAIN Append(q, d) = 1..Len(q) + 1
         /\ Append(q, d)[Len(q) + 1] = d /\ \A i \in 1..Len(q) : Append(q, d)[i] = q[i]
         /\ \A i \in 1..Len(q) : q[i] \in Restart!Lines
OBVIOUS

\* What was shown stays shown; the next boot starts the samples afresh; a later time after
\* the boot is one more sample.
LEMMA BootLine ==
  ASSUME NEW q \in Seq(Restart!Lines), NEW d \in Restart!Lines, NEW booted \in BOOLEAN, NEW count \in 0..2,
         NEW t \in Nat, BootShown(q, booted, count, t)
  PROVE  /\ BootShown(Append(q, d), booted, count, t)
         /\ d.kind = "boot" /\ d.ordinal = "next" => BootShown(Append(q, d), TRUE, 0, 0)
         /\ booted /\ d.kind = "startup" /\ d.up > t =>
              BootShown(Append(q, d), TRUE, IF count < 2 THEN count + 1 ELSE count, d.up)
<1> DEFINE r == Append(q, d)
           k == Len(q)
<1>1. /\ k \in Nat /\ DOMAIN q = 1..k /\ DOMAIN r = 1..k + 1 /\ r[k + 1] = d
      /\ \A i \in 1..k : r[i] = q[i] /\ q[i].up \in Nat
  BY LineAppended, LineFacts, RestartConstants
<1>2. d.up \in Nat
  BY LineFacts, RestartConstants
<1> HIDE DEF r, k
<1>3. ASSUME NEW b \in 1..k, NextBoot(q, b)
      PROVE  /\ b \in 1..k + 1 /\ NextBoot(r, b)
             /\ \A i \in 1..k : \A x : ReadyAt(q, b, i, x) => i \in 1..k + 1 /\ ReadyAt(r, b, i, x)
             /\ \A i, j \in 1..k : q[i].up < q[j].up => r[i].up < r[j].up
             /\ \A i, j \in 1..k : ReadyAt(q, b, i, q[i].up) /\ ReadyAt(q, i, j, q[j].up) =>
                                     ReadyAt(r, b, i, r[i].up) /\ ReadyAt(r, i, j, r[j].up)
  BY <1>1, <1>3 DEF NextBoot, ReadyAt
<1>4. BootShown(r, booted, count, t)
  <2>1. ASSUME booted
        PROVE  \E b \in DOMAIN r :
                 /\ NextBoot(r, b)
                 /\ count >= 1 => \E i \in DOMAIN r : ReadyAt(r, b, i, t)
                 /\ count >= 2 => \E i, j \in DOMAIN r : /\ ReadyAt(r, b, i, r[i].up) /\ ReadyAt(r, i, j, r[j].up)
                                                        /\ r[i].up < r[j].up
    <3>1. PICK b \in 1..k :
            /\ NextBoot(q, b)
            /\ count >= 1 => \E i \in 1..k : ReadyAt(q, b, i, t)
            /\ count >= 2 => \E i, j \in 1..k : /\ ReadyAt(q, b, i, q[i].up) /\ ReadyAt(q, i, j, q[j].up)
                                                /\ q[i].up < q[j].up
      BY <1>1, <2>1 DEF BootShown
    <3>2. count >= 1 => \E i \in DOMAIN r : ReadyAt(r, b, i, t)
      BY <1>1, <1>3, <3>1
    <3>3. count >= 2 => \E i, j \in DOMAIN r : ReadyAt(r, b, i, r[i].up) /\ ReadyAt(r, i, j, r[j].up) /\ r[i].up < r[j].up
      <4> SUFFICES ASSUME count >= 2
                   PROVE  \E i, j \in DOMAIN r : ReadyAt(r, b, i, r[i].up) /\ ReadyAt(r, i, j, r[j].up) /\ r[i].up < r[j].up
        OBVIOUS
      <4>1. PICK i \in 1..k, j \in 1..k : ReadyAt(q, b, i, q[i].up) /\ ReadyAt(q, i, j, q[j].up) /\ q[i].up < q[j].up
        BY <3>1
      <4>2. i \in DOMAIN r /\ j \in DOMAIN r
        BY <1>1
      <4>3. QED
        BY <1>3, <3>1, <4>1, <4>2
    <3>4. QED
      BY <1>1, <1>3, <3>1, <3>2, <3>3
  <2>2. QED
    BY <2>1 DEF BootShown
<1>5. d.kind = "boot" /\ d.ordinal = "next" => BootShown(r, TRUE, 0, 0)
  <2> SUFFICES ASSUME d.kind = "boot" /\ d.ordinal = "next" PROVE BootShown(r, TRUE, 0, 0)
    OBVIOUS
  <2>1. k + 1 \in DOMAIN r /\ NextBoot(r, k + 1)
    BY <1>1 DEF NextBoot
  <2>2. QED
    BY <2>1 DEF BootShown
<1>6. ASSUME booted, d.kind = "startup", d.up > t
      PROVE  BootShown(r, TRUE, IF count < 2 THEN count + 1 ELSE count, d.up)
  <2> DEFINE more == IF count < 2 THEN count + 1 ELSE count
  <2>1. PICK b \in 1..k :
          /\ NextBoot(q, b)
          /\ count >= 1 => \E i \in 1..k : ReadyAt(q, b, i, t)
          /\ count >= 2 => \E i, j \in 1..k : /\ ReadyAt(q, b, i, q[i].up) /\ ReadyAt(q, i, j, q[j].up)
                                              /\ q[i].up < q[j].up
    BY <1>1, <1>6 DEF BootShown
  <2>2. b \in DOMAIN r /\ k + 1 \in DOMAIN r /\ ReadyAt(r, b, k + 1, d.up) /\ NextBoot(r, b)
    BY <1>1, <1>3, <1>6, <2>1 DEF ReadyAt
  <2>3. more >= 2 => \E i, j \in DOMAIN r : ReadyAt(r, b, i, r[i].up) /\ ReadyAt(r, i, j, r[j].up) /\ r[i].up < r[j].up
    <3> SUFFICES ASSUME count >= 1
                 PROVE  \E i, j \in DOMAIN r : ReadyAt(r, b, i, r[i].up) /\ ReadyAt(r, i, j, r[j].up) /\ r[i].up < r[j].up
      OBVIOUS
    <3>1. PICK i \in 1..k : ReadyAt(q, b, i, t)
      BY <2>1
    <3>2. i \in DOMAIN r /\ ReadyAt(r, b, i, r[i].up) /\ r[i].up = t /\ r[k + 1].up = d.up
      BY <1>1, <3>1 DEF ReadyAt
    <3>3. ReadyAt(r, i, k + 1, r[k + 1].up) /\ r[i].up < r[k + 1].up
      BY <1>1, <1>2, <1>6, <3>2 DEF ReadyAt
    <3>4. QED
      BY <2>2, <3>2, <3>3
  <2> HIDE DEF more
  <2>4. BootShown(r, TRUE, more, d.up)
    BY <2>2, <2>3 DEF BootShown
  <2>5. QED
    BY <2>4 DEF more
<1>7. QED
  BY <1>4, <1>5, <1>6 DEF r

\* The identity that was shown stays shown.
LEMMA IdentityLine ==
  ASSUME NEW q \in Seq(Restart!Lines), NEW d \in Restart!Lines, NEW identified \in BOOLEAN,
         IdentityShown(q, identified), d.kind = "identity" => d.ordinal = "same"
  PROVE  IdentityShown(Append(q, d), identified \/ d.kind = "identity")
<1> DEFINE r == Append(q, d)
           k == Len(q)
<1>1. /\ k \in Nat /\ DOMAIN q = 1..k /\ DOMAIN r = 1..k + 1 /\ r[k + 1] = d
      /\ \A i \in 1..k : r[i] = q[i] /\ i \in 1..k + 1
  BY LineAppended
<1>2. k + 1 \in 1..k + 1
  BY <1>1
<1> HIDE DEF r, k
<1>3. IdentityShown(r, identified \/ d.kind = "identity")
  BY <1>1, <1>2 DEF IdentityShown
<1>4. QED
  BY <1>3 DEF r

\* New prepared statistics must be shown active again.
LEMMA StatisticsLine ==
  ASSUME NEW q \in Seq(Restart!Lines), NEW d \in Restart!Lines, NEW required \in BOOLEAN, NEW active1 \in BOOLEAN,
         NEW active2 \in BOOLEAN, StatisticsShown(q, required, active1),
         active2 => d.ordinal # "prepared" /\ (active1 \/ d.ordinal = "active")
  PROVE  StatisticsShown(Append(q, d), required \/ d.ordinal = "prepared", active2)
<1> DEFINE r == Append(q, d)
           k == Len(q)
<1>1. /\ k \in Nat /\ Len(r) = k + 1 /\ DOMAIN q = 1..k /\ DOMAIN r = 1..k + 1 /\ r[k + 1] = d
      /\ \A i \in 1..k : r[i] = q[i]
  BY LineAppended
<1> HIDE DEF r, k
<1>2. ASSUME NEW i \in 1..k + 1, r[i].ordinal = "prepared", active2
      PROVE  \E j \in i + 1..Len(r) : r[j].ordinal = "active"
  <2>1. i \in 1..k
    BY <1>1, <1>2
  <2>2. CASE d.ordinal = "active"
    <3>1. k + 1 \in i + 1..Len(r)
      BY <1>1, <2>1
    <3>2. QED
      BY <1>1, <2>2, <3>1
  <2>3. CASE active1
    <3>1. PICK j \in i + 1..k : q[j].ordinal = "active"
      BY <1>1, <1>2, <2>1, <2>3 DEF StatisticsShown, k
    <3>2. j \in i + 1..Len(r) /\ j \in 1..k
      BY <1>1, <2>1
    <3>3. QED
      BY <1>1, <3>1, <3>2
  <2>4. QED
    BY <1>2, <2>2, <2>3
<1>3. ASSUME NEW i \in 1..k + 1, r[i].ordinal = "prepared"
      PROVE  required \/ d.ordinal = "prepared"
  BY <1>1, <1>3 DEF StatisticsShown
<1>4. StatisticsShown(r, required \/ d.ordinal = "prepared", active2)
  BY <1>1, <1>2, <1>3 DEF StatisticsShown
<1>5. QED
  BY <1>4 DEF r

\* The acknowledgement and the reopen start an epoch in which nothing was shown.
LEMMA RestartForgets ==
  ASSUME RestartInv, Restart!Acknowledged \/ Restart!Reopen
  PROVE  RestartInv'
<1> USE DEF Restart!Acknowledged, Restart!Reopen, Restart!ForgetEpoch
<1>1. boot' = FALSE /\ identity' = FALSE /\ samples' = 0 /\ statsActive' = FALSE /\ seen' = <<>>
      /\ statsRequired' = statsRequired
  <2>1. CASE Restart!Reopen
    BY <2>1
  <2>2. CASE Restart!Acknowledged
    <3>1. ~boot /\ ~identity /\ samples = 0 /\ ~statsActive
      BY <2>2 DEF RestartInv, RestartPhases
    <3>2. boot = FALSE /\ identity = FALSE /\ statsActive = FALSE
      BY <3>1, Zenon DEF RestartInv, RestartFlags
    <3>3. QED
      BY <2>2, <3>1, <3>2
  <2>3. QED
    BY <2>1, <2>2
<1>2. RestartTypes'
  BY <1>1, RestartConstants DEF RestartInv, RestartTypes
<1>3. RestartFlags'
  BY <1>1, Zenon DEF RestartInv, RestartFlags
<1>4. RestartPhases'
  <2>1. ~boot' /\ ~identity' /\ ~statsActive'
    BY <1>1, Zenon
  <2>2. /\ stage' = "acknowledged" /\ at' = "boot" /\ restartControl' # "closed" /\ restartControl' # "ready"
        /\ restartConsumed' = restartConsumed /\ stage # "none"
    BY DEF RestartInv, RestartPhases, RestartTypes
  <2>3. QED
    BY <1>1, <2>1, <2>2 DEF RestartInv, RestartPhases
<1>5. RestartEvidence'
  BY <1>1, NothingShown, Zenon DEF RestartEvidence
<1>6. QED
  BY <1>2, <1>3, <1>4, <1>5 DEF RestartInv

\* Admission completes an observation that has everything, in a fresh session.
LEMMA RestartAdmits ==
  ASSUME RestartInv, NEW ack1 \in {prior, prior + 1}, Restart!Admit(ack1)
  PROVE  RestartInv'
<1>1. at # "idle"
  BY DEF Restart!Admit
<1>2. CASE Restart!GiveUp
  BY <1>1, <1>2, RestartGivesUp
<1>3. CASE ~Restart!GiveUp
  <2> USE <1>3 DEF Restart!Admit
  <2>1. RestartTypes'
    BY DEF RestartInv, RestartTypes
  <2>2. RestartFlags' /\ RestartEvidence'
    BY DEF RestartInv, RestartFlags, RestartEvidence
  <2>3. RestartPhases'
    <3>1. restartSession' = prior' + 1
      BY DEF Restart!FreshAck
    <3>2. Restart!Complete'
      BY DEF Restart!Complete, Restart!StatisticsReady
    <3>3. /\ stage' = "complete" /\ at' = "idle" /\ restartControl' = "ready" /\ at = "admission"
          /\ UNCHANGED <<restartConsumed, ackMatched, commands, boot, identity, samples, statsActive>>
      OBVIOUS
    <3>4. QED
      BY <3>1, <3>2, <3>3 DEF RestartInv, RestartPhases
  <2>4. QED
    BY <2>1, <2>2, <2>3 DEF RestartInv
<1>4. QED
  BY <1>2, <1>3

\* A line either refutes the observation or adds to it exactly what it shows.
LEMMA RestartLine ==
  ASSUME RestartInv, NEW d \in Restart!Lines, Restart!Diagnostic(d)
  PROVE  RestartInv'
<1> DEFINE first == d.kind = "boot" /\ d.ordinal = "next" /\ ~boot
           sampled == Restart!Sampled(d)
<1>1. at # "idle"
  BY DEF Restart!Diagnostic
<1>2. CASE Restart!GiveUp
  BY <1>1, <1>2, RestartGivesUp
<1>3. CASE ~Restart!GiveUp
  <2>1. /\ ackMatched /\ records < RecordLimit /\ ~Restart!Refuted(d) /\ Restart!Active
        /\ records' = records + 1
        /\ boot' = (boot \/ first)
        /\ identity' = (identity \/ d.kind = "identity")
        /\ statsRequired' = (statsRequired \/ d.ordinal = "prepared")
        /\ statsActive' = IF first \/ d.ordinal = "prepared" THEN FALSE
                          ELSE statsActive \/ (boot /\ d.ordinal = "active")
        /\ samples' = IF first THEN 0 ELSE IF sampled /\ samples < 2 THEN samples + 1 ELSE samples
        /\ uptime' = IF first THEN 0 ELSE IF sampled THEN d.up ELSE uptime
        /\ seen' = Append(seen, d)
        /\ UNCHANGED <<stage, ackMatched, reopens, elapsed, at, restartConsumed, restartSession, prior,
                       restartControl, commands>>
    <3>1. records \in Nat /\ RecordLimit \in Nat
      BY RestartConstants DEF RestartInv, RestartTypes
    <3>2. ~(records >= RecordLimit \/ elapsed >= Deadline \/ Restart!Refuted(d))
      BY <1>3, Zenon DEF Restart!Diagnostic
    <3>3. records < RecordLimit
      BY <3>1, <3>2
    <3>4. QED
      BY <1>3, <3>2, <3>3, Zenon DEF Restart!Diagnostic
  <2>2. /\ seen \in Seq(Restart!Lines) /\ samples \in 0..2 /\ uptime \in Nat
        /\ boot \in BOOLEAN /\ identity \in BOOLEAN /\ statsRequired \in BOOLEAN /\ statsActive \in BOOLEAN
    BY RestartConstants DEF RestartInv, RestartTypes, RestartFlags
  <2>3. d.kind = "identity" => d.ordinal = "same"
    BY <2>1, LineFacts DEF Restart!Refuted
  <2>4. first \in BOOLEAN /\ sampled \in BOOLEAN
    BY DEF Restart!Sampled
  <2>5. RestartTypes'
    <3>1. samples' \in 0..2 /\ uptime' \in 0..MaxUptime
      BY <2>1, <2>2, LineFacts, RestartConstants DEF RestartInv, RestartTypes
    <3>2. seen' \in Seq(Restart!Lines)
      BY <2>1, <2>2, LineAppended
    <3>3. records' \in 0..RecordLimit
      BY <2>1, RestartConstants DEF RestartInv, RestartTypes
    <3>4. QED
      BY <2>1, <3>1, <3>2, <3>3 DEF RestartInv, RestartTypes
  <2>6. RestartFlags'
    BY <2>1, <2>2, Zenon DEF RestartFlags
  <2>7. RestartPhases'
    BY <2>1 DEF RestartInv, RestartPhases, Restart!Active
  <2>8. BootShown(seen, boot, samples, uptime) /\ IdentityShown(seen, identity)
        /\ StatisticsShown(seen, statsRequired, statsActive)
    BY DEF RestartInv, RestartEvidence
  <2>9. BootShown(seen', boot', samples', uptime')
    <3>1. CASE first
      <4>1. boot' = TRUE
        BY <2>1, <3>1, Zenon
      <4>2. samples' = 0 /\ uptime' = 0
        BY <2>1, <3>1
      <4>3. BootShown(Append(seen, d), TRUE, 0, 0)
        BY <2>2, <2>8, <3>1, BootLine
      <4>4. QED
        BY <2>1, <4>1, <4>2, <4>3, Zenon
    <3>2. CASE ~first /\ sampled
      <4>1. boot /\ d.kind = "startup" /\ d.up > uptime
        BY <3>2 DEF Restart!Sampled
      <4>2. boot' = TRUE
        BY <2>1, <4>1, Zenon
      <4>3. samples' = (IF samples < 2 THEN samples + 1 ELSE samples) /\ uptime' = d.up
        BY <2>1, <3>2
      <4>4. BootShown(Append(seen, d), TRUE, IF samples < 2 THEN samples + 1 ELSE samples, d.up)
        BY <2>2, <2>8, <4>1, BootLine
      <4>5. QED
        BY <2>1, <4>2, <4>3, <4>4, Zenon
    <3>3. CASE ~first /\ ~sampled
      <4>1. boot' = boot
        BY <2>1, <2>2, <3>3, Zenon
      <4>2. samples' = samples /\ uptime' = uptime
        BY <2>1, <3>3
      <4>3. BootShown(Append(seen, d), boot, samples, uptime)
        BY <2>2, <2>8, BootLine
      <4>4. QED
        BY <2>1, <4>1, <4>2, <4>3, Zenon
    <3>4. QED
      BY <3>1, <3>2, <3>3
  <2>10. IdentityShown(seen', identity')
    <3>1. IdentityShown(Append(seen, d), identity \/ d.kind = "identity")
      BY <2>2, <2>3, <2>8, IdentityLine
    <3>2. QED
      BY <2>1, <3>1, Zenon
  <2>11. StatisticsShown(seen', statsRequired', statsActive')
    <3>1. statsActive' \in BOOLEAN /\ (statsActive' => d.ordinal # "prepared" /\ (statsActive \/ d.ordinal = "active"))
      BY <2>1, <2>6, Zenon DEF RestartFlags
    <3>2. StatisticsShown(Append(seen, d), statsRequired \/ d.ordinal = "prepared", statsActive')
      BY <2>2, <2>8, <3>1, StatisticsLine
    <3>3. QED
      BY <2>1, <3>2, Zenon
  <2>12. QED
    BY <2>5, <2>6, <2>7, <2>9, <2>10, <2>11 DEF RestartInv, RestartEvidence
<1>4. QED
  BY <1>2, <1>3

\* A restart is reported complete only after the next boot and two signs of life that follow
\* it, and after the firmware's identity, seen before or after that boot; in a fresh session,
\* and at most once, for every deadline, observation limit and stream of lines.
THEOREM RestartSoundness == Spec => []RestartSound
<1>1. Init => RestartInv
  BY RestartStarts DEF Init
<1>2. ASSUME RestartInv, [Next]_vars
      PROVE  RestartInv'
  <2>1. CASE UNCHANGED restartVars
    BY <1>2, <2>1 DEF restartVars, RestartInv, RestartTypes, RestartFlags, RestartPhases, RestartEvidence,
       Restart!Complete, Restart!StatisticsReady
  <2>2. CASE Restart!Next
    BY <1>2, <2>2, RestartRuns, RestartForgets, RestartAdmits, RestartLine DEF Restart!Next
  <2>3. QED
    BY <1>2, <2>1, <2>2
       DEF Next, ChannelMoves, ReaderMoves, RestartMoves, ControlMoves, ClientMoves, vars
<1>3. RestartInv => RestartSound
  <2> SUFFICES ASSUME RestartInv PROVE RestartSound
    OBVIOUS
  <2>1. Restart!TypeOK /\ Restart!RestartedOnce
    BY DEF RestartInv, RestartTypes, RestartPhases, Restart!TypeOK, Restart!RestartedOnce
  <2>2. Restart!FreshSession
    BY DEF RestartInv, RestartTypes, RestartPhases, Restart!FreshSession
  <2>3. ASSUME stage = "complete"
        PROVE  /\ \E b \in DOMAIN seen :
                    /\ seen[b].kind = "boot" /\ seen[b].ordinal = "next"
                    /\ \E i, j \in DOMAIN seen :
                         /\ b < i /\ i < j /\ seen[i].kind = "startup" /\ seen[j].kind = "startup"
                         /\ seen[i].up < seen[j].up
               /\ \E i \in DOMAIN seen : seen[i].kind = "identity" /\ seen[i].ordinal = "same"
               /\ \A i \in DOMAIN seen : seen[i].ordinal = "prepared" =>
                    \E j \in i + 1..Len(seen) : seen[j].ordinal = "active"
    <3>1. boot /\ identity /\ samples >= 2 /\ (statsRequired => statsActive)
      BY <2>3 DEF RestartInv, RestartPhases, Restart!Complete, Restart!StatisticsReady
    <3>2. \E b \in DOMAIN seen :
            /\ seen[b].kind = "boot" /\ seen[b].ordinal = "next"
            /\ \E i, j \in DOMAIN seen :
                 /\ b < i /\ i < j /\ seen[i].kind = "startup" /\ seen[j].kind = "startup"
                 /\ seen[i].up < seen[j].up
      BY <3>1 DEF RestartInv, RestartEvidence, BootShown, NextBoot, ReadyAt
    <3>3. \E i \in DOMAIN seen : seen[i].kind = "identity" /\ seen[i].ordinal = "same"
      BY <3>1 DEF RestartInv, RestartEvidence, IdentityShown
    <3>4. \A i \in DOMAIN seen : seen[i].ordinal = "prepared" =>
            \E j \in i + 1..Len(seen) : seen[j].ordinal = "active"
      BY <3>1, Zenon DEF RestartInv, RestartEvidence, StatisticsShown
    <3>5. QED
      BY <3>2, <3>3, <3>4
  <2>4. Restart!CompletionIsEarned
    BY <2>3, Zenon DEF Restart!CompletionIsEarned
  <2>5. QED
    BY <2>1, <2>2, <2>4 DEF RestartSound
<1>4. QED
  BY <1>1, <1>2, <1>3, PTL DEF Spec

-----------------------------------------------------------------------------
\* The controller.

\* Stages of an admission before the Worker acknowledged its Hello, and after.
Unadmitted == {"lock", "selection", "scope", "opening", "hello"}
Admitted == {"discover", "prove", "baseline", "establish", "done"}
TaskStages == Unadmitted \cup Admitted \cup {"failing", "failed"}

TaskRecords == [gen : Nat, stage : TaskStages]
OwnerRecords == [opening : {"none", "pending", "open", "failed", "stuck"}, closing : BOOLEAN, released : BOOLEAN]
CallCommands == {"discover", "prove", "status", "start_lease", "renew_lease", "restore"}
CallRecords ==
  [id : Nat, cmd : CallCommands, who : {"admission", "page", "close"}, gen : Nat, session : Nat,
   phase : {"waiting", "answered", "checked", "failed"},
   result : {"none", "ok", "rejected", "restored", "mining", "baseline"}]
WireRecords == [id : Nat, cmd : CallCommands \cup {"close"}, who : {"admission", "page", "close"}, session : Nat]
ReplyRecords == [id : Nat, session : Nat, result : {"ok", "rejected", "restored", "mining", "baseline"}]

\* Each field of the controller, its admissions and its owners has its type.
ControlTypes ==
  /\ state \in {"unconnected", "admitting", "ready", "closing", "closed"}
  /\ closing \in {"none", "restoring", "sending"} /\ (closing # "none" => state = "closing")
  /\ controlGeneration \in Nat /\ tasks \in Seq(TaskRecords) /\ Len(tasks) <= MaxAdmissions
  /\ owners \in [Control!Admissions -> OwnerRecords]
  /\ channel \in 0..MaxAdmissions /\ owner \in 0..MaxAdmissions /\ lock \in 0..MaxAdmissions

\* An admission that got the lock holds it until its owner is released, and its owner is
\* the controller's; before that it has no owner to close.
LockShape ==
  /\ Control!PortHasOneOwner
  /\ \A o \in Control!Admissions : owners[o].released => owners[o].closing /\ lock # o
  /\ \A o \in Control!Admissions : o \notin DOMAIN tasks \/ tasks[o].stage = "lock" =>
       ~owners[o].closing /\ lock # o /\ owner # o
  /\ \A t \in DOMAIN tasks : tasks[t].stage \notin {"lock", "failed"} /\ ~owners[t].released => lock = t
  /\ lock # 0 => owner = lock

\* The generation tells which admission is current, and the state how far it is; a live
\* channel is the current admission's, whose owner nobody asked to close.
TaskShape ==
  /\ \A t \in DOMAIN tasks :
       /\ tasks[t].gen <= controlGeneration
       /\ \A s \in DOMAIN tasks : s < t => tasks[s].gen < tasks[t].gen
       /\ tasks[t].gen = controlGeneration /\ tasks[t].stage \notin {"failed", "done"} => state = "admitting"
       /\ tasks[t].gen = controlGeneration /\ tasks[t].stage = "done" => state = "ready"
  /\ state \in {"unconnected", "closed"} => channel = 0 /\ ack = 0 /\ pending = 0
  /\ channel # 0 /\ state \in {"admitting", "ready"} =>
       /\ channel \in DOMAIN tasks /\ tasks[channel].gen = controlGeneration
       /\ tasks[channel].stage \notin {"lock", "failed"} /\ ~owners[channel].closing

\* The controller speaks only in the Worker's present session, which the current admission
\* began, and no request is older than that.
SessionShape ==
  /\ controlSession \in Nat /\ ack \in {0, controlSession}
  /\ \A t \in DOMAIN tasks : tasks[t].gen = controlGeneration =>
       /\ tasks[t].stage \in Unadmitted => ack = 0 /\ pending = 0 /\ \A c \in controlCalls : c.gen # controlGeneration
       /\ tasks[t].stage \in Admitted => ack # 0
  /\ closing # "none" \/ state = "ready" \/ pending # 0 => ack # 0

\* Each exchange on its own: the pending one waits; one of an earlier generation is over or
\* is a proof that is still being verified.
CallIsSound(c) ==
  /\ c.id \in 1..controlIssued /\ c.gen <= controlGeneration
  /\ c.phase = "waiting" <=> c.id = pending
  /\ c.id = pending => c.session = ack
  /\ c.gen = controlGeneration /\ ack # 0 => c.session = ack
  /\ state \in {"admitting", "ready"} /\ c.gen # controlGeneration =>
       c.phase = "failed" \/ (c.cmd = "prove" /\ c.phase = "checked")
  /\ state = "admitting" /\ c.gen = controlGeneration => c.who = "admission"

\* An admission has at most one exchange, the one its stage asks for.
AdmissionCallIsSound(c) ==
  c.who = "admission" =>
    /\ \A t \in DOMAIN tasks : tasks[t].gen = c.gen =>
         tasks[t].stage \in DOMAIN Control!Asks /\ c.cmd = Control!Asks[tasks[t].stage]
    /\ \A d \in controlCalls : d.who = "admission" /\ d.gen = c.gen => d = c

\* The exchanges together.
CallShape ==
  /\ controlIssued \in Nat /\ pending \in 0..controlIssued
  /\ controlCalls \subseteq CallRecords
  /\ \A c \in controlCalls : CallIsSound(c) /\ AdmissionCallIsSound(c)
  /\ state \in {"admitting", "ready"} /\ pending # 0 =>
       \E c \in controlCalls : c.id = pending /\ c.gen = controlGeneration

\* The controller is in a session with its Worker.
InSession == ack # 0 /\ state \in {"admitting", "ready"}

\* In a session one record is on its way at most: the pending request or its answer.
WireShape ==
  /\ controlWire \in Seq(WireRecords) /\ replies \in Seq(ReplyRecords)
  /\ \A i \in DOMAIN controlWire :
       /\ controlWire[i].session = controlSession /\ controlWire[i].id <= controlIssued
       /\ \A c \in controlCalls : c.id = controlWire[i].id => c.cmd = controlWire[i].cmd
       /\ InSession => controlWire[i].id = pending /\ Len(controlWire) = 1 /\ Len(replies) = 0 /\ pending # 0
  /\ \A i \in DOMAIN replies :
       /\ replies[i].session = controlSession /\ replies[i].id <= controlIssued
       /\ InSession => replies[i].id = pending /\ Len(controlWire) = 0 /\ Len(replies) = 1 /\ pending # 0

\* A proof that was answered was made in the session it was asked for.
ProofShape ==
  /\ \A c \in controlCalls : c.cmd = "prove" =>
       /\ c.phase \in {"answered", "checked"} => c.result = "rejected" \/ (c.result = "ok" /\ c.session \in proved)
       /\ \A i \in DOMAIN replies : replies[i].id = c.id =>
            replies[i].result = "rejected" \/ (replies[i].result = "ok" /\ controlSession \in proved)
  /\ \A t \in DOMAIN tasks : tasks[t].gen = controlGeneration /\ tasks[t].stage \in {"baseline", "establish", "done"} =>
       controlSession \in proved
  /\ state = "ready" => controlSession \in proved

\* An answer that says the Worker is idle stays true until it is applied; a lease the
\* controller does not know of has its start still under way.
LeaseShape ==
  /\ InSession => \A i \in DOMAIN replies : replies[i].result \in {"restored", "baseline"} => ~controlLease
  /\ InSession => \A c \in controlCalls : c.gen = controlGeneration /\ c.phase \in {"answered", "checked"} =>
       /\ c.result \in {"restored", "baseline"} => ~controlLease
       /\ pending # 0 => c.cmd = "prove"
  /\ \A t \in DOMAIN tasks : tasks[t].gen = controlGeneration /\ tasks[t].stage = "establish" => ~controlLease /\ pending = 0
  /\ state = "ready" /\ controlLease =>
       activeLease \/ \E c \in controlCalls : c.gen = controlGeneration /\ c.cmd = "start_lease"

\* The inductive invariant of the controller.
ControlInv ==
  /\ ControlTypes /\ LockShape /\ TaskShape /\ SessionShape
  /\ CallShape /\ WireShape /\ ProofShape /\ LeaseShape

\* A controller that was just created.
LEMMA ControlStarts == Control!Init => ControlInv
<1> SUFFICES ASSUME Control!Init PROVE ControlInv
  OBVIOUS
<1> USE ControlConstants DEF Control!Init
<1>1. DOMAIN tasks = {} /\ DOMAIN controlWire = {} /\ DOMAIN replies = {} /\ Len(tasks) = 0
  OBVIOUS
<1>2. owners \in [Control!Admissions -> OwnerRecords]
  BY DEF OwnerRecords
<1>3. ControlTypes
  BY <1>1, <1>2 DEF ControlTypes
<1>4. LockShape
  <2>1. \A o \in Control!Admissions : owners[o].opening = "none" /\ o # 0
    BY DEF Control!Admissions
  <2>2. \A o \in Control!Admissions : ~owners[o].closing /\ ~owners[o].released
    BY Zenon
  <2>3. QED
    BY <1>1, <2>1, <2>2 DEF LockShape, Control!PortHasOneOwner
<1>5. TaskShape /\ SessionShape /\ CallShape
  BY <1>1 DEF TaskShape, SessionShape, CallShape
<1>6. WireShape
  BY <1>1 DEF WireShape
<1>7. ProofShape /\ LeaseShape
  BY <1>1 DEF ProofShape, LeaseShape, InSession
<1>8. QED
  BY <1>3, <1>4, <1>5, <1>6, <1>7 DEF ControlInv

\* Putting an admission into a stage changes nothing else of the admissions.
Staged(t, s) ==
  /\ t \in DOMAIN tasks
  /\ tasks' \in Seq(TaskRecords) /\ Len(tasks') = Len(tasks) /\ DOMAIN tasks' = DOMAIN tasks
  /\ \A i \in DOMAIN tasks : tasks'[i].gen = tasks[i].gen /\ (i # t => tasks'[i].stage = tasks[i].stage)
  /\ tasks'[t].stage = s

\* What Stage does.
LEMMA StageFacts ==
  ASSUME ControlTypes, NEW t \in DOMAIN tasks, NEW s \in TaskStages, Control!Stage(t, s)
  PROVE  Staged(t, s)
<1>1. tasks \in Seq(TaskRecords) /\ DOMAIN tasks = 1..Len(tasks) /\ \A i \in DOMAIN tasks : tasks[i] \in TaskRecords
  BY DEF ControlTypes
<1>2. tasks' = [tasks EXCEPT ![t] = [tasks[t] EXCEPT !.stage = s]]
  BY DEF Control!Stage
<1>3. [tasks[t] EXCEPT !.stage = s] \in TaskRecords
  BY <1>1 DEF TaskRecords
<1>4. DOMAIN tasks' = DOMAIN tasks /\ \A i \in DOMAIN tasks : tasks'[i] = IF i = t THEN [tasks[t] EXCEPT !.stage = s] ELSE tasks[i]
  BY <1>1, <1>2
<1>5. tasks' \in Seq(TaskRecords) /\ Len(tasks') = Len(tasks)
  BY <1>1, <1>2, <1>3
<1>6. QED
  BY <1>1, <1>4, <1>5 DEF Staged, TaskRecords

\* The admissions are left alone, or one of them is given up together with its exchange.
GivesUp(t) ==
  /\ \/ Staged(t, "failed")
     \/ Staged(t, "failing") /\ tasks[t].stage \notin {"lock", "failed"}
  /\ \A d \in controlCalls' : d.who = "admission" => d.gen # tasks[t].gen
TasksGiveUp == tasks' = tasks \/ \E t \in DOMAIN tasks : GivesUp(t)

\* The admissions' shape after some gave up.
LEMMA TasksAfter ==
  ASSUME ControlTypes, TasksGiveUp
  PROVE  /\ tasks' \in Seq(TaskRecords) /\ Len(tasks') = Len(tasks) /\ DOMAIN tasks' = DOMAIN tasks
         /\ \A i \in DOMAIN tasks :
              /\ tasks'[i].gen = tasks[i].gen
              /\ \/ tasks'[i].stage = tasks[i].stage
                 \/ /\ tasks'[i].stage = "failed" \/ (tasks'[i].stage = "failing" /\ tasks[i].stage \notin {"lock", "failed"})
                    /\ \A d \in controlCalls' : d.who = "admission" => d.gen # tasks[i].gen
BY DEF ControlTypes, TasksGiveUp, GivesUp, Staged

\* Some owners that had got the lock are asked to close.
OwnersClose ==
  /\ owners' \in [Control!Admissions -> OwnerRecords]
  /\ \A o \in Control!Admissions :
       /\ owners'[o].opening = owners[o].opening
       /\ owners'[o].released <=> owners[o].released
       /\ owners[o].closing => owners'[o].closing
       /\ owners'[o].closing => owners[o].closing \/ (o \in DOMAIN tasks /\ tasks[o].stage # "lock")

\* CloseOwner asks one owner, which got the lock.
LEMMA CloseOwnerFacts ==
  ASSUME ControlTypes, NEW o \in 0..MaxAdmissions, Control!CloseOwner(o),
         o # 0 => o \in DOMAIN tasks /\ tasks[o].stage # "lock"
  PROVE  OwnersClose /\ \A x \in Control!Admissions : x # o => owners'[x] = owners[x]
<1>1. CASE o = 0
  BY <1>1, ControlConstants DEF Control!CloseOwner, OwnersClose, ControlTypes
<1>2. CASE o # 0
  <2>1. o \in Control!Admissions /\ owners \in [Control!Admissions -> OwnerRecords]
    BY <1>2, ControlConstants DEF Control!Admissions, ControlTypes
  <2>2. owners' = [owners EXCEPT ![o] = [owners[o] EXCEPT !.closing = TRUE]]
    BY <1>2 DEF Control!CloseOwner
  <2>3. \A x \in Control!Admissions : owners'[x] = IF x = o THEN [owners[o] EXCEPT !.closing = TRUE] ELSE owners[x]
    BY <2>1, <2>2
  <2>4. [owners[o] EXCEPT !.closing = TRUE] \in OwnerRecords
    BY <2>1 DEF OwnerRecords
  <2>5. owners' \in [Control!Admissions -> OwnerRecords]
    BY <2>1, <2>2, <2>4
  <2>6. /\ owners'[o].opening = owners[o].opening
        /\ owners'[o].released = owners[o].released
        /\ owners'[o].closing = TRUE
    BY <2>1, <2>3 DEF OwnerRecords
  <2>7. owners'[o].closing /\ (owners'[o].released <=> owners[o].released)
    BY <2>6, Zenon
  <2>8. QED
    BY <1>2, <2>3, <2>5, <2>6, <2>7 DEF OwnersClose
<1>3. QED
  BY <1>1, <1>2

\* The lock and its owners after owners were asked to close and admissions gave up.
LEMMA LockKept ==
  ASSUME ControlTypes, LockShape, TasksGiveUp, OwnersClose, UNCHANGED <<lock, owner>>
  PROVE  LockShape'
<1>1. /\ Len(tasks') = Len(tasks) /\ DOMAIN tasks' = DOMAIN tasks
      /\ \A i \in DOMAIN tasks :
           /\ tasks'[i].stage = "lock" => tasks[i].stage = "lock"
           /\ tasks'[i].stage \notin {"lock", "failed"} => tasks[i].stage \notin {"lock", "failed"}
  BY TasksAfter
<1>2. DOMAIN tasks \subseteq Control!Admissions
  BY ControlConstants DEF ControlTypes, Control!Admissions
<1>3. Control!PortHasOneOwner'
  BY DEF OwnersClose, LockShape, Control!PortHasOneOwner
<1>4. \A o \in Control!Admissions : owners'[o].released => owners'[o].closing /\ lock' # o
  BY DEF OwnersClose, LockShape
<1>5. \A o \in Control!Admissions : o \notin DOMAIN tasks' \/ tasks'[o].stage = "lock" =>
        ~owners'[o].closing /\ lock' # o /\ owner' # o
  BY <1>1 DEF OwnersClose, LockShape
<1>6. \A t \in DOMAIN tasks' : tasks'[t].stage \notin {"lock", "failed"} /\ ~owners'[t].released => lock' = t
  BY <1>1, <1>2 DEF OwnersClose, LockShape
<1>7. QED
  BY <1>3, <1>4, <1>5, <1>6 DEF LockShape

\* The exchange c once the request p was rejected.
Dropped(c, p) == [c EXCEPT !.phase = IF c.id = p THEN "failed" ELSE @]

\* Some exchanges end, and the one for p is rejected.
CallsDrop(p) == controlCalls' \subseteq {Dropped(c, p) : c \in controlCalls}

\* Rejecting a request changes its phase only.
LEMMA DroppedFacts ==
  ASSUME NEW c \in CallRecords, NEW p
  PROVE  /\ Dropped(c, p) \in CallRecords
         /\ Dropped(c, p).id = c.id /\ Dropped(c, p).cmd = c.cmd /\ Dropped(c, p).who = c.who
         /\ Dropped(c, p).gen = c.gen /\ Dropped(c, p).session = c.session /\ Dropped(c, p).result = c.result
         /\ Dropped(c, p).phase = (IF c.id = p THEN "failed" ELSE c.phase)
         /\ c.id # p => Dropped(c, p) = c
BY DEF CallRecords, Dropped

\* Exchanges that are dropped without a rejection stay as they are.
LEMMA CallsRemain ==
  ASSUME CallShape, controlCalls' \subseteq controlCalls
  PROVE  CallsDrop(0)
<1>1. \A c \in controlCalls : c \in CallRecords /\ c.id # 0
  BY DEF CallShape, CallIsSound
<1>2. \A c \in controlCalls : Dropped(c, 0) = c
  BY <1>1, DroppedFacts
<1>3. QED
  BY <1>2 DEF CallsDrop

\* A step after which the controller is neither admitting nor ready: it forgets, waits for a
\* close, or finds itself closed.
Subsides ==
  /\ state' \in {"closed", "closing", "unconnected"} /\ closing' \in {"none", "restoring", "sending"}
  /\ closing' # "none" => state' = "closing" /\ ack' # 0
  /\ state' # "closing" => channel' = 0 /\ ack' = 0 /\ pending' = 0
  /\ channel' \in {0, channel} /\ ack' \in {0, ack}
  /\ \/ pending' = 0 /\ CallsDrop(pending)
     \/ pending' = pending /\ ack' = ack /\ CallsDrop(0)
  /\ controlGeneration' \in {controlGeneration, controlGeneration + 1}
  /\ TasksGiveUp /\ OwnersClose
  /\ \A t \in DOMAIN tasks : tasks'[t].gen = controlGeneration' => tasks'[t].stage = "failed"
  /\ controlWire' \in Seq(WireRecords) /\ replies' \in Seq(ReplyRecords)
  /\ \A i \in DOMAIN controlWire' :
       \/ \E j \in DOMAIN controlWire : controlWire'[i] = controlWire[j]
       \/ controlWire'[i].id = 0 /\ controlWire'[i].session = controlSession
  /\ \A i \in DOMAIN replies' : \E j \in DOMAIN replies : replies'[i] = replies[j]
  /\ UNCHANGED <<lock, owner, controlIssued, controlSession, proved>>

\* Outside of a session little can go wrong: what is remembered only shrinks.
LEMMA ControlSubsides ==
  ASSUME ControlInv, Subsides
  PROVE  ControlInv'
<1>1. /\ tasks' \in Seq(TaskRecords) /\ Len(tasks') = Len(tasks) /\ DOMAIN tasks' = DOMAIN tasks
      /\ \A i \in DOMAIN tasks :
           /\ tasks'[i].gen = tasks[i].gen
           /\ \/ tasks'[i].stage = tasks[i].stage
              \/ \A d \in controlCalls' : d.who = "admission" => d.gen # tasks[i].gen
  BY TasksAfter DEF ControlInv, Subsides
<1>2. ControlTypes'
  <2>1. tasks' \in Seq(TaskRecords) /\ Len(tasks') <= MaxAdmissions
    BY <1>1 DEF ControlInv, ControlTypes
  <2>2. controlGeneration' \in Nat /\ channel' \in 0..MaxAdmissions /\ owner' \in 0..MaxAdmissions /\ lock' \in 0..MaxAdmissions
    BY ControlConstants DEF ControlInv, ControlTypes, Subsides
  <2>3. state' \in {"closed", "closing", "unconnected"} /\ closing' \in {"none", "restoring", "sending"}
        /\ (closing' # "none" => state' = "closing") /\ owners' \in [Control!Admissions -> OwnerRecords]
    BY DEF Subsides, OwnersClose
  <2>4. QED
    BY <2>1, <2>2, <2>3 DEF ControlTypes
<1>3. LockShape'
  BY LockKept DEF ControlInv, Subsides
<1>4. controlGeneration \in Nat /\ \A t \in DOMAIN tasks : tasks[t].gen \in Nat
  <2>1. tasks \in Seq(TaskRecords) /\ controlGeneration \in Nat
    BY DEF ControlInv, ControlTypes
  <2>2. \A t \in DOMAIN tasks : tasks[t] \in TaskRecords
    BY <2>1
  <2>3. QED
    BY <2>1, <2>2 DEF TaskRecords
<1>5. TaskShape'
  <2>1. ASSUME NEW t \in DOMAIN tasks'
        PROVE  /\ tasks'[t].gen <= controlGeneration'
               /\ \A s \in DOMAIN tasks' : s < t => tasks'[s].gen < tasks'[t].gen
    BY <1>1, <1>4 DEF ControlInv, TaskShape, Subsides
  <2>2. \A t \in DOMAIN tasks' : tasks'[t].gen = controlGeneration' => tasks'[t].stage = "failed"
    BY <1>1 DEF Subsides
  <2>3. QED
    BY <2>1, <2>2 DEF TaskShape, Subsides
<1>6. SessionShape'
  <2>1. ack' \in {0, controlSession'} /\ controlSession' \in Nat
    BY DEF ControlInv, SessionShape, Subsides
  <2>2. \A t \in DOMAIN tasks' : tasks'[t].gen = controlGeneration' => tasks'[t].stage \notin Unadmitted \cup Admitted
    BY <1>1 DEF Subsides, Unadmitted, Admitted
  <2>3. closing' # "none" \/ state' = "ready" \/ pending' # 0 => ack' # 0
    BY DEF ControlInv, SessionShape, Subsides
  <2>4. QED
    BY <2>1, <2>2, <2>3 DEF SessionShape
<1>7. PICK p : /\ CallsDrop(p)
               /\ \/ pending' = 0 /\ p = pending
                  \/ pending' = pending /\ ack' = ack /\ p = 0
  BY DEF Subsides
<1>8. ASSUME NEW d \in controlCalls'
      PROVE  \E c \in controlCalls : c \in CallRecords /\ CallIsSound(c) /\ AdmissionCallIsSound(c) /\ d = Dropped(c, p)
  BY <1>7 DEF CallsDrop, ControlInv, CallShape
<1>9. ASSUME NEW d \in controlCalls'
      PROVE  d \in CallRecords /\ CallIsSound(d)'
  <2>1. PICK c \in controlCalls : c \in CallRecords /\ CallIsSound(c) /\ d = Dropped(c, p)
    BY <1>8
  <2>2. /\ d \in CallRecords /\ d.id = c.id /\ d.gen = c.gen /\ d.session = c.session
        /\ d.phase = (IF c.id = p THEN "failed" ELSE c.phase)
    BY <2>1, DroppedFacts
  <2>3. c.gen \in Nat /\ controlGeneration \in Nat /\ c.id # 0
    BY <2>1 DEF CallRecords, CallIsSound, ControlInv, ControlTypes
  <2>4. d.id \in 1..controlIssued' /\ d.gen <= controlGeneration'
    BY <2>1, <2>2, <2>3 DEF CallIsSound, Subsides
  <2>5. d.phase = "waiting" <=> d.id = pending'
    BY <1>7, <2>1, <2>2, <2>3 DEF CallIsSound
  <2>6. d.id = pending' => d.session = ack'
    BY <1>7, <2>1, <2>2, <2>3 DEF CallIsSound
  <2>7. d.gen = controlGeneration' /\ ack' # 0 => d.session = ack'
    BY <2>1, <2>2, <2>3 DEF CallIsSound, Subsides
  <2>8. QED
    BY <2>2, <2>4, <2>5, <2>6, <2>7 DEF CallIsSound, Subsides
<1>10. ASSUME NEW d \in controlCalls'
       PROVE  AdmissionCallIsSound(d)'
  <2> SUFFICES ASSUME d.who = "admission" PROVE AdmissionCallIsSound(d)'
    BY DEF AdmissionCallIsSound
  <2>1. PICK c \in controlCalls : c \in CallRecords /\ AdmissionCallIsSound(c) /\ d = Dropped(c, p)
    BY <1>8
  <2>2. d.who = c.who /\ d.gen = c.gen /\ d.cmd = c.cmd
    BY <2>1, DroppedFacts
  <2>3. \A t \in DOMAIN tasks' : tasks'[t].gen = d.gen =>
          tasks'[t].stage \in DOMAIN Control!Asks /\ d.cmd = Control!Asks[tasks'[t].stage]
    BY <1>1, <2>1, <2>2 DEF AdmissionCallIsSound
  <2>4. ASSUME NEW e \in controlCalls', e.who = "admission", e.gen = d.gen
        PROVE  e = d
    <3>1. PICK b \in controlCalls : b \in CallRecords /\ e = Dropped(b, p)
      BY <1>8
    <3>2. e.who = b.who /\ e.gen = b.gen
      BY <3>1, DroppedFacts
    <3>3. b = c
      BY <2>1, <2>2, <2>4, <3>2 DEF AdmissionCallIsSound
    <3>4. QED
      BY <2>1, <3>1, <3>3
  <2>5. QED
    BY <2>3, <2>4 DEF AdmissionCallIsSound
<1>11. CallShape'
  <2>1. controlIssued' \in Nat /\ pending' \in 0..controlIssued'
    BY DEF ControlInv, CallShape, Subsides
  <2>2. state' \notin {"admitting", "ready"}
    BY DEF Subsides
  <2>3. QED
    BY <1>9, <1>10, <2>1, <2>2 DEF CallShape
<1>12. ~InSession'
  BY DEF InSession, Subsides
<1>13. WireShape'
  <2>1. ASSUME NEW i \in DOMAIN controlWire'
        PROVE  /\ controlWire'[i].session = controlSession' /\ controlWire'[i].id <= controlIssued'
               /\ \A d \in controlCalls' : d.id = controlWire'[i].id => d.cmd = controlWire'[i].cmd
    <3>1. CASE \E j \in DOMAIN controlWire : controlWire'[i] = controlWire[j]
      <4>1. PICK j \in DOMAIN controlWire : controlWire'[i] = controlWire[j]
        BY <3>1
      <4>2. \A d \in controlCalls' : \E c \in controlCalls : d.id = c.id /\ d.cmd = c.cmd
        BY <1>8, DroppedFacts
      <4>3. QED
        BY <4>1, <4>2 DEF ControlInv, WireShape, Subsides
    <3>2. CASE controlWire'[i].id = 0 /\ controlWire'[i].session = controlSession
      <4>1. \A d \in controlCalls' : d.id # 0
        BY <1>9 DEF CallIsSound
      <4>2. controlIssued' \in Nat
        BY <1>11 DEF CallShape
      <4>3. QED
        BY <3>2, <4>1, <4>2 DEF Subsides
    <3>3. QED
      BY <3>1, <3>2 DEF Subsides
  <2>2. \A i \in DOMAIN replies' : replies'[i].session = controlSession' /\ replies'[i].id <= controlIssued'
    BY DEF ControlInv, WireShape, Subsides
  <2>3. QED
    BY <1>12, <2>1, <2>2 DEF WireShape, Subsides
<1>14. ProofShape'
  <2>1. ASSUME NEW d \in controlCalls', d.cmd = "prove"
        PROVE  /\ d.phase \in {"answered", "checked"} => d.result = "rejected" \/ (d.result = "ok" /\ d.session \in proved')
               /\ \A i \in DOMAIN replies' : replies'[i].id = d.id =>
                    replies'[i].result = "rejected" \/ (replies'[i].result = "ok" /\ controlSession' \in proved')
    <3>1. PICK c \in controlCalls : c \in CallRecords /\ d = Dropped(c, p)
      BY <1>8
    <3>2. /\ d.id = c.id /\ d.cmd = c.cmd /\ d.session = c.session /\ d.result = c.result
          /\ d.phase = (IF c.id = p THEN "failed" ELSE c.phase)
      BY <3>1, DroppedFacts
    <3>3. QED
      BY <2>1, <3>2 DEF ControlInv, ProofShape, Subsides
  <2>2. state' # "ready" /\ \A t \in DOMAIN tasks' : tasks'[t].gen = controlGeneration' => tasks'[t].stage = "failed"
    BY <1>1 DEF Subsides
  <2>3. QED
    BY <2>1, <2>2 DEF ProofShape
<1>15. LeaseShape'
  BY <1>1, <1>12 DEF LeaseShape, Subsides
<1>16. QED
  BY <1>2, <1>3, <1>5, <1>6, <1>11, <1>13, <1>14, <1>15 DEF ControlInv

\* What losing control and giving up leave alone; an answer may have been taken.
SessionRests ==
  /\ UNCHANGED <<lock, owner, controlIssued, controlSession, proved, controlWire>>
  /\ replies' = replies \/ (replies # <<>> /\ replies' = Tail(replies))

\* The records still on their way were on their way before.
LEMMA RecordsRest ==
  ASSUME WireShape, SessionRests
  PROVE  /\ controlWire' \in Seq(WireRecords) /\ replies' \in Seq(ReplyRecords)
         /\ \A i \in DOMAIN controlWire' : \E j \in DOMAIN controlWire : controlWire'[i] = controlWire[j]
         /\ \A i \in DOMAIN replies' : \E j \in DOMAIN replies : replies'[i] = replies[j]
<1>1. controlWire \in Seq(WireRecords) /\ replies \in Seq(ReplyRecords) /\ controlWire' = controlWire
  BY DEF WireShape, SessionRests
<1>2. CASE replies' = replies
  BY <1>1, <1>2
<1>3. CASE replies # <<>> /\ replies' = Tail(replies)
  <2>1. replies' \in Seq(ReplyRecords) /\ Len(replies') = Len(replies) - 1 /\ Len(replies) \in Nat
    BY <1>1, <1>3
  <2>2. \A i \in 1..Len(replies') : i + 1 \in 1..Len(replies) /\ replies'[i] = replies[i + 1]
    BY <1>1, <1>3, <2>1
  <2>3. DOMAIN replies' = 1..Len(replies') /\ DOMAIN replies = 1..Len(replies)
    BY <1>1, <2>1
  <2>4. QED
    BY <1>1, <2>1, <2>2, <2>3
<1>4. QED
  BY <1>2, <1>3 DEF SessionRests

\* The owner of the controller got the lock.
LEMMA OwnerWasAdmitted ==
  ASSUME ControlTypes, LockShape, owner # 0
  PROVE  owner \in DOMAIN tasks /\ tasks[owner].stage # "lock"
BY ControlConstants DEF ControlTypes, LockShape, Control!Admissions

\* #cleanup, called with no admission that goes on.
LEMMA CleanupSubsides ==
  ASSUME ControlInv, NEW live, live \subseteq controlCalls, Control!Cleanup(live), TasksGiveUp, SessionRests,
         controlGeneration' \in {controlGeneration, controlGeneration + 1},
         \A t \in DOMAIN tasks : tasks'[t].gen = controlGeneration' => tasks'[t].stage = "failed"
  PROVE  ControlInv'
<1>1. /\ state' = "closed" /\ closing' = "none" /\ ack' = 0 /\ channel' = 0 /\ pending' = 0
      /\ controlCalls' = {[c EXCEPT !.phase = IF c.id = pending THEN "failed" ELSE @] : c \in live}
      /\ Control!CloseOwner(owner)
  BY DEF Control!Cleanup, Control!ForgetSession
<1>2. CallsDrop(pending)
  BY <1>1 DEF CallsDrop, Dropped
<1>3. OwnersClose
  BY <1>1, CloseOwnerFacts, OwnerWasAdmitted DEF ControlInv, ControlTypes
<1>4. Subsides
  BY <1>1, <1>2, <1>3, RecordsRest DEF Subsides, SessionRests, ControlInv
<1>5. QED
  BY <1>4, ControlSubsides

\* No admission goes on in a controller that is neither admitting nor ready.
LEMMA NoneCurrent ==
  ASSUME ControlInv, state \notin {"admitting", "ready"}, TasksGiveUp
  PROVE  \A t \in DOMAIN tasks : tasks'[t].gen = controlGeneration => tasks'[t].stage = "failed"
<1> SUFFICES ASSUME NEW t \in DOMAIN tasks, tasks'[t].gen = controlGeneration
             PROVE  tasks'[t].stage = "failed"
  OBVIOUS
<1>1. /\ tasks'[t].gen = tasks[t].gen
      /\ \/ tasks'[t].stage = tasks[t].stage
         \/ tasks'[t].stage = "failed" \/ (tasks'[t].stage = "failing" /\ tasks[t].stage # "failed")
  BY TasksAfter DEF ControlInv
<1>2. tasks[t].stage = "failed"
  BY <1>1 DEF ControlInv, TaskShape
<1>3. QED
  BY <1>1, <1>2

\* #lost, in each state of the controller.
LEMMA LostSubsides ==
  ASSUME ControlInv, NEW live, live \subseteq controlCalls, Control!Lost(live), TasksGiveUp, SessionRests
  PROVE  ControlInv'
<1> USE DEF Control!controlVars
<1>1. CASE /\ state \in {"closed", "unconnected"}
           /\ controlCalls' = live
           /\ UNCHANGED <<Control!controlVars, owners>>
  <2>1. CallsDrop(0)
    BY <1>1, CallsRemain DEF ControlInv
  <2>2. OwnersClose
    BY <1>1 DEF OwnersClose, ControlInv, ControlTypes
  <2>3. channel = 0 /\ ack = 0 /\ pending = 0 /\ closing = "none"
    BY <1>1 DEF ControlInv, TaskShape, ControlTypes
  <2>4. \A t \in DOMAIN tasks : tasks'[t].gen = controlGeneration' => tasks'[t].stage = "failed"
    BY <1>1, NoneCurrent
  <2>5. Subsides
    BY <1>1, <2>1, <2>2, <2>3, <2>4, RecordsRest DEF Subsides, SessionRests, ControlInv
  <2>6. QED
    BY <2>5, ControlSubsides
<1>2. CASE /\ state = "closing"
           /\ pending' = 0
           /\ controlCalls' = {[c EXCEPT !.phase = IF c.id = pending THEN "failed" ELSE @] : c \in live}
           /\ UNCHANGED <<state, controlGeneration, ack, channel, closing, owners>>
  <2>1. CallsDrop(pending)
    BY <1>2 DEF CallsDrop, Dropped
  <2>2. OwnersClose
    BY <1>2 DEF OwnersClose, ControlInv, ControlTypes
  <2>3. closing \in {"none", "restoring", "sending"} /\ (closing # "none" => ack # 0)
    BY DEF ControlInv, ControlTypes, SessionShape
  <2>4. \A t \in DOMAIN tasks : tasks'[t].gen = controlGeneration' => tasks'[t].stage = "failed"
    BY <1>2, NoneCurrent
  <2>5. Subsides
    BY <1>2, <2>1, <2>2, <2>3, <2>4, RecordsRest DEF Subsides, SessionRests, ControlInv
  <2>6. QED
    BY <2>5, ControlSubsides
<1>3. CASE controlGeneration' = controlGeneration + 1 /\ Control!Cleanup(live)
  <2>1. \A t \in DOMAIN tasks : tasks[t].gen <= controlGeneration /\ tasks[t].gen \in Nat
    <3>1. tasks \in Seq(TaskRecords)
      BY DEF ControlInv, ControlTypes
    <3>2. \A t \in DOMAIN tasks : tasks[t] \in TaskRecords
      BY <3>1
    <3>3. QED
      BY <3>2 DEF ControlInv, TaskShape, TaskRecords
  <2>2. controlGeneration \in Nat
    BY DEF ControlInv, ControlTypes
  <2>3. \A t \in DOMAIN tasks : tasks'[t].gen # controlGeneration'
    BY <1>3, <2>1, <2>2, TasksAfter DEF ControlInv
  <2>4. QED
    BY <1>3, <2>3, CleanupSubsides
<1>4. QED
  BY <1>1, <1>2, <1>3 DEF Control!Lost

\* The exchanges after a loss are those that were live.
LEMMA CallsLost ==
  ASSUME CallShape, NEW live, live \subseteq controlCalls, Control!Lost(live) \/ Control!Cleanup(live),
         NEW d \in controlCalls'
  PROVE  \E b \in live : d.who = b.who /\ d.gen = b.gen
<1>1. \A b \in live : b \in CallRecords
  BY DEF CallShape
<1>2. CASE controlCalls' = live
  BY <1>2
<1>3. CASE controlCalls' = {[c EXCEPT !.phase = IF c.id = pending THEN "failed" ELSE @] : c \in live}
  <2>1. PICK b \in live : d = Dropped(b, pending)
    BY <1>3 DEF Dropped
  <2>2. QED
    BY <1>1, <2>1, DroppedFacts
<1>4. QED
  BY <1>2, <1>3 DEF Control!Lost, Control!Cleanup

\* Losses: the page, the reader, an exchange or a bad answer.
LEMMA ControlLoses ==
  ASSUME ControlInv,
         \/ Control!LoseControl
         \/ \E c \in controlCalls : Control!ExchangeFails(c)
         \/ \E c \in controlCalls : Control!Lost(controlCalls \ {c}) /\ UNCHANGED <<owner, controlIssued, tasks, lock, Control!workerVars>>
         \/ Control!Receive /\ Control!Lost(controlCalls)
  PROVE  ControlInv'
<1> USE DEF Control!workerVars
<1>1. TasksGiveUp /\ SessionRests
  BY DEF TasksGiveUp, SessionRests, Control!LoseControl, Control!ExchangeFails, Control!Receive
<1>2. PICK live : live \subseteq controlCalls /\ Control!Lost(live)
  <2>1. CASE Control!LoseControl \/ (Control!Receive /\ Control!Lost(controlCalls))
    BY <2>1 DEF Control!LoseControl
  <2>2. CASE \/ \E c \in controlCalls : Control!ExchangeFails(c)
             \/ \E c \in controlCalls : Control!Lost(controlCalls \ {c})
    <3>1. PICK c \in controlCalls : Control!Lost(controlCalls \ {c})
      BY <2>2 DEF Control!ExchangeFails
    <3>2. QED
      BY <3>1
  <2>3. QED
    BY <2>1, <2>2
<1>3. QED
  BY <1>1, <1>2, LostSubsides

\* An admission that did not get as far as asking has no exchange.
LEMMA NoCallYet ==
  ASSUME CallShape, NEW t \in DOMAIN tasks, tasks[t].stage \notin DOMAIN Control!Asks
  PROVE  \A c \in controlCalls : c.who = "admission" => c.gen # tasks[t].gen
BY DEF CallShape, AdmissionCallIsSound

\* The stages in which an admission asks.
LEMMA AskStages == DOMAIN Control!Asks = {"discover", "prove", "baseline"}
BY DEF Control!Asks

\* An admission that fails while it is the current one takes the session with it.
LEMMA CurrentFails ==
  ASSUME ControlInv, NEW t \in DOMAIN tasks, tasks[t].stage \notin DOMAIN Control!Asks, Control!Current(t),
         Control!Stage(t, "failed"), Control!Cleanup(controlCalls), controlGeneration' = controlGeneration, SessionRests
  PROVE  ControlInv'
<1>1. Staged(t, "failed")
  BY StageFacts DEF ControlInv, TaskStages
<1>2. \A d \in controlCalls' : d.who = "admission" => d.gen # tasks[t].gen
  BY NoCallYet, CallsLost DEF ControlInv
<1>3. TasksGiveUp
  BY <1>1, <1>2 DEF TasksGiveUp, GivesUp
<1>4. ASSUME NEW s \in DOMAIN tasks, tasks'[s].gen = controlGeneration'
      PROVE  tasks'[s].stage = "failed"
  <2>1. tasks[s].gen = tasks[t].gen
    BY <1>1, <1>4 DEF Staged, Control!Current
  <2>2. tasks \in Seq(TaskRecords) /\ DOMAIN tasks = 1..Len(tasks) /\ Len(tasks) \in Nat
    BY DEF ControlInv, ControlTypes
  <2>3. tasks[s] \in TaskRecords /\ tasks[t] \in TaskRecords /\ s \in Nat /\ t \in Nat
    BY <2>2
  <2>4. s = t
    BY <2>1, <2>3 DEF ControlInv, TaskShape, TaskRecords
  <2>5. QED
    BY <1>1, <2>4 DEF Staged
<1>5. QED
  BY <1>3, <1>4, CleanupSubsides

\* An exchange of an admission fails and control is lost with it.
LEMMA AskLoses ==
  ASSUME ControlInv, NEW t \in DOMAIN tasks, tasks[t].stage \in DOMAIN Control!Asks, Control!Stage(t, "failing"),
         NEW c \in Control!AdmissionCall(t), Control!Lost(controlCalls \ {c}), SessionRests
  PROVE  ControlInv'
<1>1. Staged(t, "failing")
  BY StageFacts DEF ControlInv, TaskStages
<1>2. c \in controlCalls /\ c.who = "admission" /\ c.gen = tasks[t].gen
  BY DEF Control!AdmissionCall
<1>3. \A d \in controlCalls' : d.who = "admission" => d.gen # tasks[t].gen
  <2> SUFFICES ASSUME NEW d \in controlCalls', d.who = "admission", d.gen = tasks[t].gen PROVE FALSE
    OBVIOUS
  <2>1. PICK b \in controlCalls \ {c} : d.who = b.who /\ d.gen = b.gen
    BY CallsLost DEF ControlInv
  <2>2. b = c
    BY <1>2, <2>1 DEF ControlInv, CallShape, AdmissionCallIsSound
  <2>3. QED
    BY <2>1, <2>2
<1>4. TasksGiveUp
  BY <1>1, <1>3, AskStages DEF TasksGiveUp, GivesUp
<1>5. QED
  BY <1>4, LostSubsides

\* A goodbye was written.
GoodbyeWritten ==
  controlWire' = Append(controlWire, [id |-> 0, cmd |-> "close", who |-> "close", session |-> ack])

\* The goodbye belongs to the session.
LEMMA GoodbyeRests ==
  ASSUME WireShape, SessionShape, ack # 0, GoodbyeWritten, replies' = replies
  PROVE  /\ controlWire' \in Seq(WireRecords) /\ replies' \in Seq(ReplyRecords)
         /\ \A i \in DOMAIN controlWire' :
              \/ \E j \in DOMAIN controlWire : controlWire'[i] = controlWire[j]
              \/ controlWire'[i].id = 0 /\ controlWire'[i].session = controlSession
         /\ \A i \in DOMAIN replies' : \E j \in DOMAIN replies : replies'[i] = replies[j]
<1> DEFINE m == [id |-> 0, cmd |-> "close", who |-> "close", session |-> ack]
<1>1. controlWire \in Seq(WireRecords) /\ replies \in Seq(ReplyRecords) /\ ack = controlSession /\ controlSession \in Nat
  BY DEF WireShape, SessionShape
<1>2. m \in WireRecords /\ m.id = 0 /\ m.session = controlSession
  BY <1>1 DEF WireRecords
<1>3. controlWire' = Append(controlWire, m)
  BY DEF GoodbyeWritten
<1> HIDE DEF m
<1>4. /\ controlWire' \in Seq(WireRecords) /\ DOMAIN controlWire' = 1..Len(controlWire) + 1 /\ Len(controlWire) \in Nat
      /\ DOMAIN controlWire = 1..Len(controlWire)
      /\ controlWire'[Len(controlWire) + 1] = m /\ \A i \in 1..Len(controlWire) : controlWire'[i] = controlWire[i]
  BY <1>1, <1>2, <1>3
<1>5. QED
  BY <1>1, <1>2, <1>4

\* Closing, but for the restore of an active lease.
LEMMA ControlCloses ==
  ASSUME ControlInv,
         Control!CloseSent \/ Control!Restored \/ (Control!Close /\ controlIssued' = controlIssued)
  PROVE  ControlInv'
<1>0. /\ controlGeneration \in Nat /\ controlIssued \in Nat /\ TasksGiveUp
      /\ \A t \in DOMAIN tasks : tasks[t].gen <= controlGeneration /\ tasks[t].gen \in Nat
  <2>1. tasks \in Seq(TaskRecords) /\ controlGeneration \in Nat /\ controlIssued \in Nat
    BY DEF ControlInv, ControlTypes, CallShape
  <2>2. \A t \in DOMAIN tasks : tasks[t] \in TaskRecords
    BY <2>1
  <2>3. QED
    BY <2>1, <2>2 DEF ControlInv, TaskShape, TaskRecords, TasksGiveUp, Control!CloseSent, Control!Restored, Control!Close
<1>1. CASE Control!CloseSent
  <2>1. state = "closing"
    BY <1>1 DEF Control!CloseSent, ControlInv, ControlTypes
  <2>2. QED
    BY <1>0, <1>1, <2>1, NoneCurrent, CleanupSubsides DEF Control!CloseSent, SessionRests, Control!workerVars
<1>2. CASE Control!Restored
  <2>1. state = "closing" /\ ack # 0
    BY <1>2 DEF Control!Restored, ControlInv, ControlTypes, SessionShape
  <2>2. PICK c \in controlCalls :
          \/ /\ controlCalls' = controlCalls \ {c} /\ Control!CloseSession
             /\ UNCHANGED <<state, ack, channel, pending, owners>>
          \/ Control!Cleanup(controlCalls \ {c}) /\ UNCHANGED controlWire
    BY <1>2 DEF Control!Restored
  <2>3. UNCHANGED <<tasks, lock, owner, controlIssued, controlSession, proved, replies, controlGeneration>>
    BY <1>2 DEF Control!Restored
  <2>4. \A t \in DOMAIN tasks : tasks'[t].gen = controlGeneration' => tasks'[t].stage = "failed"
    BY <1>0, <2>1, <2>3, NoneCurrent
  <2>5. CASE Control!Cleanup(controlCalls \ {c}) /\ UNCHANGED controlWire
    BY <1>0, <2>3, <2>4, <2>5, CleanupSubsides DEF SessionRests
  <2>6. CASE /\ controlCalls' = controlCalls \ {c} /\ Control!CloseSession
             /\ UNCHANGED <<state, ack, channel, pending, owners>>
    <3>1. CallsDrop(0)
      BY <2>6, CallsRemain DEF ControlInv
    <3>2. OwnersClose
      BY <2>6 DEF OwnersClose, ControlInv, ControlTypes
    <3>3. closing' = "sending" /\ GoodbyeWritten
      BY <2>6 DEF Control!CloseSession, GoodbyeWritten
    <3>4. Subsides
      BY <1>0, <2>1, <2>3, <2>4, <2>6, <3>1, <3>2, <3>3, GoodbyeRests DEF Subsides, ControlInv
    <3>5. QED
      BY <3>4, ControlSubsides
  <2>7. QED
    BY <2>2, <2>5, <2>6
<1>3. CASE Control!Close /\ controlIssued' = controlIssued
  <2>1. /\ controlGeneration' = controlGeneration + 1
        /\ UNCHANGED <<tasks, lock, owner, controlIssued, controlSession, proved, replies>>
        /\ \/ /\ ack # 0 /\ state' = "closing" /\ Control!CloseSession
              /\ UNCHANGED <<ack, channel, pending, controlCalls, owners>>
           \/ Control!Cleanup(controlCalls) /\ UNCHANGED controlWire
    BY <1>0, <1>3 DEF Control!Close, Control!Exchange
  <2>2. \A t \in DOMAIN tasks : tasks'[t].gen # controlGeneration'
    BY <1>0, <2>1
  <2>3. CASE Control!Cleanup(controlCalls) /\ UNCHANGED controlWire
    BY <1>0, <2>1, <2>2, <2>3, CleanupSubsides DEF SessionRests
  <2>4. CASE /\ ack # 0 /\ state' = "closing" /\ Control!CloseSession
             /\ UNCHANGED <<ack, channel, pending, controlCalls, owners>>
    <3>1. CallsDrop(0)
      BY <2>4, CallsRemain DEF ControlInv
    <3>2. OwnersClose
      BY <2>4 DEF OwnersClose, ControlInv, ControlTypes
    <3>3. closing' = "sending" /\ GoodbyeWritten
      BY <2>4 DEF Control!CloseSession, GoodbyeWritten
    <3>4. Subsides
      BY <1>0, <2>1, <2>2, <2>4, <3>1, <3>2, <3>3, GoodbyeRests DEF Subsides, ControlInv
    <3>5. QED
      BY <3>4, ControlSubsides
  <2>5. QED
    BY <2>1, <2>3, <2>4
<1>4. QED
  BY <1>1, <1>2, <1>3

\* An admission gives up and the session of the controller goes on without it.
StepsAside(t) ==
  /\ t \in DOMAIN tasks /\ GivesUp(t) /\ tasks[t].stage # "done"
  /\ tasks'[t].stage = "failed" => tasks[t].gen # controlGeneration
  /\ OwnersClose
  /\ \A o \in Control!Admissions : o # t \/ tasks[t].gen = controlGeneration => (owners'[o].closing => owners[o].closing)
  /\ controlCalls' \subseteq controlCalls
  /\ \A c \in controlCalls \ controlCalls' : c.phase # "waiting" /\ c.cmd # "start_lease"
  /\ UNCHANGED <<state, controlGeneration, activeLease, ack, channel, closing, pending, controlIssued, lock, owner,
                 controlSession, controlLease, controlWire, replies, proved>>

\* What is said of the session does not depend on an admission that gave up.
LEMMA SessionGoesOn ==
  ASSUME ControlInv, NEW t \in DOMAIN tasks, StepsAside(t)
  PROVE  ControlInv'
<1>0. TasksGiveUp
  BY DEF StepsAside, TasksGiveUp
<1>1. /\ tasks' \in Seq(TaskRecords) /\ Len(tasks') = Len(tasks) /\ DOMAIN tasks' = DOMAIN tasks
      /\ \A i \in DOMAIN tasks :
           /\ tasks'[i].gen = tasks[i].gen
           /\ \/ tasks'[i].stage = tasks[i].stage
              \/ /\ \/ tasks'[i].stage = "failed" /\ tasks[i].gen # controlGeneration
                    \/ tasks'[i].stage = "failing" /\ tasks[i].stage \notin {"lock", "failed", "done"}
                 /\ \A d \in controlCalls' : d.who = "admission" => d.gen # tasks[i].gen
  BY DEF StepsAside, GivesUp, Staged
<1>2. ControlTypes'
  BY <1>1 DEF ControlInv, ControlTypes, StepsAside, OwnersClose
<1>3. LockShape'
  BY <1>0, LockKept DEF ControlInv, StepsAside
<1>4. TaskShape'
  <2>1. ASSUME NEW i \in DOMAIN tasks'
        PROVE  /\ tasks'[i].gen <= controlGeneration'
               /\ \A s \in DOMAIN tasks' : s < i => tasks'[s].gen < tasks'[i].gen
               /\ tasks'[i].gen = controlGeneration' /\ tasks'[i].stage \notin {"failed", "done"} => state' = "admitting"
               /\ tasks'[i].gen = controlGeneration' /\ tasks'[i].stage = "done" => state' = "ready"
    BY <1>1, <2>1 DEF ControlInv, TaskShape, StepsAside
  <2>2. state' \in {"unconnected", "closed"} => channel' = 0 /\ ack' = 0 /\ pending' = 0
    BY DEF ControlInv, TaskShape, StepsAside
  <2>3. ASSUME channel' # 0, state' \in {"admitting", "ready"}
        PROVE  /\ channel' \in DOMAIN tasks' /\ tasks'[channel'].gen = controlGeneration'
               /\ tasks'[channel'].stage \notin {"lock", "failed"} /\ ~owners'[channel'].closing
    <3>1. /\ channel \in DOMAIN tasks /\ tasks[channel].gen = controlGeneration
          /\ tasks[channel].stage \notin {"lock", "failed"} /\ ~owners[channel].closing
      BY <2>3 DEF ControlInv, TaskShape, StepsAside
    <3>2. channel \in Control!Admissions
      BY <2>3, ControlConstants DEF ControlInv, ControlTypes, StepsAside, Control!Admissions
    <3>3. channel # t \/ tasks[t].gen = controlGeneration
      BY <3>1
    <3>4. ~owners'[channel].closing
      BY <3>1, <3>2, <3>3 DEF StepsAside
    <3>5. QED
      BY <1>1, <3>1, <3>4 DEF StepsAside
  <2>4. QED
    BY <2>1, <2>2, <2>3 DEF TaskShape
<1>5. SessionShape'
  <2>1. \A i \in DOMAIN tasks' : tasks'[i].stage \in Unadmitted \cup Admitted => tasks'[i].stage = tasks[i].stage
    BY <1>1 DEF Unadmitted, Admitted
  <2>2. QED
    BY <1>1, <2>1 DEF ControlInv, SessionShape, StepsAside
<1>6. CallShape'
  <2>1. controlIssued' \in Nat /\ pending' \in 0..controlIssued' /\ controlCalls' \subseteq CallRecords
    BY DEF ControlInv, CallShape, StepsAside
  <2>2. ASSUME NEW d \in controlCalls' PROVE CallIsSound(d)'
    BY DEF ControlInv, CallShape, CallIsSound, StepsAside
  <2>3. ASSUME NEW d \in controlCalls' PROVE AdmissionCallIsSound(d)'
    <3>1. AdmissionCallIsSound(d)
      BY DEF ControlInv, CallShape, StepsAside
    <3>2. QED
      BY <1>1, <3>1 DEF AdmissionCallIsSound, StepsAside
  <2>4. state' \in {"admitting", "ready"} /\ pending' # 0 =>
          \E c \in controlCalls' : c.id = pending' /\ c.gen = controlGeneration'
    BY DEF ControlInv, CallShape, CallIsSound, StepsAside
  <2>5. QED
    BY <2>1, <2>2, <2>3, <2>4 DEF CallShape
<1>7. WireShape'
  BY DEF ControlInv, WireShape, InSession, StepsAside
<1>8. ProofShape'
  BY <1>1 DEF ControlInv, ProofShape, StepsAside
<1>9. LeaseShape'
  BY <1>1 DEF ControlInv, LeaseShape, InSession, StepsAside
<1>10. QED
  BY <1>2, <1>3, <1>4, <1>5, <1>6, <1>7, <1>8, <1>9 DEF ControlInv

\* An admission fails at the lock, the chooser, the open or the Hello, or gives up later.
LEMMA AdmissionGivesUp ==
  ASSUME ControlInv, NEW t \in DOMAIN tasks, tasks[t].stage \in Unadmitted \cup {"failing"}, Control!Fail(t, controlCalls),
         UNCHANGED <<lock, owner, controlIssued, Control!workerVars>>
  PROVE  ControlInv'
<1>1. tasks[t].stage \notin DOMAIN Control!Asks /\ tasks[t].stage # "done"
  BY AskStages DEF Unadmitted
<1>2. SessionRests
  BY DEF SessionRests, Control!workerVars
<1>3. CASE Control!Current(t)
  BY <1>1, <1>2, <1>3, CurrentFails DEF Control!Fail
<1>4. CASE ~Control!Current(t)
  <2> DEFINE o == IF tasks[t].stage = "lock" THEN 0 ELSE t
  <2>1. Staged(t, "failed") /\ controlCalls' = controlCalls /\ UNCHANGED Control!controlVars /\ Control!CloseOwner(o)
    BY <1>4, StageFacts DEF Control!Fail, ControlInv, TaskStages
  <2>2. tasks[t].gen # controlGeneration /\ t \in Control!Admissions /\ o \in 0..MaxAdmissions
    BY <1>4, ControlConstants DEF Control!Current, ControlInv, ControlTypes, Control!Admissions
  <2>3. OwnersClose /\ \A x \in Control!Admissions : x # o => owners'[x] = owners[x]
    BY <2>1, <2>2, CloseOwnerFacts DEF ControlInv
  <2>4. \A x \in Control!Admissions : x # t => owners'[x] = owners[x]
    BY <2>3, ControlConstants DEF Control!Admissions
  <2>5. GivesUp(t)
    BY <1>1, <2>1, NoCallYet DEF GivesUp, ControlInv
  <2>6. StepsAside(t)
    BY <1>1, <2>1, <2>2, <2>3, <2>4, <2>5 DEF StepsAside, Staged, Control!controlVars, Control!workerVars
  <2>7. QED
    BY <2>6, SessionGoesOn
<1>5. QED
  BY <1>3, <1>4

\* An admission's question is answered badly, or the admission finds that it was replaced.
LEMMA AskGivesUp ==
  ASSUME ControlInv, NEW t \in DOMAIN tasks, Control!AskFails(t)
  PROVE  ControlInv'
<1>1. /\ tasks[t].stage \in DOMAIN Control!Asks /\ Control!Stage(t, "failing")
      /\ UNCHANGED <<owner, controlIssued, lock, Control!workerVars>>
  BY DEF Control!AskFails
<1>2. SessionRests
  BY <1>1 DEF SessionRests, Control!workerVars
<1>3. CASE \E c \in Control!AdmissionCall(t) : Control!Lost(controlCalls \ {c})
  BY <1>1, <1>2, <1>3, AskLoses
<1>4. ASSUME NEW gone, controlCalls' = controlCalls \ gone, gone \subseteq Control!AdmissionCall(t),
             Control!AdmissionCall(t) # {} => gone # {}, \A c \in gone : c.phase = "checked",
             UNCHANGED <<state, controlGeneration, activeLease, ack, channel, closing, pending, owners>>
      PROVE  ControlInv'
  <2>1. Staged(t, "failing") /\ tasks[t].stage \in {"discover", "prove", "baseline"}
    BY <1>1, StageFacts, AskStages DEF ControlInv, TaskStages
  <2>2. ASSUME NEW c \in Control!AdmissionCall(t)
        PROVE  /\ c.cmd \in {"discover", "prove", "status"}
               /\ \A d \in controlCalls : d.who = "admission" /\ d.gen = tasks[t].gen => d = c
    BY <1>1, <2>1 DEF Control!AdmissionCall, ControlInv, CallShape, AdmissionCallIsSound, Control!Asks
  <2>3. \A d \in controlCalls' : d.who = "admission" => d.gen # tasks[t].gen
    BY <1>4, <2>2 DEF Control!AdmissionCall
  <2>4. OwnersClose
    BY <1>4 DEF OwnersClose, ControlInv, ControlTypes
  <2>5. GivesUp(t)
    BY <2>1, <2>3 DEF GivesUp
  <2>6. \A c \in controlCalls \ controlCalls' : c.phase # "waiting" /\ c.cmd # "start_lease"
    BY <1>4, <2>2
  <2>7. StepsAside(t)
    BY <1>1, <1>4, <2>1, <2>4, <2>5, <2>6 DEF StepsAside, Staged, Control!workerVars
  <2>8. QED
    BY <2>7, SessionGoesOn
<1>5. CASE /\ \E c \in Control!AdmissionCall(t) : c.phase = "checked" /\ controlCalls' = controlCalls \ {c}
           /\ UNCHANGED <<state, controlGeneration, activeLease, ack, channel, closing, pending, owners>>
  <2>1. PICK c \in Control!AdmissionCall(t) : c.phase = "checked" /\ controlCalls' = controlCalls \ {c}
    BY <1>5
  <2>2. QED
    BY <1>4, <1>5, <2>1
<1>6. CASE Control!AdmissionCall(t) = {} /\ UNCHANGED <<Control!controlVars, owners, controlCalls>>
  <2>1. controlCalls' = controlCalls \ {}
    BY <1>6
  <2>2. UNCHANGED <<state, controlGeneration, activeLease, ack, channel, closing, pending, owners>>
    BY <1>6 DEF Control!controlVars
  <2>3. QED
    BY <1>4, <1>6, <2>1, <2>2
<1>7. QED
  BY <1>3, <1>5, <1>6 DEF Control!AskFails

\* An admission before its Hello goes one stage on.
Proceeds(t, s) ==
  /\ Staged(t, s) /\ tasks[t].stage \in Unadmitted /\ s \in Unadmitted \ {"lock"}
  /\ ControlTypes' /\ LockShape'
  /\ \A o \in Control!Admissions : owners'[o].closing <=> owners[o].closing
  /\ channel' = channel \/ (channel' = t /\ tasks[t].gen = controlGeneration /\ ~owners[t].closing)
  /\ UNCHANGED <<state, controlGeneration, activeLease, ack, closing, pending, controlCalls, controlIssued,
                 controlSession, controlLease, controlWire, replies, proved>>

\* Nothing was said in its session yet.
LEMMA AdmissionProceeds ==
  ASSUME ControlInv, NEW t, NEW s, Proceeds(t, s)
  PROVE  ControlInv'
<1>1. /\ t \in DOMAIN tasks /\ DOMAIN tasks' = DOMAIN tasks
      /\ \A i \in DOMAIN tasks : tasks'[i].gen = tasks[i].gen /\ (i # t => tasks'[i].stage = tasks[i].stage)
      /\ tasks'[t].stage = s
  BY DEF Proceeds, Staged
<1>2. s \notin {"lock", "failed", "failing", "done", "discover", "prove", "baseline", "establish"}
      /\ tasks[t].stage \notin {"failed", "failing", "done", "discover", "prove", "baseline", "establish"}
  BY DEF Proceeds, Unadmitted
<1>3. TaskShape'
  <2>1. ASSUME NEW i \in DOMAIN tasks'
        PROVE  /\ tasks'[i].gen <= controlGeneration'
               /\ \A j \in DOMAIN tasks' : j < i => tasks'[j].gen < tasks'[i].gen
               /\ tasks'[i].gen = controlGeneration' /\ tasks'[i].stage \notin {"failed", "done"} => state' = "admitting"
               /\ tasks'[i].gen = controlGeneration' /\ tasks'[i].stage = "done" => state' = "ready"
    BY <1>1, <1>2, <2>1 DEF ControlInv, TaskShape, Proceeds
  <2>2. state' \in {"unconnected", "closed"} => channel' = 0 /\ ack' = 0 /\ pending' = 0
    <3>1. channel' = channel \/ tasks[t].gen = controlGeneration
      BY DEF Proceeds
    <3>2. channel' = channel \/ state = "admitting"
      BY <1>1, <1>2, <3>1 DEF ControlInv, TaskShape
    <3>3. UNCHANGED <<state, ack, pending>>
      BY DEF Proceeds
    <3>4. QED
      BY <3>2, <3>3 DEF ControlInv, TaskShape
  <2>3. ASSUME channel' # 0, state' \in {"admitting", "ready"}
        PROVE  /\ channel' \in DOMAIN tasks' /\ tasks'[channel'].gen = controlGeneration'
               /\ tasks'[channel'].stage \notin {"lock", "failed"} /\ ~owners'[channel'].closing
    <3>1. channel' \in Control!Admissions
      BY <2>3, ControlConstants DEF Proceeds, ControlTypes, Control!Admissions
    <3>2. /\ channel' \in DOMAIN tasks /\ tasks[channel'].gen = controlGeneration /\ ~owners[channel'].closing
          /\ channel' # t => tasks[channel'].stage \notin {"lock", "failed"}
      BY <1>1, <2>3 DEF ControlInv, TaskShape, Proceeds
    <3>3. ~owners'[channel'].closing
      BY <3>1, <3>2 DEF Proceeds
    <3>4. QED
      BY <1>1, <1>2, <3>2, <3>3 DEF Proceeds
  <2>4. QED
    BY <2>1, <2>2, <2>3 DEF TaskShape
<1>4. SessionShape'
  <2>1. s \in Unadmitted /\ s \notin Admitted /\ tasks[t].stage \in Unadmitted
    BY <1>2 DEF Proceeds, Admitted
  <2>2. QED
    BY <1>1, <2>1 DEF ControlInv, SessionShape, Proceeds
<1>5. CallShape'
  <2>1. \A c \in controlCalls : c.who = "admission" => c.gen # tasks[t].gen
    BY <1>1, <1>2, AskStages, NoCallYet DEF ControlInv
  <2>2. ASSUME NEW c \in controlCalls' PROVE CallIsSound(c)' /\ AdmissionCallIsSound(c)'
    <3>1. c \in controlCalls /\ CallIsSound(c) /\ AdmissionCallIsSound(c)
      BY DEF ControlInv, CallShape, Proceeds
    <3>2. CallIsSound(c)'
      BY <3>1 DEF CallIsSound, Proceeds
    <3>3. QED
      BY <1>1, <2>1, <3>1, <3>2 DEF AdmissionCallIsSound, Proceeds
  <2>3. QED
    BY <2>2 DEF ControlInv, CallShape, Proceeds
<1>6. WireShape'
  BY DEF ControlInv, WireShape, InSession, Proceeds
<1>7. ProofShape'
  BY <1>1, <1>2 DEF ControlInv, ProofShape, Proceeds
<1>8. LeaseShape'
  BY <1>1, <1>2 DEF ControlInv, LeaseShape, InSession, Proceeds
<1>9. QED
  BY <1>3, <1>4, <1>5, <1>6, <1>7, <1>8 DEF ControlInv, Proceeds

\* Every admission is one that was counted.
LEMMA TasksAdmitted ==
  ASSUME ControlTypes
  PROVE  /\ DOMAIN tasks \subseteq Control!Admissions /\ DOMAIN tasks = 1..Len(tasks) /\ Len(tasks) \in Nat
         /\ \A t \in DOMAIN tasks : tasks[t] \in TaskRecords /\ tasks[t].gen \in Nat /\ t \in Nat /\ t # 0
<1>1. tasks \in Seq(TaskRecords) /\ Len(tasks) <= MaxAdmissions /\ MaxAdmissions \in Nat
  BY ControlConstants DEF ControlTypes
<1>2. \A t \in DOMAIN tasks : tasks[t] \in TaskRecords
  BY <1>1
<1>3. QED
  BY <1>1, <1>2 DEF TaskRecords, Control!Admissions

\* An admission takes the free lock; if the lock is not free it fails.
LEMMA LockAcquired ==
  ASSUME ControlInv, NEW t \in Control!Admissions, Control!AcquireLock(t)
  PROVE  ControlInv'
<1>1. t \in DOMAIN tasks /\ tasks[t].stage = "lock" /\ tasks[t].stage \in Unadmitted
  BY DEF Control!AcquireLock, Control!At, Unadmitted
<1>2. CASE lock # 0
  BY <1>1, <1>2, AdmissionGivesUp DEF Control!AcquireLock
<1>3. CASE lock = 0
  <2>1. /\ lock' = t /\ owner' = t /\ Control!Stage(t, "selection")
        /\ UNCHANGED <<Control!controlVars, controlCalls, owners, controlIssued, Control!workerVars>>
    BY <1>3 DEF Control!AcquireLock
  <2>2. Staged(t, "selection")
    BY <1>1, <2>1, StageFacts DEF ControlInv, TaskStages, Unadmitted
  <2>3. ControlTypes'
    BY <2>1, <2>2, ControlConstants DEF ControlInv, ControlTypes, Staged, Control!controlVars, Control!Admissions
  <2>4. \A o \in Control!Admissions : owners[o].opening \notin {"pending", "open", "stuck"}
    BY <1>3, ControlConstants DEF ControlInv, LockShape, Control!PortHasOneOwner, Control!Admissions
  <2>5. ~owners[t].closing /\ ~owners[t].released
    BY <1>1 DEF ControlInv, LockShape
  <2>6. \A i \in DOMAIN tasks : i # t /\ tasks[i].stage \notin {"lock", "failed"} => owners[i].released
    BY <1>3, TasksAdmitted DEF ControlInv, LockShape
  <2>7. LockShape'
    BY <2>1, <2>2, <2>4, <2>5, <2>6 DEF ControlInv, LockShape, Control!PortHasOneOwner, Staged
  <2>8. Proceeds(t, "selection")
    BY <1>1, <2>1, <2>2, <2>3, <2>7 DEF Proceeds, Unadmitted, Control!controlVars, Control!workerVars
  <2>9. QED
    BY <2>8, AdmissionProceeds
<1>4. QED
  BY <1>2, <1>3

\* A lock that is held stays held while an admission that holds it goes on.
LEMMA HolderProceeds ==
  ASSUME ControlTypes, LockShape, NEW t, NEW s \in TaskStages \ {"lock", "failed"}, Staged(t, s),
         tasks[t].stage \notin {"lock", "failed"}, UNCHANGED <<owners, lock, owner>>
  PROVE  LockShape'
BY DEF LockShape, Control!PortHasOneOwner, Staged

\* The port is chosen and its open begins.
LEMMA PortSelected ==
  ASSUME ControlInv, NEW t \in Control!Admissions, Control!Selected(t)
  PROVE  ControlInv'
<1>1. UNCHANGED <<Control!controlVars, owner, controlCalls, controlIssued, lock, Control!workerVars>>
  BY DEF Control!Selected
<1>2. CASE Control!At(t, "selection") /\ Control!Stage(t, "scope")
  <2>1. t \in DOMAIN tasks /\ tasks[t].stage = "selection" /\ owners' = owners
    BY <1>2 DEF Control!Selected, Control!At
  <2>2. Staged(t, "scope")
    BY <1>2, <2>1, StageFacts DEF ControlInv, TaskStages, Unadmitted
  <2>3. ControlTypes'
    BY <1>1, <2>1, <2>2 DEF ControlInv, ControlTypes, Staged, Control!controlVars
  <2>4. LockShape'
    BY <1>1, <2>1, <2>2, HolderProceeds DEF ControlInv, TaskStages, Unadmitted
  <2>5. Proceeds(t, "scope")
    BY <1>1, <2>1, <2>2, <2>3, <2>4 DEF Proceeds, Unadmitted, Control!controlVars, Control!workerVars
  <2>6. QED
    BY <2>5, AdmissionProceeds
<1>3. CASE Control!At(t, "scope") /\ ~owners[t].closing /\ Control!Stage(t, "opening")
  <2>1. t \in DOMAIN tasks /\ tasks[t].stage = "scope" /\ owners' = [owners EXCEPT ![t].opening = "pending"]
    BY <1>3 DEF Control!Selected, Control!At
  <2>2. Staged(t, "opening")
    BY <1>3, <2>1, StageFacts DEF ControlInv, TaskStages, Unadmitted
  <2>3. owners \in [Control!Admissions -> OwnerRecords]
    BY DEF ControlInv, ControlTypes
  <2>4. /\ owners' \in [Control!Admissions -> OwnerRecords]
        /\ \A o \in Control!Admissions :
             /\ o # t => owners'[o] = owners[o]
             /\ owners'[o].closing = owners[o].closing /\ owners'[o].released = owners[o].released
    BY <2>1, <2>3 DEF OwnerRecords
  <2>5. ControlTypes'
    BY <1>1, <2>2, <2>4 DEF ControlInv, ControlTypes, Staged, Control!controlVars
  <2>6. \A o \in Control!Admissions : (owners'[o].closing <=> owners[o].closing) /\ (owners'[o].released <=> owners[o].released)
    BY <2>4, Zenon
  <2>7. lock = t
    BY <1>3, <2>1 DEF ControlInv, LockShape
  <2>8. Control!PortHasOneOwner'
    BY <1>1, <2>4, <2>7 DEF ControlInv, LockShape, Control!PortHasOneOwner
  <2>9. LockShape'
    <3>1. \A i \in DOMAIN tasks' : i \in Control!Admissions /\ i \in DOMAIN tasks
      BY <2>2, TasksAdmitted DEF ControlInv, Staged
    <3>2. QED
      BY <1>1, <2>1, <2>2, <2>6, <2>8, <3>1 DEF ControlInv, LockShape, Staged
  <2>10. Proceeds(t, "opening")
    BY <1>1, <2>1, <2>2, <2>5, <2>6, <2>9 DEF Proceeds, Unadmitted, Control!controlVars, Control!workerVars
  <2>11. QED
    BY <2>10, AdmissionProceeds
<1>4. QED
  BY <1>2, <1>3 DEF Control!Selected

\* The channel is attached to the port that was opened.
LEMMA PortOpened ==
  ASSUME ControlInv, NEW t \in Control!Admissions, Control!Opened(t)
  PROVE  ControlInv'
<1>1. /\ t \in DOMAIN tasks /\ tasks[t].stage = "opening" /\ tasks[t].gen = controlGeneration /\ ~owners[t].closing
      /\ channel' = t /\ Control!Stage(t, "hello")
  BY DEF Control!Opened, Control!At, Control!Current
<1>2. UNCHANGED <<state, controlGeneration, activeLease, ack, closing, pending, owner, controlCalls,
                  controlIssued, owners, lock, controlSession, controlLease, controlWire, replies, proved>>
  BY DEF Control!Opened, Control!workerVars
<1>3. Staged(t, "hello")
  BY <1>1, StageFacts DEF ControlInv, TaskStages, Unadmitted
<1>4. ControlTypes'
  BY <1>1, <1>2, <1>3, ControlConstants DEF ControlInv, ControlTypes, Staged, Control!Admissions
<1>5. LockShape'
  BY <1>1, <1>2, <1>3, HolderProceeds DEF ControlInv, TaskStages, Unadmitted
<1>6. Proceeds(t, "hello")
  BY <1>1, <1>2, <1>3, <1>4, <1>5 DEF Proceeds, Unadmitted
<1>7. QED
  BY <1>6, AdmissionProceeds

\* A new admission is the current one, and nothing of an earlier session is left to it.
LEMMA PermissionRequested ==
  ASSUME ControlInv, Control!RequestPermission
  PROVE  ControlInv'
<1> DEFINE n == Len(tasks) + 1
<1> DEFINE r == [gen |-> controlGeneration + 1, stage |-> "lock"]
<1>1. /\ state \in {"unconnected", "closed"} /\ Control!MicrotasksDone /\ Len(tasks) < MaxAdmissions
      /\ state' = "admitting" /\ controlGeneration' = controlGeneration + 1 /\ tasks' = Append(tasks, r)
      /\ UNCHANGED <<activeLease, ack, channel, closing, pending, owner, controlCalls, controlIssued, owners, lock,
                     controlSession, controlLease, controlWire, replies, proved>>
  BY DEF Control!RequestPermission, Control!workerVars
<1>2. tasks \in Seq(TaskRecords) /\ Len(tasks) \in Nat /\ controlGeneration \in Nat
  BY DEF ControlInv, ControlTypes
<1>3. r \in TaskRecords /\ r.gen = controlGeneration' /\ r.stage = "lock"
  BY <1>1, <1>2 DEF TaskRecords, TaskStages, Unadmitted
<1> HIDE DEF r
<1>4. /\ tasks' \in Seq(TaskRecords) /\ Len(tasks') = n /\ DOMAIN tasks' = DOMAIN tasks \cup {n}
      /\ tasks'[n] = r /\ \A i \in DOMAIN tasks : tasks'[i] = tasks[i] /\ i < n
  BY <1>1, <1>2, <1>3
<1>5. n \in Control!Admissions /\ n \notin DOMAIN tasks
  BY <1>1, <1>2, ControlConstants DEF Control!Admissions
<1>6. \A i \in DOMAIN tasks : tasks[i].gen \in Nat /\ tasks[i].gen < controlGeneration' /\ i \in Nat
  BY <1>1, <1>2, TasksAdmitted DEF ControlInv, TaskShape
<1>7. channel = 0 /\ ack = 0 /\ pending = 0
  BY <1>1 DEF ControlInv, TaskShape
<1> HIDE DEF n
<1>8. ControlTypes'
  <2>1. Len(tasks') <= MaxAdmissions
    BY <1>1, <1>2, <1>4, ControlConstants DEF n
  <2>2. closing' = "none"
    BY <1>1 DEF ControlInv, ControlTypes
  <2>3. QED
    BY <1>1, <1>2, <1>4, <2>1, <2>2 DEF ControlInv, ControlTypes
<1>9. LockShape'
  BY <1>1, <1>3, <1>4, <1>5 DEF ControlInv, LockShape, Control!PortHasOneOwner
<1>10. TaskShape'
  <2>1. ASSUME NEW i \in DOMAIN tasks'
        PROVE  /\ tasks'[i].gen <= controlGeneration'
               /\ \A j \in DOMAIN tasks' : j < i => tasks'[j].gen < tasks'[i].gen
    <3>1. CASE i = n
      <4>1. \A j \in DOMAIN tasks' : j < i => j \in DOMAIN tasks
        BY <1>2, <1>4, <3>1 DEF n
      <4>2. QED
        BY <1>1, <1>2, <1>3, <1>4, <1>6, <3>1, <4>1
    <3>2. CASE i # n
      <4>1. i \in DOMAIN tasks
        BY <1>4, <3>2
      <4>2. \A j \in DOMAIN tasks' : j < i => j \in DOMAIN tasks
        BY <1>2, <1>4, <1>6, <4>1 DEF n
      <4>3. QED
        BY <1>1, <1>2, <1>4, <1>6, <4>1, <4>2 DEF ControlInv, TaskShape
    <3>3. QED
      BY <3>1, <3>2
  <2>2. \A i \in DOMAIN tasks' : tasks'[i].stage = "done" => tasks'[i].gen # controlGeneration'
    BY <1>1, <1>2, <1>3, <1>4, <1>6
  <2>3. QED
    BY <1>1, <1>7, <2>1, <2>2 DEF TaskShape
<1>11. SessionShape'
  <2>1. \A c \in controlCalls : c.gen \in Nat /\ c.gen <= controlGeneration
    BY DEF ControlInv, CallShape, CallIsSound, CallRecords
  <2>2. \A c \in controlCalls' : c.gen # controlGeneration'
    BY <1>1, <1>2, <2>1
  <2>3. \A i \in DOMAIN tasks' : tasks'[i].gen = controlGeneration' => tasks'[i].stage \notin Admitted
    <3>1. \A i \in DOMAIN tasks' : tasks'[i].gen = controlGeneration' => i = n
      BY <1>2, <1>4, <1>6
    <3>2. QED
      BY <1>3, <1>4, <3>1 DEF Admitted
  <2>4. closing' = "none"
    BY <1>1 DEF ControlInv, ControlTypes
  <2>5. QED
    BY <1>1, <1>7, <2>2, <2>3, <2>4 DEF ControlInv, SessionShape
<1>12. CallShape'
  <2>1. ASSUME NEW c \in controlCalls
        PROVE  CallIsSound(c)' /\ AdmissionCallIsSound(c)'
    <3>1. /\ c \in CallRecords /\ CallIsSound(c) /\ AdmissionCallIsSound(c) /\ c.gen \in Nat
          /\ c.phase \in {"waiting", "failed"} \/ (c.cmd = "prove" /\ c.phase = "checked")
      BY <1>1 DEF ControlInv, CallShape, CallRecords, Control!MicrotasksDone
    <3>2. c.gen # controlGeneration' /\ c.gen <= controlGeneration'
      BY <1>1, <1>2, <3>1 DEF CallIsSound
    <3>3. c.phase # "waiting"
      BY <1>7, <3>1 DEF CallIsSound
    <3>4. CallIsSound(c)'
      BY <1>1, <1>7, <3>1, <3>2, <3>3 DEF CallIsSound
    <3>5. \A i \in DOMAIN tasks' : tasks'[i].gen = c.gen => i \in DOMAIN tasks /\ tasks'[i] = tasks[i]
      BY <1>3, <1>4, <3>2
    <3>6. QED
      BY <1>1, <3>1, <3>4, <3>5 DEF AdmissionCallIsSound
  <2>2. QED
    BY <1>1, <1>7, <2>1 DEF ControlInv, CallShape
<1>13. ~InSession'
  BY <1>1, <1>7 DEF InSession
<1>14. WireShape'
  BY <1>1, <1>13 DEF ControlInv, WireShape
<1>15. \A i \in DOMAIN tasks' : tasks'[i].gen = controlGeneration' => tasks'[i].stage = "lock"
  BY <1>2, <1>3, <1>4, <1>6
<1>16. ProofShape' /\ LeaseShape'
  BY <1>1, <1>13, <1>15 DEF ControlInv, ProofShape, LeaseShape
<1>17. QED
  BY <1>8, <1>9, <1>10, <1>11, <1>12, <1>14, <1>16 DEF ControlInv

\* An owner's port opens or fails to, is closed, or does not close.
LEMMA OwnerMoves ==
  ASSUME ControlInv, NEW o \in Control!Admissions,
         Control!NativeOpenSettles(o) \/ Control!OwnerCloses(o) \/ Control!OwnerStuck(o)
  PROVE  ControlInv'
<1>1. UNCHANGED <<state, controlGeneration, activeLease, ack, channel, closing, pending, owner, controlCalls,
                  controlIssued, tasks, controlSession, controlLease, controlWire, replies, proved>>
  BY DEF Control!NativeOpenSettles, Control!OwnerCloses, Control!OwnerStuck, Control!controlVars, Control!workerVars
<1>2. owners \in [Control!Admissions -> OwnerRecords] /\ owners[o] \in OwnerRecords
  BY DEF ControlInv, ControlTypes
<1>3. ASSUME NEW r \in OwnerRecords, owners' = [owners EXCEPT ![o] = r], r.closing = owners[o].closing,
             \/ lock' = lock /\ r.released = owners[o].released /\ lock = o
             \/ lock' = (IF lock = o THEN 0 ELSE lock) /\ r.released = TRUE /\ owners[o].closing
                /\ r.opening \notin {"pending", "open", "stuck"}
      PROVE  ControlInv'
  <2>1. owners' \in [Control!Admissions -> OwnerRecords] /\ owners'[o] = r
        /\ \A x \in Control!Admissions : x # o => owners'[x] = owners[x]
    BY <1>2, <1>3
  <2>2. \A x \in Control!Admissions : owners'[x].closing = owners[x].closing
    BY <1>3, <2>1
  <2>3. \A x \in Control!Admissions : owners'[x].closing <=> owners[x].closing
    BY <2>2, Zenon
  <2>4. ControlTypes'
    BY <1>1, <1>3, <2>1, ControlConstants DEF ControlInv, ControlTypes
  <2>5. DOMAIN tasks \subseteq Control!Admissions
    BY TasksAdmitted DEF ControlInv
  <2>6. LockShape'
    <3>1. CASE lock' = lock /\ r.released = owners[o].released /\ lock = o
      <4>1. \A x \in Control!Admissions : owners'[x].released = owners[x].released
        BY <2>1, <3>1
      <4>2. \A x \in Control!Admissions : owners'[x].released <=> owners[x].released
        BY <4>1, Zenon
      <4>3. Control!PortHasOneOwner'
        BY <2>1, <3>1 DEF ControlInv, LockShape, Control!PortHasOneOwner
      <4>4. QED
        BY <1>1, <2>3, <2>5, <3>1, <4>2, <4>3 DEF ControlInv, LockShape
    <3>2. CASE /\ lock' = (IF lock = o THEN 0 ELSE lock) /\ r.released = TRUE /\ owners[o].closing
               /\ r.opening \notin {"pending", "open", "stuck"}
      <4>1. owners'[o].released
        BY <2>1, <3>2, Zenon
      <4>2. \A x \in Control!Admissions : x # o => (owners'[x].released <=> owners[x].released)
        BY <2>1, Zenon
      <4>3. o # 0 /\ o \in DOMAIN tasks /\ tasks[o].stage # "lock"
        BY <3>2 DEF ControlInv, LockShape, Control!Admissions
      <4>4. Control!PortHasOneOwner'
        BY <2>1, <3>2 DEF ControlInv, LockShape, Control!PortHasOneOwner
      <4>5. \A x \in Control!Admissions : owners'[x].released => owners'[x].closing /\ lock' # x
        <5>1. 0 \notin Control!Admissions
          BY DEF Control!Admissions
        <5>2. QED
          BY <2>3, <3>2, <4>2, <4>3, <5>1 DEF ControlInv, LockShape
      <4>6. \A x \in Control!Admissions : x \notin DOMAIN tasks' \/ tasks'[x].stage = "lock" =>
              ~owners'[x].closing /\ lock' # x /\ owner' # x
        <5>1. 0 \notin Control!Admissions
          BY DEF Control!Admissions
        <5>2. QED
          BY <1>1, <2>3, <3>2, <5>1 DEF ControlInv, LockShape
      <4>7. \A t \in DOMAIN tasks' : tasks'[t].stage \notin {"lock", "failed"} /\ ~owners'[t].released => lock' = t
        BY <1>1, <2>5, <3>2, <4>1, <4>2 DEF ControlInv, LockShape
      <4>8. lock' # 0 => owner' = lock'
        BY <1>1, <3>2 DEF ControlInv, LockShape
      <4>9. QED
        BY <4>4, <4>5, <4>6, <4>7, <4>8 DEF LockShape
    <3>3. QED
      BY <1>3, <3>1, <3>2
  <2>7. TaskShape'
    BY <1>1, <2>3, <2>5 DEF ControlInv, TaskShape
  <2>8. SessionShape' /\ CallShape'
    BY <1>1 DEF ControlInv, SessionShape, CallShape, CallIsSound, AdmissionCallIsSound
  <2>9. WireShape' /\ ProofShape' /\ LeaseShape'
    BY <1>1 DEF ControlInv, WireShape, ProofShape, LeaseShape, InSession
  <2>10. QED
    BY <2>4, <2>6, <2>7, <2>8, <2>9 DEF ControlInv
<1>4. CASE Control!NativeOpenSettles(o)
  <2>1. PICK p \in {"open", "failed"} : owners' = [owners EXCEPT ![o] = [owners[o] EXCEPT !.opening = p]]
    BY <1>4 DEF Control!NativeOpenSettles
  <2>2. lock = o /\ lock' = lock
    BY <1>4 DEF Control!NativeOpenSettles, ControlInv, LockShape, Control!PortHasOneOwner
  <2>3. /\ [owners[o] EXCEPT !.opening = p] \in OwnerRecords
        /\ [owners[o] EXCEPT !.opening = p].closing = owners[o].closing
        /\ [owners[o] EXCEPT !.opening = p].released = owners[o].released
    BY <1>2 DEF OwnerRecords
  <2>4. QED
    BY <1>3, <2>1, <2>2, <2>3
<1>5. CASE Control!OwnerStuck(o)
  <2>1. owners' = [owners EXCEPT ![o] = [owners[o] EXCEPT !.opening = "stuck"]]
    BY <1>5 DEF Control!OwnerStuck
  <2>2. lock = o /\ lock' = lock
    BY <1>5 DEF Control!OwnerStuck, ControlInv, LockShape, Control!PortHasOneOwner
  <2>3. /\ [owners[o] EXCEPT !.opening = "stuck"] \in OwnerRecords
        /\ [owners[o] EXCEPT !.opening = "stuck"].closing = owners[o].closing
        /\ [owners[o] EXCEPT !.opening = "stuck"].released = owners[o].released
    BY <1>2 DEF OwnerRecords
  <2>4. QED
    BY <1>3, <2>1, <2>2, <2>3
<1>6. CASE Control!OwnerCloses(o)
  <2> DEFINE r == [owners[o] EXCEPT !.released = TRUE, !.opening = IF @ = "open" THEN "none" ELSE @]
  <2>1. owners' = [owners EXCEPT ![o] = r]
    BY <1>2, <1>6 DEF Control!OwnerCloses
  <2>2. lock' = (IF lock = o THEN 0 ELSE lock) /\ owners[o].closing /\ owners[o].opening \in {"none", "open", "failed"}
    BY <1>6 DEF Control!OwnerCloses, Control!OpeningSettled
  <2>3. r \in OwnerRecords /\ r.closing = owners[o].closing /\ r.released = TRUE
    BY <1>2 DEF OwnerRecords
  <2>4. r.opening \notin {"pending", "open", "stuck"}
    BY <1>2, <2>2 DEF OwnerRecords
  <2> HIDE DEF r
  <2>5. QED
    BY <1>3, <2>1, <2>2, <2>3, <2>4
<1>7. QED
  BY <1>4, <1>5, <1>6

\* The Worker's lease runs out.
LEMMA LeaseRunsOut ==
  ASSUME ControlInv, Control!LeaseEnds
  PROVE  ControlInv'
<1>1. /\ controlLease' = FALSE
      /\ UNCHANGED <<state, controlGeneration, activeLease, ack, channel, closing, pending, owner, owners, lock,
                     controlCalls, controlIssued, tasks, controlSession, controlWire, replies, proved>>
  BY DEF Control!LeaseEnds, Control!controlVars
<1>2. ~controlLease'
  BY <1>1, Zenon
<1>3. ControlTypes' /\ LockShape' /\ TaskShape'
  BY <1>1 DEF ControlInv, ControlTypes, LockShape, TaskShape, Control!PortHasOneOwner
<1>4. SessionShape' /\ CallShape'
  BY <1>1 DEF ControlInv, SessionShape, CallShape, CallIsSound, AdmissionCallIsSound
<1>5. WireShape' /\ ProofShape' /\ LeaseShape'
  BY <1>1, <1>2 DEF ControlInv, WireShape, ProofShape, LeaseShape, InSession
<1>6. QED
  BY <1>3, <1>4, <1>5 DEF ControlInv

\* No two admissions are current.
LEMMA OneIsCurrent ==
  ASSUME ControlTypes, TaskShape, NEW s \in DOMAIN tasks, NEW t \in DOMAIN tasks, tasks[s].gen = tasks[t].gen
  PROVE  s = t
<1>1. s \in Nat /\ t \in Nat /\ tasks[s].gen \in Nat /\ tasks[t].gen \in Nat
  BY TasksAdmitted
<1>2. ~(tasks[s].gen < tasks[t].gen) /\ ~(tasks[t].gen < tasks[s].gen)
  BY <1>1
<1>3. ~(s < t) /\ ~(t < s)
  BY <1>2 DEF TaskShape
<1>4. QED
  BY <1>1, <1>3

\* The Worker begins a new session, in which nothing is under way.
LEMMA SessionBegins ==
  ASSUME ControlInv, NEW t \in Control!Admissions, Control!HelloAcknowledged(t)
  PROVE  ControlInv'
<1>1. /\ t \in DOMAIN tasks /\ tasks[t].stage = "hello" /\ tasks[t].gen = controlGeneration
      /\ controlSession' = controlSession + 1 /\ controlWire' = <<>> /\ replies' = <<>>
      /\ ack' = controlSession + 1 /\ Control!Stage(t, "discover")
      /\ UNCHANGED <<state, controlGeneration, activeLease, channel, closing, pending, owner, controlCalls,
                     controlIssued, owners, lock, controlLease, proved>>
  BY DEF Control!HelloAcknowledged, Control!At, Control!Current
<1>2. Staged(t, "discover")
  BY <1>1, StageFacts DEF ControlInv, TaskStages, Admitted
<1>3. /\ ack = 0 /\ pending = 0 /\ \A c \in controlCalls : c.gen # controlGeneration
      /\ state = "admitting" /\ controlSession \in Nat
  BY <1>1 DEF ControlInv, SessionShape, TaskShape, Unadmitted
<1>4. \A i \in DOMAIN tasks' : tasks'[i].gen = controlGeneration' => i = t /\ tasks'[i].stage = "discover"
  BY <1>1, <1>2, OneIsCurrent DEF Staged, ControlInv
<1>5. ControlTypes'
  BY <1>1, <1>2 DEF ControlInv, ControlTypes, Staged
<1>6. LockShape'
  BY <1>1, <1>2, HolderProceeds DEF ControlInv, TaskStages, Admitted
<1>7. TaskShape'
  <2>1. \A i \in DOMAIN tasks' : tasks'[i].gen <= controlGeneration' /\ \A j \in DOMAIN tasks' : j < i => tasks'[j].gen < tasks'[i].gen
    BY <1>1, <1>2 DEF ControlInv, TaskShape, Staged
  <2>2. channel' # 0 => /\ channel' \in DOMAIN tasks' /\ tasks'[channel'].gen = controlGeneration'
                        /\ tasks'[channel'].stage \notin {"lock", "failed"} /\ ~owners'[channel'].closing
    BY <1>1, <1>2, <1>3 DEF ControlInv, TaskShape, Staged
  <2>3. QED
    BY <1>1, <1>3, <1>4, <2>1, <2>2 DEF TaskShape
<1>8. SessionShape'
  BY <1>1, <1>3, <1>4 DEF SessionShape, Unadmitted
<1>9. CallShape'
  <2>1. ASSUME NEW c \in controlCalls'
        PROVE  CallIsSound(c)' /\ AdmissionCallIsSound(c)'
    <3>1. c \in controlCalls /\ CallIsSound(c) /\ AdmissionCallIsSound(c) /\ c.gen # controlGeneration
      BY <1>1, <1>3 DEF ControlInv, CallShape
    <3>2. CallIsSound(c)'
      BY <1>1, <1>3, <3>1 DEF CallIsSound
    <3>3. QED
      BY <1>1, <1>2, <3>1, <3>2 DEF AdmissionCallIsSound, Staged
  <2>2. QED
    BY <1>1, <1>3, <2>1 DEF ControlInv, CallShape
<1>10. DOMAIN controlWire' = {} /\ DOMAIN replies' = {} /\ controlWire' \in Seq(WireRecords) /\ replies' \in Seq(ReplyRecords)
  BY <1>1
<1>11. WireShape'
  BY <1>10 DEF WireShape
<1>12. ProofShape'
  BY <1>1, <1>3, <1>4, <1>10 DEF ControlInv, ProofShape
<1>13. LeaseShape'
  BY <1>1, <1>3, <1>4, <1>10 DEF LeaseShape
<1>14. QED
  BY <1>5, <1>6, <1>7, <1>8, <1>9, <1>11, <1>12, <1>13 DEF ControlInv

\* The request that #exchange makes, and its record.
Request(cmd, who) ==
  [id |-> controlIssued + 1, cmd |-> cmd, who |-> who, gen |-> controlGeneration', session |-> ack,
   phase |-> "waiting", result |-> "none"]
Written(cmd, who) == [id |-> controlIssued + 1, cmd |-> cmd, who |-> who, session |-> ack]

\* #exchange: one more request, with a fresh number.
LEMMA ExchangeFacts ==
  ASSUME ControlInv, NEW cmd \in CallCommands, NEW who \in {"admission", "page", "close"}, controlGeneration' \in Nat,
         Control!Exchange(cmd, who, controlCalls)
  PROVE  /\ controlIssued' = controlIssued + 1 /\ pending' = controlIssued + 1 /\ controlIssued \in Nat
         /\ controlCalls' = controlCalls \cup {Request(cmd, who)}
         /\ controlWire' = Append(controlWire, Written(cmd, who))
         /\ Request(cmd, who) \in CallRecords /\ Written(cmd, who) \in WireRecords
         /\ controlWire' \in Seq(WireRecords) /\ Len(controlWire') = Len(controlWire) + 1 /\ Len(controlWire) \in Nat
         /\ DOMAIN controlWire' = DOMAIN controlWire \cup {Len(controlWire) + 1} /\ DOMAIN controlWire = 1..Len(controlWire)
         /\ controlWire'[Len(controlWire) + 1] = Written(cmd, who)
         /\ \A i \in DOMAIN controlWire : controlWire'[i] = controlWire[i]
         /\ \A c \in controlCalls : c \in CallRecords /\ c.id \in 1..controlIssued
         /\ \A i \in DOMAIN controlWire : controlWire[i].id \in Nat /\ controlWire[i].id <= controlIssued
<1>1. controlIssued \in Nat /\ ack \in Nat /\ controlWire \in Seq(WireRecords)
  BY DEF ControlInv, CallShape, SessionShape, WireShape
<1>2. Request(cmd, who) \in CallRecords /\ Written(cmd, who) \in WireRecords
  BY <1>1 DEF Request, Written, CallRecords, WireRecords
<1>3. /\ controlIssued' = controlIssued + 1 /\ pending' = controlIssued + 1
      /\ controlCalls' = controlCalls \cup {Request(cmd, who)}
      /\ controlWire' = Append(controlWire, Written(cmd, who))
  BY DEF Control!Exchange, Request, Written
<1>4. /\ controlWire' \in Seq(WireRecords) /\ Len(controlWire') = Len(controlWire) + 1 /\ Len(controlWire) \in Nat
      /\ DOMAIN controlWire' = DOMAIN controlWire \cup {Len(controlWire) + 1} /\ DOMAIN controlWire = 1..Len(controlWire)
      /\ controlWire'[Len(controlWire) + 1] = Written(cmd, who)
      /\ \A i \in DOMAIN controlWire : controlWire'[i] = controlWire[i]
  BY <1>1, <1>2, <1>3
<1>5. \A i \in DOMAIN controlWire : controlWire[i] \in WireRecords /\ controlWire[i].id <= controlIssued
  BY <1>1 DEF ControlInv, WireShape
<1>6. QED
  BY <1>1, <1>2, <1>3, <1>4, <1>5 DEF ControlInv, CallShape, CallIsSound, WireRecords

\* In a session without a pending request nothing is on its way.
LEMMA NothingOnItsWay ==
  ASSUME WireShape, InSession, pending = 0
  PROVE  DOMAIN controlWire = {} /\ DOMAIN replies = {}
BY DEF WireShape

\* A request begins in a session where none is pending: an admission's next question, or a
\* command of the page.
LEMMA ExchangeBegins ==
  ASSUME ControlInv, InSession, pending = 0, NEW cmd \in CallCommands, NEW who \in {"admission", "page"},
         Control!Exchange(cmd, who, controlCalls),
         UNCHANGED <<state, controlGeneration, activeLease, ack, channel, closing, owner, tasks, owners, lock,
                     controlSession, controlLease, replies, proved>>,
         state = "admitting" => who = "admission",
         who = "admission" =>
           /\ \A c \in controlCalls : c.who = "admission" => c.gen # controlGeneration
           /\ \A t \in DOMAIN tasks : tasks[t].gen = controlGeneration =>
                tasks[t].stage \in DOMAIN Control!Asks /\ cmd = Control!Asks[tasks[t].stage],
         \A t \in DOMAIN tasks : tasks[t].gen = controlGeneration => tasks[t].stage \notin Unadmitted \cup {"establish"},
         \A c \in controlCalls : c.gen = controlGeneration /\ c.phase \in {"answered", "checked"} => c.cmd = "prove"
  PROVE  ControlInv'
<1>1. controlGeneration' \in Nat
  BY DEF ControlInv, ControlTypes
<1>0. PICK x, m : x = Request(cmd, who) /\ m = Written(cmd, who)
  OBVIOUS
<1>2. /\ controlIssued' = controlIssued + 1 /\ pending' = controlIssued + 1 /\ controlIssued \in Nat
      /\ controlCalls' = controlCalls \cup {x}
      /\ x \in CallRecords
      /\ \A c \in controlCalls : c \in CallRecords /\ c.id \in 1..controlIssued
  BY <1>0, <1>1, ExchangeFacts
<1>3. /\ controlWire' \in Seq(WireRecords) /\ Len(controlWire') = 1 /\ DOMAIN controlWire' = {1} /\ controlWire'[1] = m
  <2>1. DOMAIN controlWire = {}
    BY NothingOnItsWay DEF ControlInv
  <2>2. Len(controlWire) \in Nat /\ DOMAIN controlWire = 1..Len(controlWire)
    BY DEF ControlInv, WireShape
  <2>3. Len(controlWire) = 0
    BY <2>1, <2>2
  <2>4. QED
    BY <1>0, <1>1, <2>1, <2>3, ExchangeFacts
<1>4. /\ x.id = controlIssued + 1 /\ x.cmd = cmd /\ x.who = who /\ x.gen = controlGeneration /\ x.session = ack
      /\ x.phase = "waiting"
      /\ m.id = controlIssued + 1 /\ m.cmd = cmd /\ m.session = ack
  BY <1>0 DEF Request, Written
<1>5. DOMAIN replies' = {} /\ replies' \in Seq(ReplyRecords) /\ Len(replies') = 0
  <2>1. DOMAIN replies = {} /\ replies \in Seq(ReplyRecords)
    BY NothingOnItsWay DEF ControlInv, WireShape
  <2>2. QED
    BY <2>1
<1>6. ControlTypes' /\ LockShape'
  BY DEF ControlInv, ControlTypes, LockShape, Control!PortHasOneOwner
<1>7. ack # 0 /\ state \in {"admitting", "ready"} /\ ack = controlSession
  BY DEF InSession, ControlInv, SessionShape
<1>8. TaskShape'
  BY <1>7 DEF ControlInv, TaskShape
<1>9. SessionShape'
  BY <1>7 DEF ControlInv, SessionShape
<1>10. CallShape'
  <2>1. ASSUME NEW c \in controlCalls
        PROVE  CallIsSound(c)' /\ AdmissionCallIsSound(c)'
    <3>1. CallIsSound(c) /\ AdmissionCallIsSound(c) /\ c \in CallRecords
      BY DEF ControlInv, CallShape
    <3>2. c.id \in 1..controlIssued' /\ c.id # pending' /\ c.id # pending
      BY <1>2
    <3>3. CallIsSound(c)'
      BY <3>1, <3>2 DEF CallIsSound
    <3>4. x.who = "admission" /\ c.who = "admission" => x.gen # c.gen
      BY <1>4
    <3>5. QED
      BY <1>2, <3>1, <3>3, <3>4 DEF AdmissionCallIsSound
  <2>2. CallIsSound(x)'
    BY <1>1, <1>2, <1>4 DEF CallIsSound
  <2>3. AdmissionCallIsSound(x)'
    BY <1>2, <1>4 DEF AdmissionCallIsSound
  <2>4. pending' \in 0..controlIssued' /\ controlIssued' \in Nat
    BY <1>2
  <2>5. QED
    BY <1>2, <1>4, <2>1, <2>2, <2>3, <2>4 DEF CallShape
<1>11. WireShape'
  <2>1. \A c \in controlCalls' : c.id = m.id => c.cmd = m.cmd
    BY <1>2, <1>4
  <2>2. m.session = controlSession' /\ m.id <= controlIssued' /\ m.id = pending' /\ pending' # 0
    BY <1>2, <1>4, <1>7
  <2>3. QED
    BY <1>3, <1>5, <2>1, <2>2 DEF WireShape
<1>12. ProofShape'
  BY <1>2, <1>4, <1>5 DEF ControlInv, ProofShape
<1>13. LeaseShape'
  <2>1. ASSUME NEW c \in controlCalls', c.gen = controlGeneration', c.phase \in {"answered", "checked"}
        PROVE  c.cmd = "prove" /\ c.result \in {"ok", "rejected"}
    BY <1>2, <1>4, <2>1 DEF ControlInv, ProofShape
  <2>2. state' = "ready" /\ controlLease' => activeLease' \/ \E c \in controlCalls' : c.gen = controlGeneration' /\ c.cmd = "start_lease"
    BY <1>2 DEF ControlInv, LeaseShape
  <2>3. QED
    BY <1>5, <2>1, <2>2 DEF LeaseShape
<1>14. QED
  BY <1>6, <1>8, <1>9, <1>10, <1>11, <1>12, <1>13 DEF ControlInv

\* An admission asks its next question.
LEMMA AdmissionAsks ==
  ASSUME ControlInv, NEW t \in Control!Admissions, Control!Ask(t)
  PROVE  ControlInv'
<1>1. /\ t \in DOMAIN tasks /\ tasks[t].stage \in DOMAIN Control!Asks /\ tasks[t].gen = controlGeneration
      /\ Control!AdmissionCall(t) = {} /\ pending = 0 /\ controlGeneration' = controlGeneration
      /\ Control!Exchange(Control!Asks[tasks[t].stage], "admission", controlCalls)
      /\ UNCHANGED <<state, activeLease, ack, channel, closing, owner, tasks, owners, lock, controlSession,
                     controlLease, replies, proved>>
  BY DEF Control!Ask, Control!Current
<1>2. tasks[t].stage \in {"discover", "prove", "baseline"} /\ Control!Asks[tasks[t].stage] \in CallCommands
  BY <1>1 DEF Control!Asks, CallCommands
<1>3. \A c \in controlCalls : c.who = "admission" => c.gen # controlGeneration
  BY <1>1 DEF Control!AdmissionCall
<1>4. state = "admitting"
  BY <1>1, <1>2 DEF ControlInv, TaskShape
<1>5. InSession
  BY <1>1, <1>2, <1>4 DEF InSession, ControlInv, SessionShape, Admitted
<1>6. \A s \in DOMAIN tasks : tasks[s].gen = controlGeneration => s = t
  BY <1>1, OneIsCurrent DEF ControlInv
<1>7. \A c \in controlCalls : c.gen # controlGeneration
  BY <1>3, <1>4 DEF ControlInv, CallShape, CallIsSound
<1>8. tasks[t].stage \notin Unadmitted \cup {"establish"}
  BY <1>2 DEF Unadmitted
<1>9. QED
  BY <1>1, <1>2, <1>3, <1>4, <1>5, <1>6, <1>7, <1>8, ExchangeBegins

\* The page gives a command.
LEMMA PageCommands ==
  ASSUME ControlInv, NEW cmd \in Control!Commands, Control!Command(cmd)
  PROVE  ControlInv'
<1>1. /\ state = "ready" /\ Control!MicrotasksDone /\ pending = 0 /\ controlGeneration' = controlGeneration
      /\ Control!Exchange(cmd, "page", controlCalls)
      /\ UNCHANGED <<state, activeLease, ack, channel, closing, owner, tasks, owners, lock, controlSession,
                     controlLease, replies, proved>>
  BY DEF Control!Command, Control!Ready
<1>2. cmd \in CallCommands
  BY DEF Control!Commands, CallCommands
<1>3. InSession
  BY <1>1 DEF InSession, ControlInv, SessionShape
<1>4. \A s \in DOMAIN tasks : tasks[s].gen = controlGeneration => tasks[s].stage \notin Unadmitted \cup {"establish"}
  BY <1>1 DEF ControlInv, TaskShape, Unadmitted
<1>5. \A c \in controlCalls : c.gen = controlGeneration /\ c.phase \in {"answered", "checked"} => c.cmd = "prove"
  BY <1>1 DEF Control!MicrotasksDone
<1>6. QED
  BY <1>1, <1>2, <1>3, <1>4, <1>5, ExchangeBegins

\* A close begins with the restore of the active lease.
LEMMA CloseRestores ==
  ASSUME ControlInv, Control!Close, Control!Exchange("restore", "close", controlCalls), pending = 0, ack # 0,
         state' = "closing", closing' = "restoring", UNCHANGED <<ack, channel, owners>>
  PROVE  ControlInv'
<1>1. /\ state \in {"admitting", "ready"} /\ controlGeneration' = controlGeneration + 1
      /\ UNCHANGED <<owner, tasks, lock, controlSession, controlLease, replies, proved>>
  BY DEF Control!Close
<1>2. controlGeneration \in Nat /\ controlGeneration' \in Nat
  BY <1>1 DEF ControlInv, ControlTypes
<1>0. PICK x, m : x = Request("restore", "close") /\ m = Written("restore", "close")
  OBVIOUS
<1>3. /\ controlIssued' = controlIssued + 1 /\ pending' = controlIssued + 1 /\ controlIssued \in Nat
      /\ controlCalls' = controlCalls \cup {x} /\ x \in CallRecords
      /\ \A c \in controlCalls : c \in CallRecords /\ c.id \in 1..controlIssued
      /\ controlWire' \in Seq(WireRecords)
      /\ \A i \in DOMAIN controlWire' : controlWire'[i] = m \/ (i \in DOMAIN controlWire /\ controlWire'[i] = controlWire[i])
      /\ \A i \in DOMAIN controlWire : controlWire[i].id \in Nat /\ controlWire[i].id <= controlIssued
  BY <1>0, <1>2, ExchangeFacts DEF CallCommands
<1>4. /\ x.id = controlIssued + 1 /\ x.cmd = "restore" /\ x.who = "close" /\ x.gen = controlGeneration'
      /\ x.session = ack /\ x.phase = "waiting"
      /\ m.id = controlIssued + 1 /\ m.cmd = "restore" /\ m.session = ack
  BY <1>0 DEF Request, Written
<1>5. \A t \in DOMAIN tasks : tasks[t].gen # controlGeneration'
  BY <1>1, <1>2, TasksAdmitted DEF ControlInv, TaskShape
<1>6. ControlTypes' /\ LockShape'
  BY <1>1, <1>2 DEF ControlInv, ControlTypes, LockShape, Control!PortHasOneOwner
<1>7. TaskShape'
  <2>1. \A t \in DOMAIN tasks : tasks[t].gen <= controlGeneration'
    BY <1>1, <1>2, TasksAdmitted DEF ControlInv, TaskShape
  <2>2. QED
    BY <1>1, <1>5, <2>1 DEF ControlInv, TaskShape
<1>8. SessionShape'
  BY <1>1, <1>5 DEF ControlInv, SessionShape
<1>9. CallShape'
  <2>1. ASSUME NEW c \in controlCalls
        PROVE  CallIsSound(c)' /\ AdmissionCallIsSound(c)'
    <3>1. CallIsSound(c) /\ AdmissionCallIsSound(c) /\ c \in CallRecords /\ c.gen \in Nat
      BY DEF ControlInv, CallShape, CallRecords
    <3>2. c.id \in 1..controlIssued' /\ c.id # pending' /\ c.id # pending
      BY <1>3
    <3>3. c.gen <= controlGeneration' /\ c.gen # controlGeneration'
      BY <1>1, <1>2, <3>1 DEF CallIsSound
    <3>4. CallIsSound(c)'
      BY <3>1, <3>2, <3>3 DEF CallIsSound
    <3>5. QED
      BY <1>1, <1>3, <1>4, <3>1, <3>4 DEF AdmissionCallIsSound
  <2>2. CallIsSound(x)' /\ AdmissionCallIsSound(x)'
    BY <1>2, <1>3, <1>4 DEF CallIsSound, AdmissionCallIsSound
  <2>3. pending' \in 0..controlIssued' /\ controlIssued' \in Nat
    BY <1>3
  <2>4. QED
    BY <1>3, <2>1, <2>2, <2>3 DEF CallShape
<1>10. ~InSession'
  BY DEF InSession
<1>11. WireShape'
  <2>1. ASSUME NEW i \in DOMAIN controlWire'
        PROVE  /\ controlWire'[i].session = controlSession' /\ controlWire'[i].id <= controlIssued'
               /\ \A c \in controlCalls' : c.id = controlWire'[i].id => c.cmd = controlWire'[i].cmd
    <3>1. CASE controlWire'[i] = m
      BY <1>1, <1>3, <1>4, <3>1 DEF ControlInv, SessionShape
    <3>2. CASE i \in DOMAIN controlWire /\ controlWire'[i] = controlWire[i]
      <4>1. /\ controlWire[i].session = controlSession /\ controlWire[i].id \in Nat /\ controlWire[i].id <= controlIssued
            /\ \A c \in controlCalls : c.id = controlWire[i].id => c.cmd = controlWire[i].cmd
        BY <1>3, <3>2, Zenon DEF ControlInv, WireShape
      <4>2. x.id # controlWire[i].id /\ controlWire[i].id <= controlIssued'
        BY <1>3, <1>4, <4>1
      <4>3. \A c \in controlCalls' : c.id = controlWire[i].id => c.cmd = controlWire[i].cmd
        BY <1>3, <4>1, <4>2, Zenon
      <4>4. QED
        BY <1>1, <3>2, <4>1, <4>2, <4>3, Zenon
    <3>3. QED
      BY <1>3, <3>1, <3>2
  <2>2. ASSUME NEW i \in DOMAIN replies'
        PROVE  replies'[i].session = controlSession' /\ replies'[i].id <= controlIssued'
    <3>1. replies \in Seq(ReplyRecords) /\ replies' = replies
      BY <1>1 DEF ControlInv, WireShape
    <3>2. replies[i] \in ReplyRecords /\ i \in DOMAIN replies
      BY <3>1
    <3>3. QED
      BY <1>1, <1>3, <3>1, <3>2 DEF ControlInv, WireShape, ReplyRecords
  <2>3. QED
    BY <1>1, <1>3, <1>10, <2>1, <2>2 DEF ControlInv, WireShape
<1>12. ProofShape' /\ LeaseShape'
  BY <1>1, <1>3, <1>4, <1>5, <1>10 DEF ControlInv, ProofShape, LeaseShape
<1>13. QED
  BY <1>6, <1>7, <1>8, <1>9, <1>11, <1>12 DEF ControlInv

\* What the Worker does with the record m.
Handles(m) ==
  /\ controlWire # <<>> /\ m = Head(controlWire) /\ controlWire' = Tail(controlWire)
  /\ proved \subseteq proved'
  /\ \/ replies' = replies
     \/ \E r \in ReplyRecords :
          /\ replies' = Append(replies, r) /\ r.id = m.id /\ r.session = controlSession
          /\ m.cmd = "prove" => r.result = "rejected" \/ (r.result = "ok" /\ controlSession \in proved')
          /\ r.result \in {"restored", "baseline"} => ~controlLease'
  /\ controlLease' => controlLease \/ m.cmd = "start_lease"
  /\ UNCHANGED <<state, controlGeneration, activeLease, ack, channel, closing, pending, owner, controlCalls,
                 controlIssued, tasks, owners, lock, controlSession>>

\* The Worker answers what it was asked, and starts a lease only when asked to.
LEMMA HandleFacts ==
  ASSUME ControlInv, Control!Handle
  PROVE  \E m \in WireRecords : Handles(m)
<1> DEFINE m == Head(controlWire)
<1> DEFINE known == m.session = controlSession
<1> DEFINE may == known /\ controlAdmitted
<1> DEFINE ends == m.cmd = "close" \/ (m.cmd = "restore" /\ may)
<1> DEFINE starts == m.cmd = "start_lease" /\ may /\ ~controlLease
<1>1. controlWire \in Seq(WireRecords) /\ controlWire # <<>> /\ controlSession \in Nat
  BY DEF ControlInv, WireShape, SessionShape, Control!Handle
<1>2. m \in WireRecords /\ m.session = controlSession
  <2>1. 1 \in DOMAIN controlWire /\ m = controlWire[1]
    BY <1>1
  <2>2. QED
    BY <1>1, <2>1 DEF ControlInv, WireShape
<1>3. PICK accepts \in BOOLEAN :
        /\ proved' = IF known /\ m.cmd = "prove" /\ accepts THEN proved \cup {controlSession} ELSE proved
        /\ controlLease' = IF known /\ ends THEN FALSE ELSE controlLease \/ (starts /\ accepts)
        /\ replies' = IF ~known \/ m.cmd = "close" THEN replies
                      ELSE Append(replies, [id |-> m.id, session |-> controlSession, result |->
                             IF ~accepts \/ (~may /\ m.cmd \notin {"discover", "prove"}) THEN "rejected"
                             ELSE CASE m.cmd \in {"discover", "prove"} -> "ok"
                                    [] m.cmd = "restore" -> "restored"
                                    [] OTHER -> IF controlLease' THEN "mining" ELSE "baseline"])
  BY DEF Control!Handle
<1>4. /\ controlWire' = Tail(controlWire)
      /\ UNCHANGED <<state, controlGeneration, activeLease, ack, channel, closing, pending, owner, controlCalls,
                     controlIssued, tasks, owners, lock, controlSession>>
  BY DEF Control!Handle, Control!controlVars
<1>5. controlLease' => controlLease \/ m.cmd = "start_lease"
  BY <1>3, Zenon
<1>6. ends => ~controlLease'
  BY <1>2, <1>3, Zenon
<1>7. proved \subseteq proved' /\ (m.cmd = "prove" /\ accepts => controlSession \in proved')
  BY <1>2, <1>3
<1>8. \/ replies' = replies
      \/ \E r \in ReplyRecords :
           /\ replies' = Append(replies, r) /\ r.id = m.id /\ r.session = controlSession
           /\ m.cmd = "prove" => r.result = "rejected" \/ (r.result = "ok" /\ controlSession \in proved')
           /\ r.result \in {"restored", "baseline"} => ~controlLease'
  <2>1. CASE m.cmd = "close"
    BY <1>3, <2>1
  <2>2. CASE m.cmd # "close"
    <3> DEFINE refused == ~accepts \/ (~may /\ m.cmd \notin {"discover", "prove"})
    <3> DEFINE good == CASE m.cmd \in {"discover", "prove"} -> "ok"
                         [] m.cmd = "restore" -> "restored"
                         [] OTHER -> IF controlLease' THEN "mining" ELSE "baseline"
    <3> DEFINE res == IF refused THEN "rejected" ELSE good
    <3>1. replies' = Append(replies, [id |-> m.id, session |-> controlSession, result |-> res])
      BY <1>2, <1>3, <2>2
    <3>2. good \in {"ok", "restored", "mining", "baseline"} /\ (m.cmd = "prove" => good = "ok")
      OBVIOUS
    <3>3. good = "restored" => m.cmd = "restore"
      OBVIOUS
    <3>4. good = "baseline" => ~controlLease'
      OBVIOUS
    <3>5. m.cmd = "restore" /\ ~refused => ends
      OBVIOUS
    <3>0. ~refused => accepts
      OBVIOUS
    <3> HIDE DEF good, refused
    <3>6. res \in {"ok", "rejected", "restored", "mining", "baseline"} /\ (m.cmd = "prove" => res = "rejected" \/ (res = "ok" /\ controlSession \in proved'))
      BY <1>7, <3>0, <3>2
    <3>7. res \in {"restored", "baseline"} => ~controlLease'
      BY <1>6, <3>3, <3>4, <3>5
    <3> HIDE DEF res, m
    <3>8. [id |-> m.id, session |-> controlSession, result |-> res] \in ReplyRecords
      BY <1>1, <1>2, <3>6 DEF ReplyRecords, WireRecords
    <3>9. QED
      BY <3>1, <3>6, <3>7, <3>8
  <2>3. QED
    BY <2>1, <2>2
<1> HIDE DEF m
<1>9. Handles(m)
  BY <1>1, <1>4, <1>5, <1>7, <1>8 DEF Handles, m
<1>10. QED
  BY <1>2, <1>9

\* The Worker takes a record and answers.
LEMMA WorkerHandles ==
  ASSUME ControlInv, Control!Handle
  PROVE  ControlInv'
<1>1. PICK m \in WireRecords : Handles(m)
  BY HandleFacts
<1>2. UNCHANGED <<state, controlGeneration, activeLease, ack, channel, closing, pending, owner, controlCalls,
                  controlIssued, tasks, owners, lock, controlSession>>
  BY <1>1 DEF Handles
<1>3. controlWire \in Seq(WireRecords) /\ replies \in Seq(ReplyRecords) /\ controlWire # <<>>
  BY <1>1 DEF Handles, ControlInv, WireShape
<1>4. 1 \in DOMAIN controlWire /\ m = controlWire[1] /\ Len(controlWire) \in Nat /\ Len(replies) \in Nat
  BY <1>1, <1>3 DEF Handles
<1>5. /\ controlWire' \in Seq(WireRecords) /\ Len(controlWire') = Len(controlWire) - 1
      /\ \A i \in DOMAIN controlWire' : i + 1 \in DOMAIN controlWire /\ controlWire'[i] = controlWire[i + 1]
  BY <1>1, <1>3, <1>4 DEF Handles
<1>6. /\ m.session = controlSession /\ m.id <= controlIssued
      /\ \A c \in controlCalls : c.id = m.id => c.cmd = m.cmd
      /\ InSession => m.id = pending /\ Len(controlWire) = 1 /\ Len(replies) = 0 /\ pending # 0
  BY <1>4 DEF ControlInv, WireShape
<1>7. /\ replies' \in Seq(ReplyRecords) /\ Len(replies') \in {Len(replies), Len(replies) + 1}
      /\ \A i \in DOMAIN replies' :
           \/ i \in DOMAIN replies /\ replies'[i] = replies[i]
           \/ /\ replies'[i].id = m.id /\ replies'[i].session = controlSession
              /\ m.cmd = "prove" => replies'[i].result = "rejected" \/ (replies'[i].result = "ok" /\ controlSession \in proved')
              /\ replies'[i].result \in {"restored", "baseline"} => ~controlLease'
  <2>1. CASE replies' = replies
    BY <1>3, <2>1
  <2>2. CASE replies' # replies
    <3>1. PICK r \in ReplyRecords :
            /\ replies' = Append(replies, r) /\ r.id = m.id /\ r.session = controlSession
            /\ m.cmd = "prove" => r.result = "rejected" \/ (r.result = "ok" /\ controlSession \in proved')
            /\ r.result \in {"restored", "baseline"} => ~controlLease'
      BY <1>1, <2>2 DEF Handles
    <3>2. /\ replies' \in Seq(ReplyRecords) /\ Len(replies') = Len(replies) + 1
          /\ \A i \in DOMAIN replies' : (i \in DOMAIN replies /\ replies'[i] = replies[i]) \/ replies'[i] = r
      BY <1>3, <3>1
    <3>3. QED
      BY <3>1, <3>2
  <2>3. QED
    BY <2>1, <2>2
<1>8. InSession => Len(controlWire') = 0 /\ DOMAIN controlWire' = {} /\ DOMAIN replies = {} /\ Len(replies') \in {0, 1}
  <2> SUFFICES ASSUME InSession PROVE Len(controlWire') = 0 /\ DOMAIN controlWire' = {} /\ DOMAIN replies = {} /\ Len(replies') \in {0, 1}
    OBVIOUS
  <2>1. Len(controlWire') = 0 /\ Len(replies) = 0
    <3>1. Len(controlWire) = 1 /\ Len(replies) = 0
      BY <1>6
    <3>2. Len(controlWire') = Len(controlWire) - 1
      BY <1>5
    <3>3. QED
      BY <3>1, <3>2
  <2>2. DOMAIN controlWire' = 1..Len(controlWire') /\ DOMAIN replies = 1..Len(replies)
    BY <1>3, <1>5
  <2>3. QED
    BY <1>7, <2>1, <2>2
<1>9. ControlTypes' /\ LockShape' /\ TaskShape'
  BY <1>2 DEF ControlInv, ControlTypes, LockShape, TaskShape, Control!PortHasOneOwner
<1>10. SessionShape' /\ CallShape'
  BY <1>2 DEF ControlInv, SessionShape, CallShape, CallIsSound, AdmissionCallIsSound
<1>11. InSession' <=> InSession
  BY <1>2 DEF InSession
<1>12. WireShape'
  <2>1. ASSUME NEW i \in DOMAIN controlWire'
        PROVE  /\ controlWire'[i].session = controlSession' /\ controlWire'[i].id <= controlIssued'
               /\ \A c \in controlCalls' : c.id = controlWire'[i].id => c.cmd = controlWire'[i].cmd
               /\ ~InSession
    BY <1>2, <1>5, <1>8 DEF ControlInv, WireShape
  <2>2. ASSUME NEW i \in DOMAIN replies'
        PROVE  /\ replies'[i].session = controlSession' /\ replies'[i].id <= controlIssued'
               /\ InSession => replies'[i].id = pending' /\ Len(controlWire') = 0 /\ Len(replies') = 1 /\ pending' # 0
    <3>1. CASE i \in DOMAIN replies /\ replies'[i] = replies[i]
      BY <1>2, <1>8, <3>1 DEF ControlInv, WireShape
    <3>2. CASE replies'[i].id = m.id /\ replies'[i].session = controlSession
      <4>1. Len(replies') # 0
        BY <1>7
      <4>2. QED
        BY <1>2, <1>6, <1>8, <3>2, <4>1
    <3>3. QED
      BY <1>7, <3>1, <3>2
  <2>3. QED
    BY <1>5, <1>7, <1>11, <2>1, <2>2 DEF WireShape
<1>13. ProofShape'
  <2>1. proved \subseteq proved'
    BY <1>1 DEF Handles
  <2>2. ASSUME NEW c \in controlCalls', c.cmd = "prove"
        PROVE  /\ c.phase \in {"answered", "checked"} => c.result = "rejected" \/ (c.result = "ok" /\ c.session \in proved')
               /\ \A i \in DOMAIN replies' : replies'[i].id = c.id =>
                    replies'[i].result = "rejected" \/ (replies'[i].result = "ok" /\ controlSession' \in proved')
    <3>1. c \in controlCalls /\ (m.id = c.id => m.cmd = "prove")
      BY <1>2, <1>6, <2>2
    <3>2. QED
      BY <1>2, <1>7, <2>1, <2>2, <3>1 DEF ControlInv, ProofShape
  <2>3. QED
    BY <1>2, <2>1, <2>2 DEF ControlInv, ProofShape
<1>14. LeaseShape'
  <2>1. InSession => \A i \in DOMAIN replies' : replies'[i].result \in {"restored", "baseline"} => ~controlLease'
    BY <1>7, <1>8
  <2>2. InSession => \A c \in controlCalls : c.gen = controlGeneration /\ c.phase \in {"answered", "checked"} =>
          c.cmd = "prove" /\ c.result \in {"ok", "rejected"}
    BY <1>6 DEF ControlInv, LeaseShape, ProofShape
  <2>3. ASSUME NEW t \in DOMAIN tasks, tasks[t].gen = controlGeneration, tasks[t].stage = "establish" PROVE FALSE
    <3>1. pending = 0 /\ state = "admitting" /\ ack # 0
      BY <2>3 DEF ControlInv, LeaseShape, TaskShape, SessionShape, Admitted
    <3>2. QED
      BY <1>6, <3>1 DEF InSession
  <2>4. ASSUME state = "ready", controlLease'
        PROVE  activeLease \/ \E c \in controlCalls : c.gen = controlGeneration /\ c.cmd = "start_lease"
    <3>1. CASE controlLease
      BY <2>4, <3>1 DEF ControlInv, LeaseShape
    <3>2. CASE m.cmd = "start_lease"
      <4>1. InSession
        BY <2>4 DEF InSession, ControlInv, SessionShape
      <4>2. PICK c \in controlCalls : c.id = pending /\ c.gen = controlGeneration
        BY <1>6, <2>4, <4>1 DEF ControlInv, CallShape
      <4>3. QED
        BY <1>6, <3>2, <4>1, <4>2
    <3>3. QED
      BY <1>1, <2>4, <3>1, <3>2 DEF Handles
  <2>5. QED
    BY <1>2, <1>11, <2>1, <2>2, <2>3, <2>4 DEF LeaseShape
<1>15. QED
  BY <1>9, <1>10, <1>12, <1>13, <1>14 DEF ControlInv

\* Every exchange stays, and of the request it is only its progress that changes.
CallsAdvance(f) ==
  /\ controlCalls' = {f[c] : c \in controlCalls}
  /\ \A c \in controlCalls :
       /\ f[c] \in CallRecords /\ f[c].id = c.id /\ f[c].cmd = c.cmd /\ f[c].who = c.who /\ f[c].gen = c.gen
       /\ f[c].session = c.session
       /\ f[c].phase = "waiting" <=> c.phase = "waiting" /\ c.id = pending'
       /\ f[c] # c => c.gen = controlGeneration \/ state \notin {"admitting", "ready"}
  /\ pending' \in {0, pending}
  /\ UNCHANGED <<state, controlGeneration, activeLease, ack, channel, closing, owner, controlIssued, tasks, owners, lock,
                 controlSession, controlLease, controlWire, proved>>

\* An answer arrives, or its continuation runs: all but what answers say is as it was.
LEMMA CallsGoOn ==
  ASSUME ControlInv, NEW f, CallsAdvance(f), state \in {"admitting", "ready"} /\ pending' # 0 => pending' = pending
  PROVE  ControlTypes' /\ LockShape' /\ TaskShape' /\ SessionShape' /\ CallShape'
<1> USE DEF CallsAdvance
<1>1. ControlTypes' /\ LockShape' /\ TaskShape'
  BY DEF ControlInv, ControlTypes, LockShape, TaskShape, Control!PortHasOneOwner
<1>2. \A d \in controlCalls' : \E c \in controlCalls : d = f[c] /\ d.gen = c.gen
  OBVIOUS
<1>3. SessionShape'
  BY <1>2 DEF ControlInv, SessionShape
<1>4. ASSUME NEW d \in controlCalls'
      PROVE  d \in CallRecords /\ CallIsSound(d)' /\ AdmissionCallIsSound(d)'
  <2>1. PICK c \in controlCalls : d = f[c]
    OBVIOUS
  <2>2. /\ d \in CallRecords /\ d.id = c.id /\ d.cmd = c.cmd /\ d.who = c.who /\ d.gen = c.gen /\ d.session = c.session
        /\ d.phase = "waiting" <=> c.phase = "waiting" /\ c.id = pending'
        /\ d # c => c.gen = controlGeneration \/ state \notin {"admitting", "ready"}
    BY <2>1
  <2>3. CallIsSound(c) /\ AdmissionCallIsSound(c) /\ c.id # 0
    BY DEF ControlInv, CallShape, CallIsSound
  <2>4. d.phase = "waiting" <=> d.id = pending'
    BY <2>2, <2>3 DEF CallIsSound
  <2>5. CallIsSound(d)'
    BY <2>2, <2>3, <2>4 DEF CallIsSound
  <2>6. ASSUME d.who = "admission"
        PROVE  /\ \A t \in DOMAIN tasks' : tasks'[t].gen = d.gen =>
                    tasks'[t].stage \in DOMAIN Control!Asks /\ d.cmd = Control!Asks[tasks'[t].stage]
               /\ \A e \in controlCalls' : e.who = "admission" /\ e.gen = d.gen => e = d
    <3>1. ASSUME NEW e \in controlCalls', e.who = "admission", e.gen = d.gen PROVE e = d
      <4>1. PICK b \in controlCalls : e = f[b]
        OBVIOUS
      <4>2. b = c
        BY <2>2, <2>3, <2>6, <3>1, <4>1 DEF AdmissionCallIsSound
      <4>3. QED
        BY <2>1, <4>1, <4>2
    <3>2. QED
      BY <2>2, <2>3, <2>6, <3>1 DEF AdmissionCallIsSound
  <2>7. QED
    BY <2>2, <2>5, <2>6 DEF AdmissionCallIsSound
<1>5. CallShape'
  <2>1. controlIssued' \in Nat /\ pending' \in 0..controlIssued'
    BY DEF ControlInv, CallShape
  <2>2. ASSUME state' \in {"admitting", "ready"}, pending' # 0
        PROVE  \E d \in controlCalls' : d.id = pending' /\ d.gen = controlGeneration'
    <3>1. PICK c \in controlCalls : c.id = pending /\ c.gen = controlGeneration
      BY <2>2 DEF ControlInv, CallShape
    <3>2. f[c] \in controlCalls' /\ f[c].id = pending' /\ f[c].gen = controlGeneration'
      BY <2>2, <3>1
    <3>3. QED
      BY <3>2
  <2>3. QED
    BY <1>4, <2>1, <2>2 DEF CallShape
<1>6. QED
  BY <1>1, <1>3, <1>5

\* The answer was checked and its continuation comes next.
LEMMA AnswerChecked ==
  ASSUME ControlInv, NEW c \in controlCalls, Control!Check(c)
  PROVE  ControlInv'
<1> DEFINE f == [b \in controlCalls |-> IF b = c THEN [c EXCEPT !.phase = "checked"] ELSE b]
<1>1. /\ c.phase = "answered" /\ c.gen = controlGeneration
      /\ controlCalls' = (controlCalls \ {c}) \cup {[c EXCEPT !.phase = "checked"]}
      /\ UNCHANGED <<state, controlGeneration, activeLease, ack, channel, closing, pending, owner, controlIssued, tasks,
                     owners, lock, controlSession, controlLease, controlWire, replies, proved>>
  BY DEF Control!Check, Control!controlVars, Control!workerVars
<1>2. \A b \in controlCalls : b \in CallRecords /\ (b.phase = "waiting" <=> b.id = pending)
  BY DEF ControlInv, CallShape, CallIsSound
<1>3. \A b \in controlCalls :
        /\ f[b] \in CallRecords /\ f[b].id = b.id /\ f[b].cmd = b.cmd /\ f[b].who = b.who /\ f[b].gen = b.gen
        /\ f[b].session = b.session /\ f[b].result = b.result
        /\ f[b].phase = (IF b = c THEN "checked" ELSE b.phase)
        /\ f[b] # b => b = c
  BY <1>2 DEF CallRecords
<1>4. controlCalls' = {f[b] : b \in controlCalls}
  BY <1>1
<1> HIDE DEF f
<1>5. CallsAdvance(f)
  BY <1>1, <1>2, <1>3, <1>4 DEF CallsAdvance
<1>6. ControlTypes' /\ LockShape' /\ TaskShape' /\ SessionShape' /\ CallShape'
  BY <1>1, <1>5, CallsGoOn
<1>7. \A d \in controlCalls' : \E b \in controlCalls :
        /\ d.id = b.id /\ d.cmd = b.cmd /\ d.session = b.session /\ d.result = b.result /\ d.gen = b.gen
        /\ d.phase \in {"answered", "checked"} => b.phase \in {"answered", "checked"}
  BY <1>1, <1>3, <1>4
<1>8. WireShape'
  BY <1>1, <1>7 DEF ControlInv, WireShape, InSession
<1>9. ProofShape'
  BY <1>1, <1>7 DEF ControlInv, ProofShape
<1>10. \A b \in controlCalls : \E d \in controlCalls' : d.gen = b.gen /\ d.cmd = b.cmd
  BY <1>3, <1>4
<1>11. LeaseShape'
  BY <1>1, <1>7, <1>10 DEF ControlInv, LeaseShape, InSession
<1>12. QED
  BY <1>6, <1>8, <1>9, <1>11 DEF ControlInv

\* The pending request is answered.
LEMMA AnswerReceived ==
  ASSUME ControlInv, Control!Receive
  PROVE  ControlInv'
<1> DEFINE m == Head(replies)
<1>1. /\ replies # <<>> /\ replies' = Tail(replies) /\ ack # 0
      /\ UNCHANGED <<owner, controlIssued, tasks, lock, controlSession, controlLease, controlWire, proved>>
  BY DEF Control!Receive
<1>2. CASE Control!Lost(controlCalls)
  BY <1>2, ControlLoses
<1>3. CASE ~Control!Lost(controlCalls)
  <2> DEFINE f == [c \in controlCalls |-> IF c.id = m.id THEN [c EXCEPT !.phase = "answered", !.result = m.result] ELSE c]
  <2>1. /\ m.session = ack /\ m.id = pending /\ pending' = 0
        /\ controlCalls' = {f[c] : c \in controlCalls}
        /\ UNCHANGED <<state, controlGeneration, activeLease, ack, channel, closing, owners>>
    BY <1>3 DEF Control!Receive
  <2>2. replies \in Seq(ReplyRecords) /\ Len(replies) \in Nat /\ 1 \in DOMAIN replies /\ m = replies[1]
    BY <1>1 DEF ControlInv, WireShape
  <2>3. m \in ReplyRecords /\ m.session = controlSession
    BY <2>2 DEF ControlInv, WireShape
  <2>4. /\ replies' \in Seq(ReplyRecords) /\ Len(replies') = Len(replies) - 1
        /\ \A i \in DOMAIN replies' : i + 1 \in DOMAIN replies /\ replies'[i] = replies[i + 1]
    BY <1>1, <2>2
  <2>5. \A c \in controlCalls : c \in CallRecords /\ CallIsSound(c) /\ c.id # 0
    BY DEF ControlInv, CallShape, CallIsSound
  <2>6. \A c \in controlCalls :
          /\ f[c] \in CallRecords /\ f[c].id = c.id /\ f[c].cmd = c.cmd /\ f[c].who = c.who /\ f[c].gen = c.gen
          /\ f[c].session = c.session
          /\ f[c].phase = (IF c.id = pending THEN "answered" ELSE c.phase)
          /\ f[c].result = (IF c.id = pending THEN m.result ELSE c.result)
          /\ f[c] # c => c.id = pending
    BY <2>1, <2>3, <2>5 DEF CallRecords, ReplyRecords
  <2> HIDE DEF f, m
  <2>7. \A c \in controlCalls : c.id = pending => c.gen = controlGeneration \/ state \notin {"admitting", "ready"}
    BY <2>5 DEF CallIsSound
  <2>8. CallsAdvance(f)
    <3>1. \A c \in controlCalls : f[c].phase = "waiting" <=> c.phase = "waiting" /\ c.id = pending'
      BY <2>1, <2>5, <2>6 DEF CallIsSound
    <3>2. QED
      BY <1>1, <2>1, <2>6, <2>7, <3>1 DEF CallsAdvance
  <2>9. ControlTypes' /\ LockShape' /\ TaskShape' /\ SessionShape' /\ CallShape'
    BY <2>1, <2>8, CallsGoOn
  <2>10. InSession' <=> InSession
    BY <2>1 DEF InSession
  <2>11. InSession => DOMAIN controlWire' = {} /\ DOMAIN replies' = {}
    <3> SUFFICES ASSUME InSession PROVE DOMAIN controlWire' = {} /\ DOMAIN replies' = {}
      OBVIOUS
    <3>1. Len(controlWire) = 0 /\ Len(replies) = 1
      BY <2>2 DEF ControlInv, WireShape
    <3>2. Len(replies') = 0
      <4>1. Len(replies') = Len(replies) - 1
        BY <2>4
      <4>2. QED
        BY <3>1, <4>1
    <3>3. DOMAIN controlWire = 1..Len(controlWire) /\ DOMAIN replies' = 1..Len(replies')
      BY <2>4 DEF ControlInv, WireShape
    <3>4. DOMAIN controlWire = {} /\ DOMAIN replies' = {}
      BY <3>1, <3>2, <3>3
    <3>5. QED
      BY <1>1, <3>4
  <2>12. \A d \in controlCalls' : \E c \in controlCalls :
           /\ d.id = c.id /\ d.cmd = c.cmd /\ d.session = c.session /\ d.gen = c.gen
           /\ d.phase = (IF c.id = pending THEN "answered" ELSE c.phase)
           /\ d.result = (IF c.id = pending THEN m.result ELSE c.result)
    BY <2>1, <2>6
  <2>13. WireShape'
    <3>1. ASSUME NEW i \in DOMAIN controlWire'
          PROVE  /\ controlWire'[i].session = controlSession' /\ controlWire'[i].id <= controlIssued'
                 /\ \A d \in controlCalls' : d.id = controlWire'[i].id => d.cmd = controlWire'[i].cmd
                 /\ ~InSession
      BY <1>1, <2>11, <2>12 DEF ControlInv, WireShape
    <3>2. ASSUME NEW i \in DOMAIN replies'
          PROVE  replies'[i].session = controlSession' /\ replies'[i].id <= controlIssued' /\ ~InSession
      BY <1>1, <2>4, <2>11 DEF ControlInv, WireShape
    <3>3. QED
      BY <1>1, <2>4, <2>10, <3>1, <3>2 DEF ControlInv, WireShape
  <2>14. ProofShape'
    <3>1. ASSUME NEW d \in controlCalls', d.cmd = "prove"
          PROVE  /\ d.phase \in {"answered", "checked"} => d.result = "rejected" \/ (d.result = "ok" /\ d.session \in proved')
                 /\ \A i \in DOMAIN replies' : replies'[i].id = d.id =>
                      replies'[i].result = "rejected" \/ (replies'[i].result = "ok" /\ controlSession' \in proved')
      <4>1. PICK c \in controlCalls :
              /\ d.id = c.id /\ d.cmd = c.cmd /\ d.session = c.session
              /\ d.phase = (IF c.id = pending THEN "answered" ELSE c.phase)
              /\ d.result = (IF c.id = pending THEN m.result ELSE c.result)
        BY <2>12
      <4>2. \A i \in DOMAIN replies : replies[i].id = c.id => replies[i].result = "rejected" \/ (replies[i].result = "ok" /\ controlSession \in proved)
        BY <3>1, <4>1 DEF ControlInv, ProofShape
      <4>3. c.phase \in {"answered", "checked"} => c.result = "rejected" \/ (c.result = "ok" /\ c.session \in proved)
        BY <3>1, <4>1 DEF ControlInv, ProofShape
      <4>4. c.id = pending => c.session = controlSession
        BY <2>1, <2>3, <2>5 DEF CallIsSound
      <4>5. c.id = pending => m.result = "rejected" \/ (m.result = "ok" /\ controlSession \in proved)
        BY <2>1, <2>2, <4>2
      <4>6. QED
        BY <1>1, <2>4, <4>1, <4>2, <4>3, <4>4, <4>5
    <3>2. QED
      BY <1>1, <2>1, <3>1 DEF ControlInv, ProofShape
  <2>15. LeaseShape'
    <3>1. ASSUME InSession, NEW d \in controlCalls', d.gen = controlGeneration', d.phase \in {"answered", "checked"},
                 d.result \in {"restored", "baseline"}
          PROVE  ~controlLease
      <4>1. PICK c \in controlCalls :
              /\ d.gen = c.gen /\ d.phase = (IF c.id = pending THEN "answered" ELSE c.phase)
              /\ d.result = (IF c.id = pending THEN m.result ELSE c.result)
        BY <2>12
      <4>2. m.result \in {"restored", "baseline"} => ~controlLease
        BY <2>2, <3>1 DEF ControlInv, LeaseShape
      <4>3. c.gen = controlGeneration
        BY <2>1, <3>1, <4>1
      <4>4. CASE c.id = pending
        BY <3>1, <4>1, <4>2, <4>4
      <4>5. CASE c.id # pending
        BY <3>1, <4>1, <4>3, <4>5 DEF ControlInv, LeaseShape
      <4>6. QED
        BY <4>4, <4>5
    <3>2. \A c \in controlCalls : \E d \in controlCalls' : d.gen = c.gen /\ d.cmd = c.cmd
      BY <2>1, <2>6
    <3>3. state = "ready" /\ controlLease => activeLease \/ \E d \in controlCalls' : d.gen = controlGeneration /\ d.cmd = "start_lease"
      BY <3>2 DEF ControlInv, LeaseShape
    <3>4. \A t \in DOMAIN tasks : tasks[t].gen = controlGeneration /\ tasks[t].stage = "establish" => ~controlLease
      BY DEF ControlInv, LeaseShape
    <3>5. QED
      BY <1>1, <2>1, <2>10, <2>11, <3>1, <3>3, <3>4 DEF LeaseShape
  <2>16. QED
    BY <2>9, <2>13, <2>14, <2>15 DEF ControlInv
<1>4. QED
  BY <1>2, <1>3

\* A good answer takes the current admission one stage on.
LEMMA AdmissionAnswered ==
  ASSUME ControlInv, NEW t \in Control!Admissions, Control!Answered(t)
  PROVE  ControlInv'
<1> DEFINE s == Control!After[tasks[t].stage]
<1>1. /\ t \in DOMAIN tasks /\ tasks[t].stage \in DOMAIN Control!Asks
      /\ UNCHANGED <<state, controlGeneration, ack, channel, closing, pending, owner, controlIssued, owners, lock,
                     controlSession, controlLease, controlWire, replies, proved>>
  BY DEF Control!Answered, Control!workerVars
<1>2. PICK c \in Control!AdmissionCall(t) :
        /\ c.phase = "checked" /\ tasks[t].gen = controlGeneration
        /\ c.result = IF c.cmd = "status" THEN "baseline" ELSE "ok"
        /\ controlCalls' = controlCalls \ {c} /\ Control!Stage(t, s)
  BY DEF Control!Answered, Control!Current
<1>3. c \in controlCalls /\ c.who = "admission" /\ c.gen = controlGeneration /\ c.cmd = Control!Asks[tasks[t].stage]
  BY <1>1, <1>2 DEF Control!AdmissionCall, ControlInv, CallShape, AdmissionCallIsSound
<1>4. \/ tasks[t].stage = "discover" /\ s = "prove" /\ c.cmd = "discover"
      \/ tasks[t].stage = "prove" /\ s = "baseline" /\ c.cmd = "prove"
      \/ tasks[t].stage = "baseline" /\ s = "establish" /\ c.cmd = "status"
  BY <1>1, <1>3 DEF Control!Asks, Control!After
<1>5. s \in {"prove", "baseline", "establish"} /\ tasks[t].stage \in {"discover", "prove", "baseline"}
  BY <1>4
<1> HIDE DEF s
<1>6. Staged(t, s)
  BY <1>1, <1>2, <1>5, StageFacts DEF ControlInv, TaskStages, Admitted
<1>7. state = "admitting" /\ ack # 0 /\ ack = controlSession
  BY <1>1, <1>2, <1>5 DEF ControlInv, TaskShape, SessionShape, Admitted
<1>8. \A d \in controlCalls : d.gen = controlGeneration => d = c
  BY <1>3, <1>7 DEF ControlInv, CallShape, CallIsSound, AdmissionCallIsSound
<1>9. pending = 0
  <2> SUFFICES ASSUME pending # 0 PROVE FALSE
    BY <1>7
  <2>1. PICK d \in controlCalls : d.id = pending /\ d.gen = controlGeneration
    BY <1>7 DEF ControlInv, CallShape
  <2>2. d = c /\ d.phase = "waiting"
    BY <1>8, <2>1 DEF ControlInv, CallShape, CallIsSound
  <2>3. QED
    BY <1>2, <2>2
<1>10. \A i \in DOMAIN tasks' : tasks'[i].gen = controlGeneration' => i = t /\ tasks'[i].stage = s
  BY <1>1, <1>2, <1>6, OneIsCurrent DEF Staged, ControlInv
<1>11. ControlTypes'
  BY <1>1, <1>6 DEF ControlInv, ControlTypes, Staged
<1>12. LockShape'
  BY <1>1, <1>5, <1>6, HolderProceeds DEF ControlInv, TaskStages, Admitted
<1>13. TaskShape'
  <2>1. \A i \in DOMAIN tasks' : tasks'[i].gen <= controlGeneration' /\ \A j \in DOMAIN tasks' : j < i => tasks'[j].gen < tasks'[i].gen
    BY <1>1, <1>6 DEF ControlInv, TaskShape, Staged
  <2>2. channel' # 0 => /\ channel' \in DOMAIN tasks' /\ tasks'[channel'].gen = controlGeneration'
                        /\ tasks'[channel'].stage \notin {"lock", "failed"} /\ ~owners'[channel'].closing
    BY <1>1, <1>5, <1>6, <1>7 DEF ControlInv, TaskShape, Staged
  <2>3. QED
    BY <1>1, <1>5, <1>7, <1>10, <2>1, <2>2 DEF TaskShape
<1>14. SessionShape'
  BY <1>1, <1>5, <1>7, <1>10 DEF ControlInv, SessionShape, Unadmitted
<1>15. CallShape'
  <2>1. ASSUME NEW d \in controlCalls'
        PROVE  CallIsSound(d)' /\ AdmissionCallIsSound(d)'
    <3>1. d \in controlCalls /\ CallIsSound(d) /\ AdmissionCallIsSound(d) /\ d.gen # controlGeneration
      BY <1>2, <1>8 DEF ControlInv, CallShape
    <3>2. CallIsSound(d)'
      BY <1>1, <3>1 DEF CallIsSound
    <3>3. QED
      BY <1>1, <1>2, <1>6, <3>1, <3>2 DEF AdmissionCallIsSound, Staged
  <2>2. QED
    BY <1>1, <1>2, <1>9, <2>1 DEF ControlInv, CallShape
<1>16. WireShape'
  BY <1>1, <1>2 DEF ControlInv, WireShape, InSession
<1>17. ProofShape'
  <2>1. s \in {"baseline", "establish"} => controlSession \in proved
    <3>1. CASE c.cmd = "prove"
      <4>1. c.session = ack
        BY <1>3, <1>7 DEF ControlInv, CallShape, CallIsSound
      <4>2. c.session \in proved
        BY <1>2, <1>3, <3>1 DEF ControlInv, ProofShape
      <4>3. QED
        BY <1>7, <4>1, <4>2
    <3>2. CASE tasks[t].stage = "baseline"
      BY <1>1, <1>2, <3>2 DEF ControlInv, ProofShape
    <3>3. QED
      BY <1>4, <3>1, <3>2
  <2>2. QED
    BY <1>1, <1>2, <1>5, <1>7, <1>10, <2>1 DEF ControlInv, ProofShape
<1>18. LeaseShape'
  <2>1. s = "establish" => ~controlLease
    <3>1. s = "establish" => c.result = "baseline"
      BY <1>2, <1>4
    <3>2. InSession
      BY <1>7 DEF InSession
    <3>3. c.result = "baseline" => ~controlLease
      BY <1>2, <1>3, <3>2 DEF ControlInv, LeaseShape
    <3>4. QED
      BY <3>1, <3>3
  <2>2. InSession' => InSession
    BY <1>1 DEF InSession
  <2>3. \A d \in controlCalls' : d.gen # controlGeneration'
    BY <1>1, <1>2, <1>8
  <2>4. InSession => \A i \in DOMAIN replies' : replies'[i].result \in {"restored", "baseline"} => ~controlLease'
    BY <1>1 DEF ControlInv, LeaseShape
  <2>5. QED
    BY <1>1, <1>7, <1>9, <1>10, <2>1, <2>2, <2>3, <2>4 DEF LeaseShape
<1>19. QED
  BY <1>11, <1>12, <1>13, <1>14, <1>15, <1>16, <1>17, <1>18 DEF ControlInv

\* The continuity record is established and the controller is ready, or the admission gives up.
LEMMA AdmissionEstablishes ==
  ASSUME ControlInv, NEW t \in Control!Admissions, Control!Establish(t)
  PROVE  ControlInv'
<1>1. /\ t \in DOMAIN tasks /\ tasks[t].stage = "establish"
      /\ UNCHANGED <<controlGeneration, activeLease, ack, channel, closing, pending, owner, controlCalls,
                     controlIssued, owners, lock, controlSession, controlLease, controlWire, replies, proved>>
  BY DEF Control!Establish, Control!At, Control!workerVars
<1>2. CASE state' = state /\ Control!Stage(t, "failing")
  <2>1. Staged(t, "failing")
    BY <1>1, <1>2, StageFacts DEF ControlInv, TaskStages
  <2>2. \A d \in controlCalls' : d.who = "admission" => d.gen # tasks[t].gen
    BY <1>1, NoCallYet, AskStages DEF ControlInv
  <2>3. GivesUp(t)
    BY <1>1, <2>1, <2>2 DEF GivesUp
  <2>4. OwnersClose
    BY <1>1 DEF OwnersClose, ControlInv, ControlTypes
  <2>5. StepsAside(t)
    BY <1>1, <1>2, <2>1, <2>3, <2>4 DEF StepsAside, Staged
  <2>6. QED
    BY <1>1, <2>5, SessionGoesOn
<1>3. CASE tasks[t].gen = controlGeneration /\ state = "admitting" /\ state' = "ready" /\ Control!Stage(t, "done")
  <2>1. Staged(t, "done")
    BY <1>1, <1>3, StageFacts DEF ControlInv, TaskStages, Admitted
  <2>2. \A i \in DOMAIN tasks' : tasks'[i].gen = controlGeneration' => i = t /\ tasks'[i].stage = "done"
    BY <1>1, <1>3, <2>1, OneIsCurrent DEF Staged, ControlInv
  <2>3. /\ ack # 0 /\ controlSession \in proved /\ ~controlLease /\ pending = 0
    BY <1>1, <1>3 DEF ControlInv, SessionShape, ProofShape, LeaseShape, Admitted
  <2>4. ControlTypes'
    <3>1. closing = "none"
      BY <1>3 DEF ControlInv, ControlTypes
    <3>2. QED
      BY <1>1, <1>3, <2>1, <3>1 DEF ControlInv, ControlTypes, Staged
  <2>5. LockShape'
    BY <1>1, <2>1, HolderProceeds DEF ControlInv, TaskStages, Admitted
  <2>6. TaskShape'
    <3>1. \A i \in DOMAIN tasks' : tasks'[i].gen <= controlGeneration' /\ \A j \in DOMAIN tasks' : j < i => tasks'[j].gen < tasks'[i].gen
      BY <1>1, <2>1 DEF ControlInv, TaskShape, Staged
    <3>2. channel' # 0 => /\ channel' \in DOMAIN tasks' /\ tasks'[channel'].gen = controlGeneration'
                          /\ tasks'[channel'].stage \notin {"lock", "failed"} /\ ~owners'[channel'].closing
      BY <1>1, <1>3, <2>1 DEF ControlInv, TaskShape, Staged
    <3>3. QED
      BY <1>1, <1>3, <2>2, <3>1, <3>2 DEF TaskShape
  <2>7. SessionShape'
    BY <1>1, <1>3, <2>2, <2>3 DEF ControlInv, SessionShape, Unadmitted
  <2>8. CallShape'
    <3>1. ASSUME NEW c \in controlCalls'
          PROVE  CallIsSound(c)' /\ AdmissionCallIsSound(c)'
      <4>1. c \in controlCalls /\ CallIsSound(c) /\ AdmissionCallIsSound(c)
        BY <1>1 DEF ControlInv, CallShape
      <4>2. c.who = "admission" => c.gen # tasks[t].gen
        BY <1>1, <4>1, NoCallYet, AskStages DEF ControlInv
      <4>3. CallIsSound(c)'
        BY <1>1, <1>3, <4>1 DEF CallIsSound
      <4>4. QED
        BY <1>1, <2>1, <4>1, <4>2, <4>3 DEF AdmissionCallIsSound, Staged
    <3>2. QED
      BY <1>1, <2>3, <3>1 DEF ControlInv, CallShape
  <2>9. InSession' <=> InSession
    BY <1>1, <1>3 DEF InSession
  <2>10. WireShape'
    BY <1>1, <2>9 DEF ControlInv, WireShape
  <2>11. ProofShape'
    BY <1>1, <2>3 DEF ControlInv, ProofShape
  <2>12. LeaseShape'
    BY <1>1, <2>2, <2>3, <2>9 DEF ControlInv, LeaseShape
  <2>13. QED
    BY <2>4, <2>5, <2>6, <2>7, <2>8, <2>10, <2>11, <2>12 DEF ControlInv
<1>4. QED
  BY <1>2, <1>3 DEF Control!Establish, Control!Current

\* A command of the page has its effect, or loses control.
LEMMA CommandApplied ==
  ASSUME ControlInv, NEW c \in controlCalls, Control!Apply(c)
  PROVE  ControlInv'
<1>1. /\ c.phase = "checked" /\ c.who = "page"
      /\ UNCHANGED <<owner, controlIssued, tasks, lock, controlSession, controlLease, controlWire, replies, proved>>
  BY DEF Control!Apply, Control!workerVars
<1>2. CASE Control!Lost(controlCalls \ {c})
  BY <1>2, ControlLoses DEF Control!Apply
<1>3. CASE ~Control!Lost(controlCalls \ {c})
  <2>1. /\ Control!Postcondition(c) /\ controlCalls' = controlCalls \ {c} /\ Control!Applied(c)
        /\ UNCHANGED <<state, controlGeneration, ack, channel, closing, pending, owners>>
    BY <1>3 DEF Control!Apply
  <2>2. c \in CallRecords /\ CallIsSound(c) /\ c.id # pending
    BY <1>1 DEF ControlInv, CallShape, CallIsSound
  <2>3. ControlTypes' /\ LockShape' /\ TaskShape'
    BY <1>1, <2>1 DEF ControlInv, ControlTypes, LockShape, TaskShape, Control!PortHasOneOwner
  <2>4. SessionShape'
    BY <1>1, <2>1 DEF ControlInv, SessionShape
  <2>5. CallShape'
    <3>1. ASSUME NEW d \in controlCalls'
          PROVE  CallIsSound(d)' /\ AdmissionCallIsSound(d)'
      BY <1>1, <2>1 DEF ControlInv, CallShape, CallIsSound, AdmissionCallIsSound
    <3>2. QED
      BY <1>1, <2>1, <2>2, <3>1 DEF ControlInv, CallShape
  <2>6. WireShape' /\ ProofShape'
    BY <1>1, <2>1 DEF ControlInv, WireShape, ProofShape, InSession
  <2>7. ASSUME state = "ready", controlLease
        PROVE  activeLease' \/ \E d \in controlCalls' : d.gen = controlGeneration /\ d.cmd = "start_lease"
    <3>1. InSession
      BY <2>7 DEF InSession, ControlInv, SessionShape
    <3>2. CASE c.cmd = "start_lease"
      BY <2>1, <3>2 DEF Control!Applied
    <3>3. CASE c.cmd # "start_lease" /\ \E d \in controlCalls : d.gen = controlGeneration /\ d.cmd = "start_lease"
      BY <2>1, <3>3
    <3>4. CASE activeLease
      <4>1. c.cmd # "prove" => c.gen = controlGeneration
        BY <1>1, <2>2, <2>7 DEF CallIsSound
      <4>2. c.cmd # "prove" => c.result \notin {"restored", "baseline"}
        BY <1>1, <2>7, <3>1, <4>1 DEF ControlInv, LeaseShape
      <4>3. c.cmd = "prove" => c.result = "ok"
        BY <2>1 DEF Control!Postcondition
      <4>4. c.cmd = "restore" => c.result = "restored"
        BY <2>1 DEF Control!Postcondition
      <4>5. c.cmd # "restore" /\ c.result # "baseline"
        BY <4>2, <4>3, <4>4
      <4>6. QED
        BY <2>1, <3>4, <4>5 DEF Control!Applied
    <3>5. QED
      BY <2>7, <3>2, <3>3, <3>4 DEF ControlInv, LeaseShape
  <2>8. LeaseShape'
    BY <1>1, <2>1, <2>7 DEF ControlInv, LeaseShape, InSession
  <2>9. QED
    BY <2>3, <2>4, <2>5, <2>6, <2>8 DEF ControlInv
<1>4. QED
  BY <1>2, <1>3

\* Every step of the controller and of its Worker keeps the invariant.
LEMMA ControlSteps ==
  ASSUME ControlInv, Control!Next
  PROVE  ControlInv'
<1>1. ASSUME NEW t \in Control!Admissions, Control!AdmissionStep(t)
      PROVE  ControlInv'
  <2>1. CASE Control!AdmissionFails(t)
    <3>1. t \in DOMAIN tasks /\ tasks[t].stage \in Unadmitted \cup {"failing"} /\ Control!Fail(t, controlCalls)
          /\ UNCHANGED <<lock, owner, controlIssued, Control!workerVars>>
      BY <2>1 DEF Control!AdmissionFails, Unadmitted
    <3>2. QED
      BY <3>1, AdmissionGivesUp
  <2>2. CASE Control!GiveUp(t)
    <3>1. t \in DOMAIN tasks /\ tasks[t].stage \in Unadmitted \cup {"failing"} /\ Control!Fail(t, controlCalls)
          /\ UNCHANGED <<lock, owner, controlIssued, Control!workerVars>>
      BY <2>2 DEF Control!GiveUp, Control!At
    <3>2. QED
      BY <3>1, AdmissionGivesUp
  <2>3. CASE Control!AskFails(t)
    <3>1. t \in DOMAIN tasks
      BY <2>3 DEF Control!AskFails
    <3>2. QED
      BY <2>3, <3>1, AskGivesUp
  <2>4. QED
    BY <1>1, <2>1, <2>2, <2>3, LockAcquired, PortSelected, PortOpened, SessionBegins, AdmissionAsks,
       AdmissionAnswered, AdmissionEstablishes DEF Control!AdmissionStep
<1>2. CASE Control!Close
  <2>1. CASE controlIssued' = controlIssued
    BY <1>2, <2>1, ControlCloses
  <2>2. CASE controlIssued' # controlIssued
    <3>1. /\ Control!Exchange("restore", "close", controlCalls) /\ pending = 0 /\ ack # 0
          /\ state' = "closing" /\ closing' = "restoring" /\ UNCHANGED <<ack, channel, owners>>
      BY <1>2, <2>2 DEF Control!Close
    <3>2. QED
      BY <1>2, <3>1, CloseRestores
  <2>3. QED
    BY <2>1, <2>2
<1>3. CASE \E c \in controlCalls : Control!Check(c) \/ Control!ExchangeFails(c) \/ Control!Apply(c)
  BY <1>3, AnswerChecked, ControlLoses, CommandApplied
<1>4. CASE Control!LoseControl
  BY <1>4, ControlLoses
<1>5. CASE Control!Restored \/ Control!CloseSent
  BY <1>5, ControlCloses
<1>6. CASE \E o \in Control!Admissions : Control!NativeOpenSettles(o) \/ Control!OwnerCloses(o) \/ Control!OwnerStuck(o)
  BY <1>6, OwnerMoves
<1>7. QED
  BY <1>1, <1>2, <1>3, <1>4, <1>5, <1>6, PermissionRequested, PageCommands, WorkerHandles, LeaseRunsOut,
     AnswerReceived DEF Control!Next

\* One owner holds the port, the channel in use is the current owner's, a ready controller
\* has proved possession on this very session, and it knows of the lease its Worker runs,
\* for any number of admissions and commands (WebSerialWorkerController).
THEOREM ControllerSoundness == Spec => []ControllerSound
<1>1. Init => ControlInv
  BY ControlStarts DEF Init
<1>2. ASSUME ControlInv, [Next]_vars
      PROVE  ControlInv'
  <2>1. CASE UNCHANGED controlVars
    <3> USE <2>1 DEF controlVars
    <3>1. ControlTypes' /\ LockShape' /\ TaskShape'
      BY <1>2 DEF ControlInv, ControlTypes, LockShape, TaskShape, Control!PortHasOneOwner
    <3>2. SessionShape' /\ CallShape'
      BY <1>2 DEF ControlInv, SessionShape, CallShape, CallIsSound, AdmissionCallIsSound
    <3>3. WireShape' /\ ProofShape' /\ LeaseShape'
      BY <1>2 DEF ControlInv, WireShape, ProofShape, LeaseShape, InSession
    <3>4. QED
      BY <3>1, <3>2, <3>3 DEF ControlInv
  <2>2. CASE Control!Next
    BY <1>2, <2>2, ControlSteps
  <2>3. QED
    BY <1>2, <2>1, <2>2
       DEF Next, ChannelMoves, ReaderMoves, RestartMoves, ControlMoves, ClientMoves, vars
<1>3. ControlInv => ControllerSound
  <2> SUFFICES ASSUME ControlInv PROVE ControllerSound
    OBVIOUS
  <2>1. Control!TypeOK
    <3>1. \A t \in DOMAIN tasks : tasks[t].stage \in TaskStages
      BY TasksAdmitted DEF ControlInv, TaskRecords
    <3>2. \A c \in controlCalls : (c.phase = "waiting") = (c.id = pending)
      BY DEF ControlInv, CallShape, CallIsSound
    <3>3. QED
      BY <3>1, <3>2 DEF ControlInv, ControlTypes, Control!TypeOK, TaskStages, Unadmitted, Admitted
  <2>2. Control!ChannelIsOwned
    <3> SUFFICES ASSUME channel # 0, state \in {"admitting", "ready"} PROVE owner = channel /\ lock = channel
      BY DEF Control!ChannelIsOwned
    <3>1. channel \in DOMAIN tasks /\ tasks[channel].stage \notin {"lock", "failed"} /\ ~owners[channel].closing
      BY DEF ControlInv, TaskShape
    <3>2. channel \in Control!Admissions
      BY <3>1, TasksAdmitted DEF ControlInv
    <3>3. ~owners[channel].released
      BY <3>1, <3>2 DEF ControlInv, LockShape
    <3>4. QED
      BY <3>1, <3>3 DEF ControlInv, LockShape
  <2>3. Control!PortHasOneOwner
    BY DEF ControlInv, LockShape
  <2>4. Control!ReadyMeansProved
    BY DEF ControlInv, SessionShape, ProofShape, Control!ReadyMeansProved
  <2>5. Control!KnowsItsLease
    BY DEF ControlInv, LeaseShape, Control!KnowsItsLease
  <2>6. QED
    BY <2>1, <2>2, <2>3, <2>4, <2>5 DEF ControllerSound
<1>4. QED
  BY <1>1, <1>2, <1>3, PTL DEF Spec

-----------------------------------------------------------------------------
\* The channel.

Chunk == [id : 1..MaxRecords, seq : 0..SequenceLimit, bytes : Nat \ {0}, hello : BOOLEAN, session : Nat,
          last : BOOLEAN]

\* The bytes a chunk takes of the receive window, and what the chunks of w take together.
Weight(c) == IF c.hello THEN 0 ELSE c.bytes
Weights(w) == [i \in DOMAIN w |-> Weight(w[i])]
OnTheWay(w) == SumOver(Weights(w), DOMAIN w)

\* The chunks of a wire are finitely many, and each takes a natural number of bytes.
LEMMA WeightsFacts ==
  ASSUME NEW w \in Seq(Chunk)
  PROVE  /\ DOMAIN w = 1..Len(w) /\ Len(w) \in Nat /\ IsFiniteSet(DOMAIN w)
         /\ \A i \in DOMAIN w : w[i] \in Chunk /\ Weight(w[i]) \in Nat
         /\ NaturalsOn(Weights(w), DOMAIN w)
<1>1. DOMAIN w = 1..Len(w) /\ Len(w) \in Nat
  OBVIOUS
<1>2. IsFiniteSet(DOMAIN w)
  BY <1>1, FS_Interval
<1>3. \A i \in DOMAIN w : w[i] \in Chunk
  BY <1>1
<1>4. \A c \in Chunk : Weight(c) \in Nat
  BY DEF Chunk, Weight
<1>5. QED
  BY <1>1, <1>2, <1>3, <1>4 DEF NaturalsOn, Weights

\* g is the function whose value the fold in WindowRespected is.
Folded(f, S, g) == g = [s \in SUBSET S |-> IF s = {} THEN 0 ELSE f[First(s)] + g[s \ {First(s)}]]

\* The sum that WindowRespected bounds is the bytes on the way.
LEMMA WindowIs ==
  ASSUME channelWire \in Seq(Chunk)
  PROVE  Channel!WindowRespected <=> OnTheWay(channelWire) <= Window
<1> DEFINE f == Weights(channelWire)
           S == DOMAIN channelWire
           g == CHOOSE x : Folded(f, S, x)
<1>0. f = [i \in DOMAIN channelWire |-> IF channelWire[i].hello THEN 0 ELSE channelWire[i].bytes] /\ DOMAIN f = S
  BY DEF Weights, Weight
<1>1. Channel!WindowRespected <=> g[S] <= Window
  <2>1. Channel!FoldSeq(LAMBDA a, b : a + b, 0, f) = g[S]
    BY <1>0, Zenon DEF Channel!FoldSeq, Channel!FoldFunction, Channel!FoldFunctionOnSet, Channel!MapThenFoldSet, Folded, First
  <2>2. QED
    BY <1>0, <2>1, Zenon DEF Channel!WindowRespected
<1>2. \A x : Folded(f, S, x) <=> Sums(f, S, x)
  BY DEF Folded, Sums, Unfold
<1>3. IsFiniteSet(S)
  BY WeightsFacts
<1>4. \E x : Folded(f, S, x)
  BY <1>2, <1>3, SumsExist
<1>5. Folded(f, S, g)
  BY <1>4, Zenon
<1> HIDE DEF g, f, S
<1>6. g[S] = SumOver(f, S)
  BY <1>2, <1>3, <1>5, SumOverIs
<1>7. QED
  BY <1>1, <1>6 DEF OnTheWay, f, S

\* Nothing is on the way over an empty wire.
LEMMA NothingOnTheWay == OnTheWay(<<>>) = 0
<1>1. DOMAIN <<>> = {}
  OBVIOUS
<1>2. QED
  BY <1>1, SumOverEmpty DEF OnTheWay

\* One more chunk adds its weight.
LEMMA OneMoreOnTheWay ==
  ASSUME NEW w \in Seq(Chunk), NEW c \in Chunk
  PROVE  OnTheWay(Append(w, c)) = OnTheWay(w) + Weight(c) /\ OnTheWay(w) \in Nat
<1> DEFINE v == Append(w, c)
           n == Len(w)
<1>1. /\ v \in Seq(Chunk) /\ n \in Nat /\ DOMAIN v = DOMAIN w \cup {n + 1} /\ n + 1 \notin DOMAIN w
      /\ v[n + 1] = c /\ \A i \in DOMAIN w : v[i] = w[i]
  <2>1. v \in Seq(Chunk) /\ n \in Nat /\ Len(v) = n + 1
    OBVIOUS
  <2>2. DOMAIN v = 1..n + 1 /\ DOMAIN w = 1..n
    BY <2>1
  <2>3. 1..n + 1 = 1..n \cup {n + 1} /\ n + 1 \notin 1..n
    BY <2>1
  <2>4. v[n + 1] = c /\ \A i \in 1..n : v[i] = w[i]
    OBVIOUS
  <2>5. QED
    BY <2>1, <2>2, <2>3, <2>4
<1> HIDE DEF v, n
<1>2. /\ IsFiniteSet(DOMAIN w) /\ NaturalsOn(Weights(v), DOMAIN w \cup {n + 1})
  BY <1>1, WeightsFacts
<1>3. Weights(v)[n + 1] = Weight(c) /\ \A i \in DOMAIN w : Weights(v)[i] = Weights(w)[i]
  BY <1>1 DEF Weights
<1>4. /\ SumOver(Weights(v), DOMAIN v) = SumOver(Weights(v), DOMAIN w) + Weights(v)[n + 1]
      /\ SumOver(Weights(v), DOMAIN w) \in Nat
  BY <1>1, <1>2, SumOverAdd
<1>5. SumOver(Weights(v), DOMAIN w) = SumOver(Weights(w), DOMAIN w)
  BY <1>2, <1>3, SumOverSame
<1>6. QED
  BY <1>3, <1>4, <1>5 DEF OnTheWay, v

\* A chunk on the wire is on the way.
LEMMA PartOfTheWay ==
  ASSUME NEW w \in Seq(Chunk), NEW j \in DOMAIN w
  PROVE  OnTheWay(w) >= Weight(w[j]) /\ OnTheWay(w) \in Nat
<1> DEFINE S == DOMAIN w \ {j}
<1>1. IsFiniteSet(S) /\ DOMAIN w = S \cup {j} /\ j \notin S
  BY WeightsFacts, FS_RemoveElement
<1> HIDE DEF S
<1>2. SumOver(Weights(w), DOMAIN w) = SumOver(Weights(w), S) + Weights(w)[j] /\ SumOver(Weights(w), S) \in Nat
  BY <1>1, WeightsFacts, SumOverAdd
<1>3. Weights(w)[j] = Weight(w[j]) /\ Weight(w[j]) \in Nat
  BY WeightsFacts DEF Weights
<1>4. QED
  BY <1>2, <1>3 DEF OnTheWay

\* The first chunk takes its weight off the way.
LEMMA FirstOffTheWay ==
  ASSUME NEW w \in Seq(Chunk), w # <<>>
  PROVE  OnTheWay(w) = OnTheWay(Tail(w)) + Weight(Head(w)) /\ OnTheWay(Tail(w)) \in Nat
<1> DEFINE v == Tail(w)
           n == Len(v)
           f == Weights(w)
<1>1. v \in Seq(Chunk) /\ n \in Nat /\ Len(w) = n + 1 /\ Head(w) = w[1]
  OBVIOUS
<1>2. DOMAIN v = 1..n /\ DOMAIN w = 1..n + 1
  BY <1>1
<1>3. \A i \in 1..n : v[i] = w[i + 1]
  BY <1>1
<1> HIDE DEF v, n
<1>4. 1..n + 1 = 2..n + 1 \cup {1} /\ 1 \notin 2..n + 1 /\ 2..n + 1 \subseteq 1..n + 1
  BY <1>1
<1>5. IsFiniteSet(2..n + 1) /\ NaturalsOn(f, 2..n + 1 \cup {1})
  <2>1. IsFiniteSet(2..n + 1)
    BY <1>1, FS_Interval
  <2>2. QED
    BY <1>2, <1>4, <2>1, WeightsFacts
<1>6. SumOver(f, 1..n + 1) = SumOver(f, 2..n + 1) + f[1] /\ SumOver(f, 2..n + 1) \in Nat
  BY <1>4, <1>5, SumOverAdd
<1>7. SumOver(Weights(v), 1..n) = SumOver(f, 2..n + 1)
  <2>1. \A i \in 1..n : f[i + 1] \in Nat /\ Weights(v)[i] = f[i + 1]
    <3> SUFFICES ASSUME NEW i \in 1..n PROVE f[i + 1] \in Nat /\ Weights(v)[i] = f[i + 1]
      OBVIOUS
    <3>1. i + 1 \in DOMAIN w /\ i \in DOMAIN v
      BY <1>1, <1>2
    <3>2. QED
      BY <1>3, <3>1, WeightsFacts DEF Weights
  <2> HIDE DEF f
  <2>2. QED
    BY <1>1, <2>1, SumOverShifted
<1>8. f[1] = Weight(Head(w))
  <2>1. 1 \in DOMAIN w
    BY <1>1, <1>2
  <2>2. QED
    BY <1>1, <2>1 DEF Weights
<1>9. QED
  BY <1>2, <1>6, <1>7, <1>8 DEF OnTheWay, v

-----------------------------------------------------------------------------
\* The inductive invariant of the channel.

Kinds == {"control", "heartbeat", "hello"}
Queued == [id : 1..MaxRecords, kind : {"control", "heartbeat"}, size : Nat \ {0}]
Writing == [id : 1..MaxRecords, kind : Kinds, left : Nat, seq : 0..SequenceLimit]
Frame == [op : {"ack", "credit"}, session : Nat, bytes : Nat]

\* A record is being written.
Busy == active # None

\* Types; a Hello is never queued.
ChannelTypes ==
  /\ queue \in Seq(Queued) /\ Len(queue) <= QueueLimit
  /\ active = None \/ active \in Writing
  /\ sequence \in 0..SequenceLimit /\ channelIssued \in 0..MaxRecords
  /\ sent \in Nat /\ received \in Nat /\ drained \in Nat /\ channelSession \in Nat
  /\ credit \in {"idle", "active", "cancelled"}
  /\ outcome \in [1..MaxRecords -> {"unsent", "waiting", "sent", "rejected"}]
  /\ channelWire \in Seq(Chunk) /\ inbox \in Seq(Frame)

\* How far the session is.  Before the Worker hears, the wire holds the Hello at most; the
\* credit is active only afterwards, and cancelled exactly when the channel has failed.
PhaseShape ==
  /\ channelFailed <=> credit = "cancelled"
  /\ credit = "idle" => queue = <<>> /\ sent = 0 /\ received = 0 /\ (Busy => active.kind = "hello")
  /\ credit = "idle" /\ ~greeting => ~Busy /\ channelWire = <<>> /\ ~hearing
  /\ credit = "active" => hearing /\ ~greeting
  /\ Busy /\ active.kind = "hello" /\ active.left # 0 => active.left = 1 /\ channelWire = <<>> /\ ~hearing
  /\ hearing => \A j \in DOMAIN channelWire : ~channelWire[j].hello
  /\ ~hearing => Len(channelWire) <= 1 /\ \A j \in DOMAIN channelWire : channelWire[j].hello /\ channelWire[j].last
  /\ ~hearing => sent = 0 /\ drained = 0

\* What the Worker sent: sessions in order, credits of this session for drained bytes
\* only, and once the credit is active nothing of an earlier session.
InboxShape ==
  /\ \A i \in DOMAIN inbox : inbox[i].session <= channelSession
  /\ \A i, j \in DOMAIN inbox : i < j => inbox[i].session <= inbox[j].session
  /\ \A i \in DOMAIN inbox : inbox[i].session = channelSession => hearing
  /\ \A i \in DOMAIN inbox : inbox[i].session = channelSession /\ inbox[i].op = "credit" => inbox[i].bytes <= drained
  /\ credit = "active" => \A i \in DOMAIN inbox : inbox[i].session = channelSession

\* Bytes sent are drained or on the way, and the unacknowledged ones fit the window.
CountShape == sent = drained + OnTheWay(channelWire) /\ received <= drained /\ sent <= received + Window

\* The last chunk of the record with this id and sequence is on the wire, or it was consumed.
WrittenWhole(id, seq) ==
  \/ \E j \in DOMAIN channelWire :
       /\ channelWire[j].id = id /\ channelWire[j].seq = seq
       /\ channelWire[j].last /\ ~channelWire[j].hello
  \/ \E c \in channelConsumed : c.id = id /\ c.seq = seq

\* A record with nothing left to write is on the wire or consumed, and sequences are given out in order.
WriteShape ==
  /\ Busy /\ active.kind # "hello" => active.seq = sequence
  /\ Busy /\ active.kind = "hello" => active.seq = 0
  /\ Busy /\ active.kind # "hello" /\ active.left = 0 => WrittenWhole(active.id, active.seq)
  /\ \A j \in DOMAIN channelWire : channelWire[j].seq <= sequence

\* The chunk at the end of the wire is followed by one of the same record, or by a later one.
TailShape ==
  channelWire # <<>> /\ ~channelFailed =>
    LET l == channelWire[Len(channelWire)] IN
    /\ l.last => (Busy /\ active.left # 0 => l.seq < active.seq)
    /\ ~l.last => Busy /\ active.left # 0 /\ active.id = l.id

ChannelInv ==
  /\ ChannelTypes /\ PhaseShape /\ InboxShape /\ CountShape /\ WriteShape /\ TailShape
  /\ Channel!RecordsStayWhole /\ Channel!HeartbeatsFirst

\* A fresh channel satisfies it.
LEMMA ChannelStarts == Channel!Init => ChannelInv
<1> SUFFICES ASSUME Channel!Init PROVE ChannelInv
  OBVIOUS
<1> USE ChannelConstants DEF Channel!Init
<1>1. ChannelTypes
  BY DEF ChannelTypes
<1>2. PhaseShape
  BY DEF PhaseShape, Busy
<1>3. InboxShape
  BY DEF InboxShape
<1>4. CountShape
  BY NothingOnTheWay DEF CountShape
<1>5. WriteShape /\ TailShape
  BY DEF WriteShape, TailShape, Busy
<1>6. Channel!RecordsStayWhole /\ Channel!HeartbeatsFirst
  BY DEF Channel!RecordsStayWhole, Channel!HeartbeatsFirst
<1>7. QED
  BY <1>1, <1>2, <1>3, <1>4, <1>5, <1>6 DEF ChannelInv

\* A step of another part leaves it alone.
LEMMA ChannelKeeps == ASSUME ChannelInv, UNCHANGED channelVars PROVE ChannelInv'
BY DEF ChannelInv, ChannelTypes, PhaseShape, InboxShape, CountShape, WriteShape, WrittenWhole, TailShape, Busy,
   OnTheWay, Weights, Weight, Channel!RecordsStayWhole, Channel!HeartbeatsFirst, channelVars

\* The invariant gives the properties of the channel's states.
LEMMA ChannelInvGives ==
  ASSUME ChannelInv
  PROVE  /\ Channel!TypeOK /\ Channel!WindowRespected /\ Channel!SentMeansConsumed
         /\ Channel!RecordsStayWhole /\ Channel!HeartbeatsFirst
<1> USE ChannelConstants
<1>0. ChannelTypes
  BY DEF ChannelInv
<1>1. OnTheWay(channelWire) \in Nat
  <2>1. CASE channelWire = <<>>
    BY <2>1, NothingOnTheWay
  <2>2. CASE channelWire # <<>>
    <3>1. 1 \in DOMAIN channelWire
      BY <1>0, <2>2 DEF ChannelTypes
    <3>2. QED
      BY <1>0, <3>1, PartOfTheWay DEF ChannelTypes
  <2>3. QED
    BY <2>1, <2>2
<1>2. /\ sent = drained + OnTheWay(channelWire) /\ received <= drained /\ sent <= received + Window
      /\ sent \in Nat /\ received \in Nat /\ drained \in Nat
  BY <1>0 DEF ChannelInv, CountShape, ChannelTypes
<1>3. Channel!TypeOK
  <2>1. queue \in Seq([id : 1..MaxRecords, kind : Kinds, size : Nat])
    <3>1. Queued \subseteq [id : 1..MaxRecords, kind : Kinds, size : Nat]
      BY DEF Queued, Kinds
    <3>2. \A S, T : S \subseteq T /\ queue \in Seq(S) => queue \in Seq(T)
      OBVIOUS
    <3>3. queue \in Seq(Queued)
      BY <1>0 DEF ChannelTypes
    <3>4. QED
      BY <3>1, <3>2, <3>3, Zenon
  <2>2. received \in 0..sent
    BY <1>1, <1>2
  <2>3. QED
    BY <1>0, <2>1, <2>2 DEF Channel!TypeOK, ChannelTypes, Writing, Kinds
<1>4. Channel!WindowRespected
  <2>1. OnTheWay(channelWire) <= Window
    BY <1>1, <1>2
  <2>2. QED
    BY <1>0, <2>1, WindowIs DEF ChannelTypes
<1>5. Channel!SentMeansConsumed
  <2> SUFFICES ASSUME active # None, active.left = 0, ~(active.kind = "hello"), received = sent
               PROVE  \E c \in channelConsumed : c.id = active.id /\ c.seq = active.seq
    BY DEF Channel!SentMeansConsumed, Channel!RecordDone, Channel!Hello
  <2>1. OnTheWay(channelWire) = 0
    BY <1>1, <1>2
  <2>2. \A j \in DOMAIN channelWire : channelWire[j].hello
    <3> SUFFICES ASSUME NEW j \in DOMAIN channelWire, ~channelWire[j].hello PROVE FALSE
      OBVIOUS
    <3>1. channelWire[j] \in Chunk /\ Weight(channelWire[j]) \in Nat
      BY <1>0, WeightsFacts DEF ChannelTypes
    <3>2. OnTheWay(channelWire) >= Weight(channelWire[j])
      BY <1>0, PartOfTheWay DEF ChannelTypes
    <3>3. Weight(channelWire[j]) = 0
      BY <2>1, <3>1, <3>2
    <3>4. QED
      BY <3>1, <3>3 DEF Weight, Chunk
  <2>3. WrittenWhole(active.id, active.seq)
    BY DEF ChannelInv, WriteShape, Busy
  <2>4. QED
    BY <2>2, <2>3, Zenon DEF WrittenWhole
<1>6. QED
  BY <1>3, <1>4, <1>5 DEF ChannelInv

\* Settling promises keeps their types.
LEMMA Settled ==
  ASSUME ChannelTypes, NEW S,
         outcome' = [i \in DOMAIN outcome |-> IF i \in S THEN "rejected" ELSE outcome[i]]
  PROVE  outcome' \in [1..MaxRecords -> {"unsent", "waiting", "sent", "rejected"}]
BY DEF ChannelTypes

\* Giving up, with the queue dropped and the credit cancelled, keeps the invariant.
LEMMA ChannelGivesUp ==
  ASSUME ChannelInv, NEW S, queue' = <<>>, active' = active \/ active' = None, channelFailed' = TRUE, credit' = "cancelled",
         inbox' = inbox \/ inbox' = <<>>,
         outcome' = [i \in DOMAIN outcome |-> IF i \in S THEN "rejected" ELSE outcome[i]],
         UNCHANGED <<sequence, channelIssued, sent, received, greeting, channelSession, channelWire, drained,
                     hearing, channelConsumed>>
  PROVE  ChannelInv'
<1> USE ChannelConstants DEF ChannelInv
<1>1. ChannelTypes'
  <2>1. outcome' \in [1..MaxRecords -> {"unsent", "waiting", "sent", "rejected"}]
    BY Settled
  <2>2. inbox' \in Seq(Frame)
    <3>1. inbox \in Seq(Frame) /\ <<>> \in Seq(Frame)
      BY DEF ChannelTypes
    <3>2. QED
      BY <3>1, Zenon
  <2>5. queue' \in Seq(Queued) /\ Len(queue') <= QueueLimit
    OBVIOUS
  <2>3. active' = None \/ active' \in Writing
    BY DEF ChannelTypes
  <2>4. QED
    BY <2>1, <2>2, <2>3, <2>5 DEF ChannelTypes
<1>2. PhaseShape'
  BY Zenon DEF PhaseShape, Busy
<1>3. InboxShape'
  <2>1. CASE inbox' = inbox
    BY <2>1 DEF InboxShape
  <2>2. CASE inbox' = <<>>
    BY <2>2 DEF InboxShape
  <2>3. QED
    BY <2>1, <2>2
<1>4. CountShape'
  BY DEF CountShape
<1>5. WriteShape' /\ TailShape'
  BY Zenon DEF WriteShape, WrittenWhole, TailShape, Busy
<1>6. Channel!RecordsStayWhole' /\ Channel!HeartbeatsFirst'
  BY DEF Channel!RecordsStayWhole, Channel!HeartbeatsFirst
<1>7. QED
  BY <1>1, <1>2, <1>3, <1>4, <1>5, <1>6

\* Every way in which the channel gives up is one of those.
LEMMA ChannelFails ==
  ASSUME ChannelInv, Channel!SequenceExhausted \/ Channel!RecordFails \/ Channel!Close \/ Channel!RejectFrame
  PROVE  ChannelInv'
<1> USE DEF Channel!helloVars, Channel!deviceVars
<1>1. CASE Channel!SequenceExhausted
  BY <1>1, ChannelGivesUp, Zenon DEF Channel!SequenceExhausted, Channel!Abort
<1>2. CASE Channel!RecordFails
  BY <1>2, ChannelGivesUp, Zenon DEF Channel!RecordFails, Channel!Abort
<1>3. CASE Channel!Close
  BY <1>3, ChannelGivesUp, Zenon DEF Channel!Close
<1>4. CASE Channel!RejectFrame
  BY <1>4, ChannelGivesUp, Zenon DEF Channel!RejectFrame
<1>5. QED
  BY <1>1, <1>2, <1>3, <1>4

\* The channel's own state stays when the Worker or the reader moves.
LEMMA WriterRests ==
  ASSUME ChannelInv, UNCHANGED <<queue, active, sequence, channelFailed, channelWire, channelConsumed>>
  PROVE  WriteShape' /\ TailShape' /\ Channel!RecordsStayWhole' /\ Channel!HeartbeatsFirst'
BY DEF ChannelInv, WriteShape, WrittenWhole, TailShape, Busy, Channel!RecordsStayWhole, Channel!HeartbeatsFirst

\* What follows when the first frame is taken out of the inbox.
LEMMA FrameTaken ==
  ASSUME ChannelInv, inbox # <<>>, inbox' = Tail(inbox)
  PROVE  /\ inbox' \in Seq(Frame) /\ Head(inbox) = inbox[1] /\ 1 \in DOMAIN inbox /\ inbox[1] \in Frame
         /\ \A i \in DOMAIN inbox' : i + 1 \in DOMAIN inbox /\ inbox'[i] = inbox[i + 1] /\ i \in Nat /\ i >= 1
<1>1. inbox \in Seq(Frame)
  BY DEF ChannelInv, ChannelTypes
<1>2. inbox' \in Seq(Frame) /\ Len(inbox') = Len(inbox) - 1 /\ Head(inbox) = inbox[1] /\ Len(inbox) >= 1 /\ Len(inbox) \in Nat
  BY <1>1
<1>3. DOMAIN inbox' = 1..Len(inbox) - 1 /\ DOMAIN inbox = 1..Len(inbox)
  BY <1>1, <1>2
<1>4. \A i \in 1..Len(inbox) - 1 : inbox'[i] = inbox[i + 1]
  BY <1>1
<1>5. 1 \in DOMAIN inbox /\ \A i \in DOMAIN inbox' : i + 1 \in DOMAIN inbox /\ i \in Nat /\ i >= 1
  BY <1>2, <1>3
<1>6. inbox[1] \in Frame
  BY <1>1, <1>2
<1>7. QED
  BY <1>2, <1>3, <1>4, <1>5, <1>6

\* The order and the bounds of the inbox survive that.
LEMMA InboxTaken ==
  ASSUME ChannelInv, inbox # <<>>, inbox' = Tail(inbox), UNCHANGED <<channelSession, hearing, drained>>,
         credit' = "active" => \A i \in DOMAIN inbox : inbox[i].session = channelSession
  PROVE  InboxShape'
<1>0. InboxShape
  BY DEF ChannelInv
<1>1. \A i \in DOMAIN inbox' : i + 1 \in DOMAIN inbox /\ inbox'[i] = inbox[i + 1]
  BY FrameTaken, Zenon
<1>2. \A i, j \in DOMAIN inbox' : i < j => inbox'[i].session <= inbox'[j].session
  <2> SUFFICES ASSUME NEW i \in DOMAIN inbox', NEW j \in DOMAIN inbox', i < j
               PROVE  inbox'[i].session <= inbox'[j].session
    OBVIOUS
  <2>1. i + 1 < j + 1
    BY FrameTaken
  <2>2. QED
    BY <1>0, <1>1, <2>1, Zenon DEF InboxShape
<1>3. QED
  BY <1>0, <1>1, <1>2, Zenon DEF InboxShape

\* The answer to the Hello opens the credit: what follows it in the inbox is of this session.
LEMMA ChannelAck == ASSUME ChannelInv, Channel!ReceiveAck PROVE ChannelInv'
<1> USE ChannelConstants DEF Channel!writerVars
<1>1. /\ inbox # <<>> /\ inbox' = Tail(inbox) /\ Head(inbox).session = channelSession
      /\ credit = "idle" /\ credit' = "active" /\ greeting' = FALSE
      /\ UNCHANGED <<queue, active, sequence, outcome, channelIssued, sent, received, channelFailed, channelSession,
                     channelWire, drained, hearing, channelConsumed>>
  BY DEF Channel!ReceiveAck
<1>2. /\ inbox' \in Seq(Frame) /\ Head(inbox) = inbox[1] /\ 1 \in DOMAIN inbox /\ inbox[1] \in Frame
  BY <1>1, FrameTaken
<1>3. \A i \in DOMAIN inbox : inbox[i].session = channelSession
  <2> SUFFICES ASSUME NEW i \in DOMAIN inbox PROVE inbox[i].session = channelSession
    OBVIOUS
  <2>1. i = 1 \/ 1 < i
    BY DEF ChannelInv, ChannelTypes
  <2>2. inbox[i] \in Frame /\ channelSession \in Nat
    BY DEF ChannelInv, ChannelTypes
  <2>3. inbox[i].session \in Nat
    BY <2>2 DEF Frame
  <2>4. (inbox[1].session <= inbox[i].session /\ inbox[i].session <= channelSession) \/ i = 1
    BY <1>2, <2>1 DEF ChannelInv, InboxShape
  <2>5. QED
    BY <1>1, <1>2, <2>2, <2>3, <2>4
<1>4. hearing
  BY <1>1, <1>2, Zenon DEF ChannelInv, InboxShape
<1>5. ChannelTypes'
  BY <1>1, <1>2 DEF ChannelInv, ChannelTypes
<1>6. PhaseShape'
  <2>1. /\ ~channelFailed /\ queue = <<>>
        /\ (Busy => active.kind = "hello") /\ (\A j \in DOMAIN channelWire : ~channelWire[j].hello)
        /\ (Busy /\ active.kind = "hello" /\ active.left # 0 => FALSE)
    BY <1>1, <1>4 DEF ChannelInv, PhaseShape
  <2>2. QED
    BY <1>1, <1>4, <2>1, Zenon DEF PhaseShape, Busy
<1>7. InboxShape'
  BY <1>1, <1>3, InboxTaken
<1>8. CountShape'
  BY <1>1 DEF ChannelInv, CountShape
<1>9. QED
  BY <1>1, <1>5, <1>6, <1>7, <1>8, WriterRests DEF ChannelInv

\* An acceptable credit is one of this session, for bytes that were drained.
LEMMA ChannelCredit == ASSUME ChannelInv, Channel!ReceiveCredit PROVE ChannelInv'
<1> USE ChannelConstants DEF Channel!writerVars, Channel!helloVars
<1>1. /\ inbox # <<>> /\ inbox' = Tail(inbox) /\ Head(inbox).op = "credit"
      /\ \/ received' = received
         \/ credit = "active" /\ received < Head(inbox).bytes /\ Head(inbox).bytes <= sent /\ received' = Head(inbox).bytes
      /\ UNCHANGED <<queue, active, sequence, outcome, channelIssued, sent, channelFailed, channelSession, credit, greeting,
                     channelWire, drained, hearing, channelConsumed>>
  BY DEF Channel!ReceiveCredit, Channel!acceptable
<1>2. /\ inbox' \in Seq(Frame) /\ Head(inbox) = inbox[1] /\ 1 \in DOMAIN inbox /\ inbox[1] \in Frame
  BY <1>1, FrameTaken
<1>3. credit = "active" => Head(inbox).bytes <= drained
  BY <1>1, <1>2 DEF ChannelInv, InboxShape
<1>4. Head(inbox).bytes \in Nat
  BY <1>2 DEF Frame
<1>5. ChannelTypes'
  BY <1>1, <1>2, <1>4 DEF ChannelInv, ChannelTypes
<1>6. CountShape'
  <2>1. received \in Nat /\ drained \in Nat /\ sent \in Nat
    BY DEF ChannelInv, ChannelTypes
  <2>2. received' >= received /\ received' <= drained /\ received' \in Nat
    BY <1>1, <1>3, <1>4, <2>1 DEF ChannelInv, CountShape
  <2>3. QED
    BY <1>1, <2>1, <2>2 DEF ChannelInv, CountShape
<1>7. PhaseShape'
  <2>1. credit = "idle" => received' = received
    BY <1>1
  <2>2. QED
    BY <1>1, <2>1, Zenon DEF ChannelInv, PhaseShape, Busy
<1>8. InboxShape'
  <2>1. credit' = "active" => \A i \in DOMAIN inbox : inbox[i].session = channelSession
    BY <1>1 DEF ChannelInv, InboxShape
  <2>2. QED
    BY <1>1, <2>1, InboxTaken
<1>9. QED
  BY <1>1, <1>5, <1>6, <1>7, <1>8, WriterRests DEF ChannelInv

\* A skipped frame is gone, and nothing else changes.
LEMMA ChannelSkips == ASSUME ChannelInv, Channel!SkipBacklog PROVE ChannelInv'
<1> USE DEF Channel!writerVars, Channel!creditVars
<1>1. /\ inbox # <<>> /\ inbox' = Tail(inbox)
      /\ UNCHANGED <<queue, active, sequence, outcome, channelIssued, sent, received, channelFailed, channelSession, credit,
                     greeting, channelWire, drained, hearing, channelConsumed>>
  BY DEF Channel!SkipBacklog
<1>2. inbox' \in Seq(Frame)
  BY <1>1, FrameTaken
<1>3. ChannelTypes'
  BY <1>1, <1>2 DEF ChannelInv, ChannelTypes
<1>4. PhaseShape' /\ CountShape'
  BY <1>1 DEF ChannelInv, PhaseShape, CountShape, Busy
<1>5. InboxShape'
  <2>1. credit' = "active" => \A i \in DOMAIN inbox : inbox[i].session = channelSession
    BY <1>1 DEF ChannelInv, InboxShape
  <2>2. QED
    BY <1>1, <2>1, InboxTaken
<1>6. QED
  BY <1>1, <1>3, <1>4, <1>5, WriterRests DEF ChannelInv

\* A frame of this session goes to the end of the inbox.
LEMMA InboxGrows ==
  ASSUME ChannelInv, NEW f \in Frame, inbox' = Append(inbox, f), f.session = channelSession,
         UNCHANGED <<channelSession, credit>>, hearing', drained' \in Nat, drained <= drained',
         f.op = "credit" => f.bytes <= drained'
  PROVE  InboxShape' /\ inbox' \in Seq(Frame)
<1> DEFINE n == Len(inbox)
<1>1. inbox \in Seq(Frame) /\ n \in Nat /\ channelSession \in Nat /\ drained \in Nat /\ DOMAIN inbox = 1..n
  BY DEF ChannelInv, ChannelTypes
<1>2. inbox' \in Seq(Frame) /\ Len(inbox') = n + 1 /\ inbox'[n + 1] = f /\ \A i \in 1..n : inbox'[i] = inbox[i]
  BY <1>1
<1>3. DOMAIN inbox' = 1..n + 1
  BY <1>1, <1>2
<1>4. \A i \in 1..n : inbox[i].session \in Nat /\ inbox[i].bytes \in Nat
  <2>1. \A i \in 1..n : inbox[i] \in Frame
    BY <1>1
  <2>2. QED
    BY <2>1 DEF Frame
<1> HIDE DEF n
<1>5. /\ \A i \in 1..n : inbox[i].session <= channelSession
      /\ \A i, j \in 1..n : i < j => inbox[i].session <= inbox[j].session
      /\ \A i \in 1..n : inbox[i].session = channelSession /\ inbox[i].op = "credit" => inbox[i].bytes <= drained
      /\ credit = "active" => \A i \in 1..n : inbox[i].session = channelSession
  BY <1>1 DEF ChannelInv, InboxShape
<1>6. \A i \in 1..n + 1 : i \in 1..n \/ i = n + 1
  BY <1>1
<1>7. \A i \in DOMAIN inbox' : inbox'[i].session <= channelSession'
  BY <1>1, <1>2, <1>3, <1>5, <1>6
<1>8. \A i, j \in DOMAIN inbox' : i < j => inbox'[i].session <= inbox'[j].session
  <2> SUFFICES ASSUME NEW i \in 1..n + 1, NEW j \in 1..n + 1, i < j
               PROVE  inbox'[i].session <= inbox'[j].session
    BY <1>3
  <2>1. i \in 1..n
    BY <1>1
  <2>2. CASE j \in 1..n
    BY <1>2, <1>5, <2>1, <2>2
  <2>3. CASE j = n + 1
    BY <1>2, <1>5, <2>1, <2>3
  <2>4. QED
    BY <1>6, <2>2, <2>3
<1>9. \A i \in DOMAIN inbox' : inbox'[i].session = channelSession' /\ inbox'[i].op = "credit" => inbox'[i].bytes <= drained'
  <2> SUFFICES ASSUME NEW i \in 1..n + 1, inbox'[i].session = channelSession, inbox'[i].op = "credit"
               PROVE  inbox'[i].bytes <= drained'
    BY <1>3
  <2>1. CASE i \in 1..n
    <3>1. inbox[i].bytes <= drained /\ inbox[i].bytes \in Nat
      BY <1>2, <1>4, <1>5, <2>1
    <3>2. QED
      BY <1>1, <1>2, <2>1, <3>1
  <2>2. CASE i = n + 1
    BY <1>2, <2>2
  <2>3. QED
    BY <1>6, <2>1, <2>2
<1>10. credit' = "active" => \A i \in DOMAIN inbox' : inbox'[i].session = channelSession'
  BY <1>2, <1>3, <1>5, <1>6
<1>11. QED
  BY <1>2, <1>7, <1>8, <1>9, <1>10, Zenon DEF InboxShape

\* A repeated credit is one for drained bytes.
LEMMA ChannelRepeats == ASSUME ChannelInv, Channel!RepeatCredit PROVE ChannelInv'
<1> USE DEF Channel!writerVars, Channel!creditVars, Channel!helloVars
<1> DEFINE f == [op |-> "credit", session |-> channelSession, bytes |-> drained]
<1>1. /\ inbox' = Append(inbox, f) /\ hearing
      /\ UNCHANGED <<queue, active, sequence, outcome, channelIssued, sent, received, channelFailed, channelSession, credit,
                     greeting, channelWire, drained, hearing, channelConsumed>>
  BY DEF Channel!RepeatCredit
<1>2. drained \in Nat /\ channelSession \in Nat
  BY DEF ChannelInv, ChannelTypes
<1>3. f \in Frame /\ f.session = channelSession /\ f.bytes = drained
  BY <1>2 DEF Frame
<1> HIDE DEF f
<1>4. hearing' /\ drained' \in Nat /\ drained <= drained'
  BY <1>1, <1>2
<1>5. InboxShape' /\ inbox' \in Seq(Frame)
  BY <1>1, <1>2, <1>3, <1>4, InboxGrows
<1>6. ChannelTypes'
  BY <1>1, <1>5 DEF ChannelInv, ChannelTypes
<1>7. PhaseShape' /\ CountShape'
  BY <1>1 DEF ChannelInv, PhaseShape, CountShape, Busy
<1>8. QED
  BY <1>1, <1>5, <1>6, <1>7, WriterRests DEF ChannelInv

\* The wire after its first chunk was taken.
LEMMA ChunkTaken ==
  ASSUME ChannelInv, channelWire # <<>>, channelWire' = Tail(channelWire)
  PROVE  /\ channelWire' \in Seq(Chunk) /\ Head(channelWire) = channelWire[1]
         /\ Len(channelWire) \in Nat /\ Len(channelWire) >= 1 /\ Len(channelWire') = Len(channelWire) - 1
         /\ DOMAIN channelWire = 1..Len(channelWire) /\ DOMAIN channelWire' = 1..Len(channelWire) - 1
         /\ \A i \in DOMAIN channelWire' : i + 1 \in DOMAIN channelWire /\ channelWire'[i] = channelWire[i + 1]
         /\ channelWire[1] \in Chunk /\ 1 \in DOMAIN channelWire
<1> DEFINE w == channelWire
<1>1. w \in Seq(Chunk)
  BY DEF ChannelInv, ChannelTypes
<1>2. Tail(w) \in Seq(Chunk) /\ Len(Tail(w)) = Len(w) - 1 /\ Head(w) = w[1] /\ Len(w) >= 1 /\ Len(w) \in Nat
  BY <1>1
<1>3. DOMAIN Tail(w) = 1..Len(w) - 1 /\ DOMAIN w = 1..Len(w)
  BY <1>1, <1>2
<1>4. \A i \in 1..Len(w) - 1 : Tail(w)[i] = w[i + 1]
  BY <1>1
<1>5. 1 \in DOMAIN w /\ \A i \in 1..Len(w) - 1 : i + 1 \in DOMAIN w
  BY <1>2, <1>3
<1>6. w[1] \in Chunk
  BY <1>1, <1>2
<1>7. QED
  BY <1>2, <1>3, <1>4, <1>5, <1>6

\* Draining a chunk keeps the order of the wire, and what was written whole is consumed.
LEMMA DrainOrders ==
  ASSUME ChannelInv, channelWire # <<>>, channelWire' = Tail(channelWire),
         UNCHANGED <<queue, active, sequence, channelFailed>>,
         channelConsumed' = IF Head(channelWire).last
                            THEN channelConsumed \cup {[id |-> Head(channelWire).id, seq |-> Head(channelWire).seq]}
                            ELSE channelConsumed
  PROVE  WriteShape' /\ TailShape' /\ Channel!RecordsStayWhole' /\ Channel!HeartbeatsFirst'
<1> DEFINE n == Len(channelWire)
<1>1. /\ channelWire' \in Seq(Chunk) /\ Head(channelWire) = channelWire[1] /\ n \in Nat /\ n >= 1
      /\ Len(channelWire') = n - 1 /\ DOMAIN channelWire = 1..n /\ DOMAIN channelWire' = 1..n - 1
      /\ \A i \in 1..n - 1 : i + 1 \in 1..n /\ channelWire'[i] = channelWire[i + 1]
  BY ChunkTaken
<1> HIDE DEF n
<1>2. \A id, seq : WrittenWhole(id, seq) => WrittenWhole(id, seq)'
  <2> SUFFICES ASSUME NEW id, NEW seq, WrittenWhole(id, seq) PROVE WrittenWhole(id, seq)'
    OBVIOUS
  <2>1. CASE \E c \in channelConsumed : c.id = id /\ c.seq = seq
    <3>1. channelConsumed \subseteq channelConsumed'
      OBVIOUS
    <3>2. QED
      BY <2>1, <3>1, Zenon DEF WrittenWhole
  <2>2. CASE \E j \in DOMAIN channelWire : /\ channelWire[j].id = id /\ channelWire[j].seq = seq
                                           /\ channelWire[j].last /\ ~channelWire[j].hello
    <3>1. PICK j \in DOMAIN channelWire : /\ channelWire[j].id = id /\ channelWire[j].seq = seq
                                          /\ channelWire[j].last /\ ~channelWire[j].hello
      BY <2>2, Zenon
    <3>2. CASE j = 1
      <4>1. [id |-> id, seq |-> seq] \in channelConsumed'
        BY <1>1, <3>1, <3>2
      <4>2. \E c \in channelConsumed' : c.id = id /\ c.seq = seq
        BY <4>1
      <4>3. QED
        BY <4>2, Zenon DEF WrittenWhole
    <3>3. CASE j # 1
      <4>1. j - 1 \in 1..n - 1 /\ (j - 1) + 1 = j
        BY <1>1, <3>1, <3>3
      <4>2. channelWire'[j - 1] = channelWire[j]
        BY <1>1, <4>1
      <4>3. QED
        BY <1>1, <3>1, <4>1, <4>2, Zenon DEF WrittenWhole
    <3>4. QED
      BY <3>2, <3>3
  <2>3. QED
    BY <2>1, <2>2, Zenon DEF WrittenWhole
<1>3. WriteShape'
  <2>1. /\ Busy /\ active.kind # "hello" => active.seq = sequence
        /\ Busy /\ active.kind = "hello" => active.seq = 0
        /\ Busy /\ active.kind # "hello" /\ active.left = 0 => WrittenWhole(active.id, active.seq)
        /\ \A j \in 1..n : channelWire[j].seq <= sequence
    BY <1>1, Zenon DEF ChannelInv, WriteShape
  <2>2. \A j \in DOMAIN channelWire' : channelWire'[j].seq <= sequence'
    BY <1>1, <2>1
  <2>3. Busy /\ active.kind # "hello" /\ active.left = 0 => WrittenWhole(active.id, active.seq)'
    <3>1. PICK id, seq : id = active.id /\ seq = active.seq
      OBVIOUS
    <3>2. WrittenWhole(active.id, active.seq) => WrittenWhole(id, seq)'
      BY <1>2, <3>1, Zenon
    <3>3. WrittenWhole(id, seq)' => WrittenWhole(active.id, active.seq)'
      BY <3>1, Zenon DEF WrittenWhole
    <3>4. QED
      BY <2>1, <3>2, <3>3, Zenon
  <2>4. QED
    BY <2>1, <2>2, <2>3, Zenon DEF WriteShape, Busy
<1>4. TailShape'
  <2> SUFFICES ASSUME channelWire' # <<>>, ~channelFailed'
               PROVE  LET l == channelWire'[Len(channelWire')] IN
                      /\ l.last => (Busy' /\ active'.left # 0 => l.seq < active'.seq)
                      /\ ~l.last => Busy' /\ active'.left # 0 /\ active'.id = l.id
    BY DEF TailShape
  <2>1. Len(channelWire') # 0 /\ n - 1 \in 1..n - 1 /\ (n - 1) + 1 = n
    BY <1>1
  <2>2. channelWire'[Len(channelWire')] = channelWire[n] /\ channelWire # <<>>
    BY <1>1, <2>1
  <2>3. QED
    BY <2>2, Zenon DEF ChannelInv, TailShape, Busy, n
<1>5. Channel!RecordsStayWhole'
  <2> SUFFICES ASSUME NEW i \in 1..(n - 1) - 1
               PROVE  IF channelWire'[i].last THEN channelWire'[i].seq < channelWire'[i + 1].seq
                      ELSE channelWire'[i].id = channelWire'[i + 1].id
    BY <1>1 DEF Channel!RecordsStayWhole
  <2>1. i \in 1..n - 1 /\ i + 1 \in 1..n - 1 /\ i + 1 \in 1..Len(channelWire) - 1
    BY <1>1 DEF n
  <2>2. channelWire'[i] = channelWire[i + 1] /\ channelWire'[i + 1] = channelWire[(i + 1) + 1]
    BY <1>1, <2>1
  <2>3. QED
    BY <2>1, <2>2, Zenon DEF ChannelInv, Channel!RecordsStayWhole
<1>6. Channel!HeartbeatsFirst'
  BY DEF ChannelInv, Channel!HeartbeatsFirst
<1>7. QED
  BY <1>3, <1>4, <1>5, <1>6

\* The Worker drains a chunk: the Hello before it hears, a record's chunk afterwards.
LEMMA ChannelDrains == ASSUME ChannelInv, Channel!DrainChunk PROVE ChannelInv'
<1> USE ChannelConstants DEF Channel!writerVars, Channel!creditVars, Channel!helloVars
<1> DEFINE c == Head(channelWire)
           total == IF hearing THEN drained + c.bytes ELSE drained
<1>1. /\ channelWire # <<>> /\ channelWire' = Tail(channelWire)
      /\ drained' = IF c.hello /\ c.last THEN 0 ELSE total
      /\ hearing' = (hearing \/ (c.hello /\ c.last))
      /\ inbox' = IF c.hello
                  THEN IF c.last THEN Append(inbox, [op |-> "ack", session |-> channelSession, bytes |-> 0]) ELSE inbox
                  ELSE Append(inbox, [op |-> "credit", session |-> channelSession, bytes |-> total])
      /\ channelConsumed' = IF c.last THEN channelConsumed \cup {[id |-> c.id, seq |-> c.seq]} ELSE channelConsumed
      /\ UNCHANGED <<queue, active, sequence, outcome, channelIssued, sent, received, channelFailed, channelSession, credit,
                     greeting>>
  BY DEF Channel!DrainChunk
<1>2. /\ channelWire' \in Seq(Chunk) /\ c = channelWire[1] /\ c \in Chunk /\ 1 \in DOMAIN channelWire
      /\ Len(channelWire) \in Nat /\ Len(channelWire') = Len(channelWire) - 1
      /\ \A i \in DOMAIN channelWire' : i + 1 \in DOMAIN channelWire /\ channelWire'[i] = channelWire[i + 1]
  BY <1>1, ChunkTaken
<1>3. /\ drained \in Nat /\ channelSession \in Nat /\ sent \in Nat /\ received \in Nat /\ c.bytes \in Nat
      /\ channelWire \in Seq(Chunk)
  BY <1>2 DEF ChannelInv, ChannelTypes, Chunk
<1>4. WriteShape' /\ TailShape' /\ Channel!RecordsStayWhole' /\ Channel!HeartbeatsFirst'
  BY <1>1, DrainOrders
<1>5. OnTheWay(channelWire) = OnTheWay(channelWire') + Weight(c) /\ OnTheWay(channelWire') \in Nat
  BY <1>1, <1>3, FirstOffTheWay
<1>6. CASE hearing
  <2> DEFINE f == [op |-> "credit", session |-> channelSession, bytes |-> drained + c.bytes]
  <2>1. ~c.hello
    BY <1>2, <1>6, Zenon DEF ChannelInv, PhaseShape
  <2>2. drained' = drained + c.bytes /\ inbox' = Append(inbox, f)
    BY <1>1, <1>6, <2>1
  <2>3. hearing'
    BY <1>1, <1>6, Zenon
  <2>4. f \in Frame /\ f.session = channelSession /\ f.bytes = drained'
    BY <1>3, <2>2 DEF Frame
  <2> HIDE DEF f, c
  <2>5. drained' \in Nat /\ drained <= drained' /\ f.bytes <= drained'
    BY <1>3, <2>2, <2>4
  <2>6. InboxShape' /\ inbox' \in Seq(Frame)
    BY <1>1, <2>2, <2>3, <2>4, <2>5, InboxGrows
  <2>7. ChannelTypes'
    BY <1>1, <1>2, <2>5, <2>6 DEF ChannelInv, ChannelTypes
  <2>8. CountShape'
    <3>1. Weight(c) = c.bytes
      BY <2>1 DEF Weight
    <3>2. sent' = sent /\ received' = received /\ Window \in Nat
      BY <1>1
    <3>3. sent = drained + (OnTheWay(channelWire') + c.bytes) /\ received <= drained /\ sent <= received + Window
      BY <1>5, <3>1 DEF ChannelInv, CountShape
    <3>4. sent = drained' + OnTheWay(channelWire') /\ received <= drained'
      <4>1. PICK b, w : b = c.bytes /\ w = OnTheWay(channelWire')
        OBVIOUS
      <4>2. b \in Nat /\ w \in Nat /\ drained' = drained + b /\ drained \in Nat /\ received \in Nat
        BY <1>3, <1>5, <2>2, <4>1
      <4>3. sent = drained + (w + b) /\ received <= drained
        BY <3>3, <4>1
      <4>4. sent = drained' + w /\ received <= drained'
        BY <4>2, <4>3
      <4>5. QED
        BY <4>1, <4>4
    <3>5. QED
      BY <3>2, <3>3, <3>4 DEF CountShape
  <2>9. PhaseShape'
    <3>1. \A j \in DOMAIN channelWire' : ~channelWire'[j].hello
      BY <1>2, <1>6, Zenon DEF ChannelInv, PhaseShape
    <3>2. ~(Busy /\ active.kind = "hello" /\ active.left # 0) /\ ~(credit = "idle" /\ ~greeting)
      BY <1>6, Zenon DEF ChannelInv, PhaseShape
    <3>3. QED
      BY <1>1, <2>3, <3>1, <3>2, Zenon DEF ChannelInv, PhaseShape, Busy
  <2>10. QED
    BY <1>4, <2>6, <2>7, <2>8, <2>9 DEF ChannelInv
<1>7. CASE ~hearing
  <2> DEFINE f == [op |-> "ack", session |-> channelSession, bytes |-> 0]
  <2>1. c.hello /\ c.last /\ Len(channelWire) <= 1 /\ sent = 0 /\ drained = 0
    BY <1>2, <1>7, Zenon DEF ChannelInv, PhaseShape
  <2>2. drained' = 0 /\ inbox' = Append(inbox, f)
    BY <1>1, <1>7, <2>1
  <2>3. hearing'
    BY <1>1, <2>1, Zenon
  <2>4. f \in Frame /\ f.session = channelSession /\ f.op = "ack"
    BY <1>3 DEF Frame
  <2> HIDE DEF f, c
  <2>5. drained' \in Nat /\ drained <= drained'
    BY <2>1, <2>2
  <2>6. InboxShape' /\ inbox' \in Seq(Frame)
    <3>1. f.op # "credit"
      BY <2>4
    <3>2. QED
      BY <1>1, <2>2, <2>3, <2>4, <2>5, <3>1, InboxGrows
  <2>7. ChannelTypes'
    BY <1>1, <1>2, <2>5, <2>6 DEF ChannelInv, ChannelTypes
  <2>8. channelWire' = <<>>
    BY <1>2, <2>1
  <2>9. CountShape'
    <3>1. received = 0 /\ OnTheWay(channelWire') = 0
      BY <1>3, <2>1, <2>8, NothingOnTheWay DEF ChannelInv, CountShape
    <3>2. sent' = 0 /\ received' = 0 /\ drained' = 0 /\ Window \in Nat
      BY <1>1, <2>1, <2>2, <3>1
    <3>3. QED
      BY <3>1, <3>2 DEF CountShape
  <2>10. PhaseShape'
    <3>1. ~(Busy /\ active.kind = "hello" /\ active.left # 0) /\ ~(credit = "idle" /\ ~greeting)
      BY <1>1, Zenon DEF ChannelInv, PhaseShape
    <3>2. DOMAIN channelWire' = {}
      BY <2>8
    <3>3. QED
      BY <1>1, <2>3, <3>1, <3>2, Zenon DEF ChannelInv, PhaseShape, Busy
  <2>11. QED
    BY <1>4, <2>6, <2>7, <2>9, <2>10 DEF ChannelInv
<1>8. QED
  BY <1>6, <1>7

\* A new session on an empty wire: what is in the inbox is of an earlier one.
LEMMA ChannelRestarts == ASSUME ChannelInv, Channel!RestartSession PROVE ChannelInv'
<1> USE ChannelConstants
<1>1. /\ credit = "active" /\ active = None /\ queue = <<>> /\ ~channelFailed /\ channelWire = <<>>
      /\ channelSession' = channelSession + 1 /\ credit' = "idle" /\ sent' = 0 /\ received' = 0 /\ sequence' = 0
      /\ drained' = 0 /\ hearing' = FALSE /\ channelConsumed' = {}
      /\ UNCHANGED <<queue, active, outcome, channelIssued, channelFailed, greeting, channelWire, inbox>>
  BY DEF Channel!RestartSession
<1>2. ChannelTypes'
  BY <1>1 DEF ChannelInv, ChannelTypes
<1>3. PhaseShape'
  <2>1. ~Busy' /\ Len(channelWire') <= 1 /\ DOMAIN channelWire' = {}
    BY <1>1 DEF Busy
  <2>2. ~channelFailed' /\ ~hearing'
    BY <1>1, Zenon
  <2>3. QED
    BY <1>1, <2>1, <2>2 DEF PhaseShape
<1>4. InboxShape'
  <2>1. \A i \in DOMAIN inbox : inbox[i].session \in Nat /\ inbox[i].session <= channelSession /\ channelSession \in Nat
    <3>1. \A i \in DOMAIN inbox : inbox[i] \in Frame
      BY DEF ChannelInv, ChannelTypes
    <3>2. QED
      BY <3>1 DEF ChannelInv, ChannelTypes, InboxShape, Frame
  <2>2. \A i \in DOMAIN inbox' : inbox'[i].session # channelSession' /\ inbox'[i].session <= channelSession'
    BY <1>1, <2>1
  <2>3. \A i, j \in DOMAIN inbox' : i < j => inbox'[i].session <= inbox'[j].session
    BY <1>1, Zenon DEF ChannelInv, InboxShape
  <2>4. QED
    BY <1>1, <2>2, <2>3 DEF InboxShape
<1>5. CountShape'
  BY <1>1, NothingOnTheWay DEF CountShape
<1>6. WriteShape' /\ TailShape'
  BY <1>1 DEF WriteShape, TailShape, Busy
<1>7. Channel!RecordsStayWhole' /\ Channel!HeartbeatsFirst'
  BY <1>1 DEF ChannelInv, Channel!RecordsStayWhole, Channel!HeartbeatsFirst
<1>8. QED
  BY <1>2, <1>3, <1>4, <1>5, <1>6, <1>7 DEF ChannelInv

\* A record of the writer is not None.
LEMMA WritingIsBusy == ASSUME NEW a \in Writing PROVE a # None
<1>1. MaxRecords \in Nat /\ SequenceLimit \in Nat
  BY ChannelConstants
<1>2. a \in [id : Nat, kind : {"control", "heartbeat", "hello"}, left : Nat, seq : Nat]
  BY <1>1 DEF Writing, Kinds
<1>3. QED
  BY <1>2, ChannelConstants

\* A record is taken up behind a record that is whole: its sequence is above all on the wire.
LEMMA TakesUp ==
  ASSUME ChannelInv, NEW r, r.id \in 1..MaxRecords, r.kind \in Kinds, r.size \in Nat \ {0}, Channel!TakeUp(r),
         r.kind = "hello" \/ sequence < SequenceLimit, r.kind = "hello" => channelWire = <<>>,
         channelWire # <<>> /\ ~channelFailed => channelWire[Len(channelWire)].last,
         UNCHANGED <<channelWire, channelFailed, channelConsumed>>
  PROVE  /\ active' \in Writing /\ active'.kind = r.kind /\ active'.left = r.size /\ Busy'
         /\ sequence' \in 0..SequenceLimit /\ (r.kind = "hello" => sequence' = sequence)
         /\ WriteShape' /\ TailShape' /\ Channel!RecordsStayWhole'
<1> USE ChannelConstants
<1>0. sequence \in Nat /\ sequence <= SequenceLimit /\ SequenceLimit \in Nat
  BY DEF ChannelInv, ChannelTypes
<1>1. PICK n : /\ n = (IF r.kind = "hello" THEN 0 ELSE sequence + 1)
               /\ active' = [id |-> r.id, kind |-> r.kind, left |-> r.size, seq |-> n]
               /\ sequence' = IF r.kind = "hello" THEN sequence ELSE n
  BY DEF Channel!TakeUp, Channel!Hello
<1>2. n \in 0..SequenceLimit /\ sequence' \in 0..SequenceLimit /\ sequence' >= sequence
  BY <1>0, <1>1
<1>3. active' \in Writing /\ active'.kind = r.kind /\ active'.left = r.size /\ active'.seq = n /\ active'.left # 0
  BY <1>1, <1>2 DEF Writing
<1>4. Busy'
  <2>1. active' # None
    BY <1>3, WritingIsBusy
  <2>2. QED
    BY <2>1 DEF Busy
<1>5. \A j \in DOMAIN channelWire : channelWire[j].seq <= sequence /\ channelWire[j].seq \in Nat
  <2>1. \A j \in DOMAIN channelWire : channelWire[j] \in Chunk
    BY WeightsFacts DEF ChannelInv, ChannelTypes
  <2>2. \A j \in DOMAIN channelWire : channelWire[j].seq \in Nat
    BY <2>1, <1>0 DEF Chunk
  <2>3. QED
    BY <2>2 DEF ChannelInv, WriteShape
<1>6. WriteShape'
  <2>1. (active'.kind # "hello" => active'.seq = sequence') /\ (active'.kind = "hello" => active'.seq = 0)
    BY <1>1, <1>3
  <2>2. \A j \in DOMAIN channelWire' : channelWire'[j].seq <= sequence'
    BY <1>0, <1>2, <1>5
  <2>3. QED
    BY <1>3, <2>1, <2>2, Zenon DEF WriteShape
<1>7. TailShape'
  <2> SUFFICES ASSUME channelWire # <<>>, ~channelFailed
               PROVE  channelWire[Len(channelWire)].last /\ channelWire[Len(channelWire)].seq < active'.seq
    BY Zenon DEF TailShape
  <2>1. Len(channelWire) \in DOMAIN channelWire
    BY DEF ChannelInv, ChannelTypes
  <2>2. r.kind # "hello"
    OBVIOUS
  <2>3. active'.seq = sequence + 1
    BY <1>1, <1>3, <2>2
  <2>4. channelWire[Len(channelWire)].seq < active'.seq
    BY <1>0, <1>5, <2>1, <2>3
  <2>5. QED
    BY <2>4
<1>8. Channel!RecordsStayWhole'
  BY DEF ChannelInv, Channel!RecordsStayWhole
<1>9. QED
  BY <1>1, <1>2, <1>3, <1>4, <1>6, <1>7, <1>8

\* Behind a record that is done the wire ends with a last chunk.
LEMMA WholeBehind ==
  ASSUME ChannelInv, ~Busy \/ active.left = 0
  PROVE  channelWire # <<>> /\ ~channelFailed => channelWire[Len(channelWire)].last
BY Zenon DEF ChannelInv, TailShape

\* A record ends and the next one is taken up.
LEMMA ChannelFinishes == ASSUME ChannelInv, Channel!FinishRecord PROVE ChannelInv'
<1> USE ChannelConstants DEF Channel!creditVars, Channel!helloVars, Channel!deviceVars
<1>1. /\ active # None /\ ~channelFailed /\ active.left = 0
      /\ outcome' = [outcome EXCEPT ![active.id] = "sent"]
      /\ UNCHANGED <<channelIssued, sent, received, credit, channelFailed, greeting, channelSession, channelWire, drained,
                     hearing, inbox, channelConsumed>>
  BY DEF Channel!FinishRecord, Channel!RecordDone
<1>2. \/ queue # <<>> /\ sequence < SequenceLimit /\ Channel!TakeUp(Head(queue)) /\ queue' = Tail(queue)
      \/ active' = None /\ UNCHANGED <<queue, sequence>>
  BY DEF Channel!FinishRecord
<1>3. outcome' \in [1..MaxRecords -> {"unsent", "waiting", "sent", "rejected"}]
  BY <1>1 DEF ChannelInv, ChannelTypes
<1>4. InboxShape' /\ CountShape'
  BY <1>1 DEF ChannelInv, InboxShape, CountShape
<1>5. channelWire # <<>> /\ ~channelFailed => channelWire[Len(channelWire)].last
  BY <1>1, WholeBehind
<1>6. CASE active' = None /\ UNCHANGED <<queue, sequence>>
  <2>1. ChannelTypes'
    BY <1>1, <1>3, <1>6 DEF ChannelInv, ChannelTypes
  <2>2. PhaseShape'
    BY <1>1, <1>6, Zenon DEF ChannelInv, PhaseShape, Busy
  <2>3. WriteShape' /\ Channel!RecordsStayWhole' /\ Channel!HeartbeatsFirst'
    BY <1>1, <1>6 DEF ChannelInv, WriteShape, Busy, Channel!RecordsStayWhole, Channel!HeartbeatsFirst
  <2>4. TailShape'
    BY <1>1, <1>5, <1>6, Zenon DEF TailShape, Busy
  <2>5. QED
    BY <1>4, <2>1, <2>2, <2>3, <2>4 DEF ChannelInv
<1>7. CASE queue # <<>> /\ sequence < SequenceLimit /\ Channel!TakeUp(Head(queue)) /\ queue' = Tail(queue)
  <2> DEFINE r == Head(queue)
             n == Len(queue)
  <2>1. queue \in Seq(Queued) /\ n \in Nat /\ n >= 1 /\ n <= QueueLimit /\ r = queue[1] /\ QueueLimit \in Nat
    BY <1>7 DEF ChannelInv, ChannelTypes
  <2>2. r \in Queued
    BY <2>1
  <2>3. r.id \in 1..MaxRecords /\ r.kind \in Kinds /\ r.kind # "hello" /\ r.size \in Nat \ {0}
    BY <2>2 DEF Queued, Kinds
  <2>4. queue' \in Seq(Queued) /\ Len(queue') = n - 1
    BY <1>7, <2>1
  <2>5. DOMAIN queue' = 1..n - 1 /\ DOMAIN queue = 1..n
    BY <2>1, <2>4
  <2>6. \A i \in 1..n - 1 : queue'[i] = queue[i + 1] /\ i + 1 \in 1..n
    BY <1>7, <2>1
  <2>7. Channel!TakeUp(r)
    BY <1>7
  <2> HIDE DEF r, n
  <2>8. /\ active' \in Writing /\ active'.kind = r.kind /\ active'.left = r.size /\ Busy'
        /\ sequence' \in 0..SequenceLimit
        /\ WriteShape' /\ TailShape' /\ Channel!RecordsStayWhole'
    BY <1>1, <1>5, <1>7, <2>3, <2>7, TakesUp
  <2>9. ChannelTypes'
    <3>1. Len(queue') <= QueueLimit
      BY <2>1, <2>4
    <3>2. QED
      BY <1>1, <1>3, <2>4, <2>8, <3>1 DEF ChannelInv, ChannelTypes
  <2>10. PhaseShape'
    <3>1. credit # "idle"
      BY <1>7, Zenon DEF ChannelInv, PhaseShape
    <3>2. QED
      BY <1>1, <2>3, <2>8, <3>1, Zenon DEF ChannelInv, PhaseShape
  <2>11. Channel!HeartbeatsFirst'
    <3> SUFFICES ASSUME NEW i \in 1..n - 1, NEW j \in 1..n - 1, queue'[j].kind = "heartbeat", queue'[i].kind # "heartbeat"
                 PROVE  j < i
      BY <2>5 DEF Channel!HeartbeatsFirst
    <3>1. queue[j + 1].kind = "heartbeat" /\ queue[i + 1].kind # "heartbeat" /\ i + 1 \in DOMAIN queue /\ j + 1 \in DOMAIN queue
      BY <2>5, <2>6
    <3>2. j + 1 < i + 1
      BY <3>1, Zenon DEF ChannelInv, Channel!HeartbeatsFirst
    <3>3. QED
      BY <2>1, <3>2
  <2>12. QED
    BY <1>4, <2>8, <2>9, <2>10, <2>11 DEF ChannelInv
<1>8. QED
  BY <1>2, <1>6, <1>7

\* A record is queued: a heartbeat first, another last.
LEMMA RecordQueued ==
  ASSUME ChannelInv, NEW r \in Queued, queue' = Channel!Enqueued(r), Len(queue) < QueueLimit
  PROVE  queue' \in Seq(Queued) /\ Len(queue') <= QueueLimit /\ Channel!HeartbeatsFirst'
<1> DEFINE n == Len(queue)
<1>1. queue \in Seq(Queued) /\ n \in Nat /\ QueueLimit \in Nat /\ DOMAIN queue = 1..n
  BY ChannelConstants DEF ChannelInv, ChannelTypes
<1>2. \A i, j \in 1..n : queue[j].kind = "heartbeat" /\ queue[i].kind # "heartbeat" => j < i
  BY <1>1, Zenon DEF ChannelInv, Channel!HeartbeatsFirst
<1>3. CASE r.kind = "heartbeat"
  <2>1. queue' = <<r>> \o queue
    BY <1>3 DEF Channel!Enqueued
  <2>2. queue' \in Seq(Queued) /\ Len(queue') = n + 1 /\ queue'[1] = r
    BY <1>1, <2>1
  <2>3. DOMAIN queue' = 1..n + 1
    BY <1>1, <2>2
  <2>4. \A i \in 2..n + 1 : queue'[i] = queue[i - 1] /\ i - 1 \in 1..n
    BY <1>1, <2>1
  <2>5. Len(queue') <= QueueLimit
    BY <1>1, <2>2
  <2> HIDE DEF n
  <2>6. Channel!HeartbeatsFirst'
    <3> SUFFICES ASSUME NEW i \in 1..n + 1, NEW j \in 1..n + 1, queue'[j].kind = "heartbeat", queue'[i].kind # "heartbeat"
                 PROVE  j < i
      BY <2>3 DEF Channel!HeartbeatsFirst
    <3>1. i # 1
      BY <1>3, <2>2
    <3>2. i \in 2..n + 1 /\ (j = 1 \/ j \in 2..n + 1)
      BY <1>1, <3>1
    <3>3. CASE j = 1
      BY <3>2, <3>3
    <3>4. CASE j \in 2..n + 1
      <4>1. j - 1 < i - 1
        BY <1>2, <2>4, <3>2, <3>4
      <4>2. QED
        BY <1>1, <4>1
    <3>5. QED
      BY <3>2, <3>3, <3>4
  <2>7. QED
    BY <2>2, <2>5, <2>6
<1>4. CASE r.kind # "heartbeat"
  <2>1. queue' = Append(queue, r)
    BY <1>4 DEF Channel!Enqueued
  <2>2. queue' \in Seq(Queued) /\ Len(queue') = n + 1 /\ queue'[n + 1] = r /\ \A i \in 1..n : queue'[i] = queue[i]
    BY <1>1, <2>1
  <2>3. DOMAIN queue' = 1..n + 1
    BY <1>1, <2>2
  <2>4. Len(queue') <= QueueLimit
    BY <1>1, <2>2
  <2> HIDE DEF n
  <2>5. Channel!HeartbeatsFirst'
    <3> SUFFICES ASSUME NEW i \in 1..n + 1, NEW j \in 1..n + 1, queue'[j].kind = "heartbeat", queue'[i].kind # "heartbeat"
                 PROVE  j < i
      BY <2>3 DEF Channel!HeartbeatsFirst
    <3>1. j # n + 1
      BY <1>4, <2>2
    <3>2. j \in 1..n /\ (i = n + 1 \/ i \in 1..n)
      BY <1>1, <3>1
    <3>3. CASE i = n + 1
      BY <1>1, <3>2, <3>3
    <3>4. CASE i \in 1..n
      BY <1>2, <2>2, <3>2, <3>4
    <3>5. QED
      BY <3>2, <3>3, <3>4
  <2>6. QED
    BY <2>2, <2>4, <2>5
<1>5. QED
  BY <1>3, <1>4

\* A record is sent: refused, taken up by an idle writer, or queued.
LEMMA ChannelSends ==
  ASSUME ChannelInv, NEW kind \in Kinds, NEW size \in Nat \ {0}, kind = "hello" => size = 1, Channel!Send(kind, size)
  PROVE  ChannelInv'
<1> USE ChannelConstants DEF Channel!creditVars, Channel!deviceVars
<1>1. PICK r : r = [id |-> channelIssued + 1, kind |-> kind, size |-> size]
  OBVIOUS
<1>2. /\ channelIssued < MaxRecords /\ channelIssued' = channelIssued + 1
      /\ (IF kind = "hello" THEN ~greeting /\ credit = "idle" ELSE credit # "idle")
      /\ greeting' = (greeting \/ kind = "hello")
      /\ \/ /\ outcome' = [outcome EXCEPT ![r.id] = "rejected"]
            /\ UNCHANGED <<queue, active, sequence>>
         \/ /\ Len(queue) < QueueLimit
            /\ outcome' = [outcome EXCEPT ![r.id] = "waiting"]
            /\ IF active = None /\ (kind = "hello" \/ sequence < SequenceLimit)
               THEN Channel!TakeUp(r) /\ queue' = queue
               ELSE queue' = Channel!Enqueued(r) /\ UNCHANGED <<active, sequence>>
      /\ UNCHANGED <<sent, received, credit, channelFailed, channelSession, channelWire, drained, hearing, inbox,
                     channelConsumed>>
  BY <1>1 DEF Channel!Send, Channel!Hello
<1>3. r.id \in 1..MaxRecords /\ r.kind = kind /\ r.size = size /\ channelIssued' \in 0..MaxRecords
  BY <1>1, <1>2 DEF ChannelInv, ChannelTypes
<1>4. outcome' \in [1..MaxRecords -> {"unsent", "waiting", "sent", "rejected"}]
  BY <1>2, <1>3 DEF ChannelInv, ChannelTypes
<1>5. InboxShape' /\ CountShape'
  BY <1>2 DEF ChannelInv, InboxShape, CountShape
<1>6. /\ credit = "active" => ~greeting'
      /\ ~greeting' => ~greeting
      /\ kind = "hello" => greeting' /\ ~Busy /\ channelWire = <<>> /\ ~hearing /\ credit = "idle"
      /\ kind # "hello" => credit # "idle"
  BY <1>2, Zenon DEF ChannelInv, PhaseShape
<1>7. CASE UNCHANGED <<queue, active, sequence>>
  <2>1. ChannelTypes'
    BY <1>2, <1>3, <1>4, <1>7 DEF ChannelInv, ChannelTypes
  <2>2. PhaseShape'
    BY <1>2, <1>6, <1>7, Zenon DEF ChannelInv, PhaseShape, Busy
  <2>3. QED
    BY <1>2, <1>5, <1>7, <2>1, <2>2, WriterRests DEF ChannelInv
<1>8. CASE active = None /\ (kind = "hello" \/ sequence < SequenceLimit) /\ Channel!TakeUp(r) /\ queue' = queue
  <2>1. channelWire # <<>> /\ ~channelFailed => channelWire[Len(channelWire)].last
    BY <1>8, WholeBehind DEF Busy
  <2>2. /\ active' \in Writing /\ active'.kind = r.kind /\ active'.left = r.size /\ Busy'
        /\ sequence' \in 0..SequenceLimit
        /\ WriteShape' /\ TailShape' /\ Channel!RecordsStayWhole'
    BY <1>2, <1>3, <1>6, <1>8, <2>1, TakesUp
  <2>3. ChannelTypes'
    BY <1>2, <1>3, <1>4, <1>8, <2>2 DEF ChannelInv, ChannelTypes
  <2>4. PhaseShape'
    <3>1. kind = "hello" => active'.left = 1
      BY <1>3, <2>2
    <3>2. QED
      BY <1>2, <1>3, <1>6, <1>8, <2>2, <3>1, Zenon DEF ChannelInv, PhaseShape
  <2>5. Channel!HeartbeatsFirst'
    BY <1>8 DEF ChannelInv, Channel!HeartbeatsFirst
  <2>6. QED
    BY <1>5, <2>2, <2>3, <2>4, <2>5 DEF ChannelInv
<1>9. CASE /\ Len(queue) < QueueLimit /\ ~(active = None /\ (kind = "hello" \/ sequence < SequenceLimit))
           /\ queue' = Channel!Enqueued(r) /\ UNCHANGED <<active, sequence>>
  <2>1. kind # "hello"
    BY <1>6, <1>9 DEF Busy
  <2>2. r \in Queued
    BY <1>1, <1>3, <2>1 DEF Queued, Kinds
  <2>3. queue' \in Seq(Queued) /\ Len(queue') <= QueueLimit /\ Channel!HeartbeatsFirst'
    BY <1>9, <2>2, RecordQueued
  <2>4. ChannelTypes'
    BY <1>2, <1>3, <1>4, <1>9, <2>3 DEF ChannelInv, ChannelTypes
  <2>5. PhaseShape'
    BY <1>2, <1>6, <1>9, <2>1, Zenon DEF ChannelInv, PhaseShape, Busy
  <2>6. WriteShape' /\ TailShape' /\ Channel!RecordsStayWhole'
    BY <1>2, <1>9 DEF ChannelInv, WriteShape, WrittenWhole, TailShape, Busy, Channel!RecordsStayWhole
  <2>7. QED
    BY <1>5, <2>3, <2>4, <2>5, <2>6 DEF ChannelInv
<1>10. QED
  BY <1>2, <1>7, <1>8, <1>9

\* What a chunk is: some bytes of the active record, within the window unless it is a Hello.
LEMMA ChunkWritten ==
  ASSUME ChannelInv, Channel!WriteChunk
  PROVE  \E n \in Nat \ {0}, c \in Chunk :
           /\ Busy /\ active \in Writing /\ active' \in Writing /\ active'.kind = active.kind /\ active'.id = active.id
           /\ active'.seq = active.seq /\ active'.left = active.left - n /\ active.left # 0
           /\ c.id = active.id /\ c.seq = active.seq /\ c.bytes = n
           /\ c.hello <=> active.kind = "hello"
           /\ c.last <=> active'.left = 0
           /\ channelWire' = Append(channelWire, c)
           /\ active.kind = "hello" => sent' = sent /\ active'.left = 0
           /\ active.kind # "hello" => sent' = sent + n /\ sent' <= received + Window
<1> USE ChannelConstants
<1>1. PICK n : /\ n = IF active.kind = "hello"
                      THEN IF active.left < ChunkBytes THEN active.left ELSE ChunkBytes
                      ELSE Channel!reserveSerialBytes(active.left)
               /\ active # None /\ active.left > 0 /\ ~channelFailed /\ n > 0
               /\ active' = [active EXCEPT !.left = @ - n]
               /\ sent' = IF active.kind = "hello" THEN sent ELSE sent + n
               /\ channelWire' = Append(channelWire, [id |-> active.id, seq |-> active.seq, bytes |-> n,
                                                      hello |-> active.kind = "hello", session |-> channelSession,
                                                      last |-> active.left = n])
  BY DEF Channel!WriteChunk, Channel!Hello
<1>2. /\ active \in Writing /\ sent \in Nat /\ received \in Nat /\ channelSession \in Nat /\ Window \in Nat
      /\ ChunkBytes \in Nat /\ ChunkBytes # 0 /\ SequenceLimit \in Nat /\ MaxRecords \in Nat
  BY <1>1 DEF ChannelInv, ChannelTypes
<1>3. active.left \in Nat /\ active.id \in 1..MaxRecords /\ active.seq \in 0..SequenceLimit /\ active.kind \in Kinds
  BY <1>2 DEF Writing
<1>4. active.kind = "hello" => active.left = 1
  <2>1. active.left # 0
    BY <1>1, <1>3
  <2>2. QED
    BY <1>1, <2>1, Zenon DEF ChannelInv, PhaseShape, Busy
<1>5. /\ n \in Nat \ {0} /\ n <= active.left /\ (active.kind = "hello" => n = active.left)
      /\ (active.kind # "hello" => sent + n <= received + Window)
  <2>1. CASE active.kind = "hello"
    BY <1>1, <1>2, <1>4, <2>1
  <2>2. CASE active.kind # "hello"
    <3>1. PICK room, chunk, left : /\ left = active.left /\ room = Window - (sent - received)
                                   /\ chunk = IF left < ChunkBytes THEN left ELSE ChunkBytes
      OBVIOUS
    <3>2. n = (IF room < chunk THEN room ELSE chunk) /\ n > 0
      BY <1>1, <2>2, <3>1 DEF Channel!reserveSerialBytes
    <3>3. left \in Nat /\ chunk \in Nat /\ chunk <= left /\ room \in Int
      BY <1>2, <1>3, <3>1
    <3>4. n \in Nat \ {0} /\ n <= left /\ n <= room
      BY <3>2, <3>3
    <3>5. sent + n <= received + Window
      BY <1>2, <3>1, <3>4
    <3>6. QED
      BY <2>2, <3>1, <3>4, <3>5
  <2>3. QED
    BY <2>1, <2>2
<1>6. /\ active' \in Writing /\ active'.kind = active.kind /\ active'.id = active.id /\ active'.seq = active.seq
      /\ active'.left = active.left - n
  <2>1. active.left - n \in Nat
    BY <1>3, <1>5
  <2>2. QED
    BY <1>1, <1>2, <2>1 DEF Writing
<1>7. PICK h, l : h = (active.kind = "hello") /\ l = (active.left = n)
  OBVIOUS
<1>8. h \in BOOLEAN /\ l \in BOOLEAN /\ (h <=> active.kind = "hello") /\ (l <=> active.left = n)
  BY <1>7, Zenon
<1>9. PICK c : c = [id |-> active.id, seq |-> active.seq, bytes |-> n, hello |-> h, session |-> channelSession, last |-> l]
  OBVIOUS
<1>10. c \in Chunk /\ c.id = active.id /\ c.seq = active.seq /\ c.bytes = n /\ c.hello = h /\ c.last = l
  BY <1>2, <1>3, <1>5, <1>8, <1>9 DEF Chunk
<1>11. channelWire' = Append(channelWire, c)
  BY <1>1, <1>7, <1>9, Zenon
<1>12. (active'.left = 0 <=> active.left = n) /\ active.left # 0
  BY <1>1, <1>3, <1>5, <1>6
<1>13. /\ active.kind = "hello" => sent' = sent /\ active'.left = 0
       /\ active.kind # "hello" => sent' = sent + n /\ sent' <= received + Window
  BY <1>1, <1>5, <1>12
<1>14. (c.hello <=> active.kind = "hello") /\ (c.last <=> active'.left = 0)
  BY <1>8, <1>10, <1>12, Zenon
<1>15. QED
  BY <1>1, <1>2, <1>5, <1>6, <1>10, <1>11, <1>12, <1>13, <1>14, Zenon DEF Busy

\* A chunk is written behind those of its own record or of whole ones.
LEMMA ChannelWrites == ASSUME ChannelInv, Channel!WriteChunk PROVE ChannelInv'
<1> USE ChannelConstants DEF Channel!helloVars
<1>1. PICK n \in Nat \ {0}, c \in Chunk :
           /\ Busy /\ active \in Writing /\ active' \in Writing /\ active'.kind = active.kind /\ active'.id = active.id
           /\ active'.seq = active.seq /\ active'.left = active.left - n /\ active.left # 0
           /\ c.id = active.id /\ c.seq = active.seq /\ c.bytes = n
           /\ c.hello <=> active.kind = "hello"
           /\ c.last <=> active'.left = 0
           /\ channelWire' = Append(channelWire, c)
           /\ active.kind = "hello" => sent' = sent /\ active'.left = 0
           /\ active.kind # "hello" => sent' = sent + n /\ sent' <= received + Window
  BY ChunkWritten
<1>2. /\ ~channelFailed
      /\ UNCHANGED <<queue, sequence, outcome, channelIssued, received, credit, channelFailed, greeting, channelSession,
                     drained, hearing, inbox, channelConsumed>>
  BY DEF Channel!WriteChunk
<1>3. PICK w, k : w = channelWire /\ k = Len(channelWire)
  OBVIOUS
<1>4. w \in Seq(Chunk) /\ k \in Nat /\ k = Len(w) /\ DOMAIN w = 1..k
  BY <1>3 DEF ChannelInv, ChannelTypes
<1>5. /\ channelWire' \in Seq(Chunk) /\ Len(channelWire') = k + 1 /\ channelWire'[k + 1] = c
      /\ \A i \in 1..k : channelWire'[i] = w[i]
  BY <1>1, <1>3, <1>4
<1>6. DOMAIN channelWire' = 1..k + 1
  BY <1>4, <1>5
<1>7. Busy'
  BY <1>1, WritingIsBusy DEF Busy
<1>8. \A i \in 1..k + 1 : i \in 1..k \/ i = k + 1
  BY <1>4
<1>9. ChannelTypes'
  <2>1. sent \in Nat
    BY DEF ChannelInv, ChannelTypes
  <2>2. sent' = sent \/ sent' = sent + n
    BY <1>1, Zenon
  <2>3. sent' \in Nat
    BY <2>1, <2>2
  <2>4. QED
    BY <1>1, <1>2, <1>5, <2>3 DEF ChannelInv, ChannelTypes
<1>10. /\ active.kind = "hello" => active.left = 1 /\ w = <<>> /\ ~hearing
       /\ active.kind # "hello" => credit = "active" /\ hearing
       /\ ~(credit = "idle" /\ ~greeting)
  <2>1. credit \in {"idle", "active", "cancelled"}
    BY DEF ChannelInv, ChannelTypes
  <2>2. QED
    BY <1>1, <1>2, <1>3, <2>1, Zenon DEF ChannelInv, PhaseShape
<1>11. CountShape'
  <2>1. OnTheWay(channelWire') = OnTheWay(w) + Weight(c) /\ OnTheWay(w) \in Nat
    BY <1>1, <1>3, <1>4, OneMoreOnTheWay
  <2>2. sent = drained + OnTheWay(w) /\ received <= drained /\ sent <= received + Window
    BY <1>3 DEF ChannelInv, CountShape
  <2>3. sent \in Nat /\ received \in Nat /\ drained \in Nat
    BY DEF ChannelInv, ChannelTypes
  <2>4. CASE active.kind = "hello"
    <3>1. Weight(c) = 0
      BY <1>1, <2>4 DEF Weight
    <3>2. sent' = sent
      BY <1>1, <2>4
    <3>3. QED
      BY <1>2, <2>1, <2>2, <2>3, <3>1, <3>2 DEF CountShape
  <2>5. CASE active.kind # "hello"
    <3>1. Weight(c) = n
      BY <1>1, <2>5 DEF Weight
    <3>2. sent' = sent + n /\ sent' <= received + Window
      BY <1>1, <2>5
    <3>3. QED
      BY <1>2, <2>1, <2>2, <2>3, <3>1, <3>2 DEF CountShape
  <2>6. QED
    BY <2>4, <2>5
<1>12. PhaseShape'
  <2>1. CASE active.kind = "hello"
    <3>1. k = 0
      BY <1>4, <1>10, <2>1
    <3>2. Len(channelWire') <= 1 /\ \A j \in DOMAIN channelWire' : channelWire'[j].hello /\ channelWire'[j].last
      BY <1>1, <1>5, <1>6, <2>1, <3>1
    <3>3. active'.kind = "hello" /\ active'.left = 0 /\ sent' = sent /\ ~hearing
      BY <1>1, <1>10, <2>1
    <3>4. QED
      BY <1>2, <1>10, <3>2, <3>3, Zenon DEF ChannelInv, PhaseShape
  <2>2. CASE active.kind # "hello"
    <3>1. \A j \in DOMAIN channelWire' : ~channelWire'[j].hello
      <4>1. ~c.hello
        BY <1>1, <2>2, Zenon
      <4>2. \A j \in 1..k : ~w[j].hello
        BY <1>3, <1>4, <1>10, <2>2, Zenon DEF ChannelInv, PhaseShape
      <4>3. QED
        BY <1>5, <1>6, <1>8, <4>1, <4>2, Zenon
    <3>2. active'.kind # "hello" /\ credit = "active" /\ hearing
      BY <1>1, <1>10, <2>2
    <3>3. credit # "idle"
      BY <3>2
    <3>4. QED
      BY <1>2, <3>1, <3>2, <3>3, Zenon DEF ChannelInv, PhaseShape
  <2>3. QED
    BY <2>1, <2>2
<1>13. InboxShape'
  BY <1>2 DEF ChannelInv, InboxShape
<1>14. WriteShape'
  <2>1. k + 1 \in DOMAIN channelWire'
    BY <1>4, <1>6
  <2>2. active'.kind # "hello" /\ active'.left = 0 =>
          /\ channelWire'[k + 1].id = active'.id /\ channelWire'[k + 1].seq = active'.seq
          /\ channelWire'[k + 1].last /\ ~channelWire'[k + 1].hello
    BY <1>1, <1>5, Zenon
  <2>3. active'.kind # "hello" /\ active'.left = 0 => WrittenWhole(active.id, active.seq)'
    BY <2>1, <2>2, Zenon DEF WrittenWhole
  <2>4. \A j \in DOMAIN channelWire' : channelWire'[j].seq <= sequence'
    <3>1. sequence \in Nat /\ c.seq <= sequence
      BY <1>1 DEF ChannelInv, ChannelTypes, WriteShape
    <3>2. \A j \in 1..k : w[j].seq <= sequence
      BY <1>3, <1>4 DEF ChannelInv, WriteShape
    <3>3. QED
      BY <1>2, <1>5, <1>6, <1>8, <3>1, <3>2, Zenon
  <2>5. (active'.kind # "hello" => active'.seq = sequence') /\ (active'.kind = "hello" => active'.seq = 0)
    BY <1>1, <1>2 DEF ChannelInv, WriteShape
  <2>6. QED
    BY <2>3, <2>4, <2>5, Zenon DEF WriteShape
<1>15. TailShape'
  <2>1. channelWire'[Len(channelWire')] = c
    BY <1>5
  <2>2. QED
    BY <1>1, <1>7, <2>1, Zenon DEF TailShape
<1>16. Channel!RecordsStayWhole'
  <2> SUFFICES ASSUME NEW i \in 1..k
               PROVE  IF channelWire'[i].last THEN channelWire'[i].seq < channelWire'[i + 1].seq
                      ELSE channelWire'[i].id = channelWire'[i + 1].id
    <3>1. Len(channelWire') - 1 = k
      BY <1>4, <1>5
    <3>2. QED
      BY <3>1, Zenon DEF Channel!RecordsStayWhole
  <2>1. CASE i = k
    <3>1. w # <<>> /\ i + 1 = k + 1 /\ channelWire'[i] = w[Len(w)]
      BY <1>4, <1>5, <2>1
    <3>2. /\ w[Len(w)].last => w[Len(w)].seq < active.seq
          /\ ~w[Len(w)].last => active.id = w[Len(w)].id
      BY <1>1, <1>2, <1>3, <3>1, Zenon DEF ChannelInv, TailShape
    <3>3. channelWire'[i + 1].seq = active.seq /\ channelWire'[i + 1].id = active.id
      BY <1>1, <1>5, <3>1
    <3>4. QED
      BY <3>1, <3>2, <3>3
  <2>2. CASE i # k
    <3>1. i \in 1..k - 1 /\ i + 1 \in 1..k
      BY <1>4, <2>2
    <3>2. channelWire'[i] = w[i] /\ channelWire'[i + 1] = w[i + 1]
      BY <1>5, <3>1
    <3>3. IF w[i].last THEN w[i].seq < w[i + 1].seq ELSE w[i].id = w[i + 1].id
      BY <1>3, <3>1, Zenon DEF ChannelInv, Channel!RecordsStayWhole
    <3>4. QED
      BY <3>2, <3>3
  <2>3. QED
    BY <2>1, <2>2
<1>17. Channel!HeartbeatsFirst'
  BY <1>2 DEF ChannelInv, Channel!HeartbeatsFirst
<1>18. QED
  BY <1>9, <1>11, <1>12, <1>13, <1>14, <1>15, <1>16, <1>17 DEF ChannelInv

\* Every step of the channel keeps its invariant.
LEMMA ChannelSteps == ASSUME ChannelInv, Channel!Next PROVE ChannelInv'
<1>1. CASE Channel!Send("hello", 1) \/ Channel!Send("heartbeat", 1)
  BY <1>1, ChannelSends DEF Kinds
<1>2. CASE \E n \in Sizes : Channel!Send("control", n)
  <2>1. PICK n \in Sizes : Channel!Send("control", n)
    BY <1>2
  <2>2. n \in Nat \ {0} /\ "control" \in Kinds /\ "control" # "hello"
    BY ChannelConstants DEF Kinds
  <2>3. QED
    BY <2>1, <2>2, ChannelSends
<1>3. CASE Channel!WriteChunk
  BY <1>3, ChannelWrites
<1>4. CASE Channel!FinishRecord
  BY <1>4, ChannelFinishes
<1>5. CASE Channel!SequenceExhausted \/ Channel!RecordFails \/ Channel!Close \/ Channel!RejectFrame
  BY <1>5, ChannelFails
<1>6. CASE Channel!DrainChunk
  BY <1>6, ChannelDrains
<1>7. CASE Channel!RepeatCredit
  BY <1>7, ChannelRepeats
<1>8. CASE Channel!ReceiveAck \/ Channel!ReceiveCredit \/ Channel!SkipBacklog
  BY <1>8, ChannelAck, ChannelCredit, ChannelSkips
<1>9. CASE Channel!RestartSession
  BY <1>9, ChannelRestarts
<1>10. QED
  BY <1>1, <1>2, <1>3, <1>4, <1>5, <1>6, <1>7, <1>8, <1>9, Zenon DEF Channel!Next, Channel!Receive

\* A channel that failed or closed only loses chunks of its wire.
LEMMA ChannelFallsSilent ==
  ASSUME ChannelInv, Channel!Next, channelFailed
  PROVE  Len(channelWire') <= Len(channelWire)
<1> USE DEF Channel!deviceVars
<1>1. Len(channelWire) \in Nat
  BY DEF ChannelInv, ChannelTypes
<1>2. \/ channelWire' = channelWire
      \/ channelWire # <<>> /\ channelWire' = Tail(channelWire)
  <2>1. ~Channel!WriteChunk
    BY Zenon DEF Channel!WriteChunk
  <2>2. QED
    BY <2>1, Zenon
       DEF Channel!Next, Channel!Receive, Channel!Send, Channel!FinishRecord, Channel!SequenceExhausted,
       Channel!RecordFails, Channel!Close, Channel!DrainChunk, Channel!RepeatCredit, Channel!ReceiveAck,
       Channel!ReceiveCredit, Channel!SkipBacklog, Channel!RejectFrame, Channel!RestartSession
<1>3. CASE channelWire # <<>> /\ channelWire' = Tail(channelWire)
  BY <1>1, <1>3, ChunkTaken
<1>4. QED
  BY <1>1, <1>2, <1>3

\* For every window, chunk size, queue, backlog and number of records and sessions, the
\* Worker's receive buffer never overflows, a send that resolved was consumed whole, records
\* stay whole and in order on the wire, no heartbeat waits behind a control record, and a
\* failed channel is silent (WorkerSerialChannel).
THEOREM ChannelSoundness == Spec => ChannelSound
<1>1. Init => ChannelInv
  BY ChannelStarts DEF Init
<1>2. ASSUME ChannelInv, [Next]_vars
      PROVE  ChannelInv' /\ (UNCHANGED channelVars \/ Channel!Next)
  <2>1. CASE ChannelMoves
    BY <1>2, <2>1, ChannelSteps DEF ChannelMoves
  <2>2. CASE ReaderMoves \/ RestartMoves \/ ControlMoves \/ ClientMoves \/ UNCHANGED vars
    <3>1. UNCHANGED channelVars
      BY <2>2 DEF ReaderMoves, RestartMoves, ControlMoves, ClientMoves, vars
    <3>2. QED
      BY <1>2, <3>1, ChannelKeeps
  <2>3. QED
    BY <1>2, <2>1, <2>2 DEF Next
<1>3. ChannelInv /\ [Next]_vars => [channelFailed => Len(channelWire') <= Len(channelWire)]_channelVars
  <2> SUFFICES ASSUME ChannelInv, [Next]_vars, channelFailed, ~UNCHANGED channelVars
               PROVE  Len(channelWire') <= Len(channelWire)
    OBVIOUS
  <2>1. Channel!Next
    BY <1>2
  <2>2. QED
    BY <2>1, ChannelFallsSilent
<1>4. ChannelInv => /\ Channel!TypeOK /\ Channel!WindowRespected /\ Channel!SentMeansConsumed
                    /\ Channel!RecordsStayWhole /\ Channel!HeartbeatsFirst
  BY ChannelInvGives
<1>5. [channelFailed => Len(channelWire') <= Len(channelWire)]_channelVars
        => [channelFailed => Len(channelWire') <= Len(channelWire)]_(Channel!vars)
  BY DEF channelVars, Channel!vars, Channel!writerVars, Channel!creditVars, Channel!helloVars, Channel!deviceVars
<1>6. QED
  BY <1>1, <1>2, <1>3, <1>4, <1>5, PTL DEF Spec, ChannelSound, Channel!SilentAfterFailure
=============================================================================
