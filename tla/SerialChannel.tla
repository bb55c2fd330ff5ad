--------------------------- MODULE SerialChannel ---------------------------
(***************************************************************************)
(* WorkerSerialChannel: one reader and one prioritised writer own a serial *)
(* port.  A record is written in chunks against the Worker's receive       *)
(* window, and its promise resolves when the Worker has drained all of it. *)
(*                                                                         *)
(* The Worker drains chunks in order and answers each with a cumulative    *)
(* credit.  A qualification restart begins a second session on the same    *)
(* channel, so credits of the first may still arrive in the second.        *)
(***************************************************************************)
EXTENDS Naturals, Sequences, SequencesExt

CONSTANTS
  Sizes,        \* sizes of control records
  Window,       \* SERIAL_RECEIVE_WINDOW
  ChunkBytes,   \* SERIAL_WRITE_CHUNK
  QueueLimit,   \* records waiting behind the one being written
  SequenceLimit, CounterLimit,   \* 0xffffffff
  BacklogLimit, \* records of a retired session that a Hello may skip
  MaxRecords, MaxSessions,       \* bounds of the instance
  None

VARIABLES
  queue, active, unfinished,  \* #pending, the record in #drain, #recordActive
  sequence,                   \* #sequence
  sent, received, credit,     \* WorkerSerialCredit: counters; "idle", "active", "cancelled"
  failed, closed,             \* #writeFailed, #closed
  greeting, skipped,          \* a Hello is out; records it skipped
  session,                    \* sessions begun on this channel
  outcome, issued,            \* promises of send
  wire, drained, hearing,     \* the Worker: chunks on the way, bytes drained since its Hello
  inbox,                      \* what the Worker sent
  consumed                    \* records the Worker assembled in this session

writerVars == <<queue, active, unfinished, sequence, outcome, issued>>
creditVars == <<sent, received, credit>>
helloVars  == <<greeting, skipped, session>>
deviceVars == <<wire, drained, hearing, inbox, consumed>>
vars == <<writerVars, creditVars, failed, closed, helloVars, deviceVars>>

Init ==
  /\ queue = <<>> /\ active = None /\ unfinished = FALSE
  /\ sequence = 0
  /\ sent = 0 /\ received = 0 /\ credit = "idle"
  /\ failed = FALSE /\ closed = FALSE
  /\ greeting = FALSE /\ skipped = 0 /\ session = 1
  /\ outcome = [i \in 1..MaxRecords |-> "unsent"] /\ issued = 0
  /\ wire = <<>> /\ drained = 0 /\ hearing = FALSE
  /\ inbox = <<>> /\ consumed = {}

-----------------------------------------------------------------------------
\* The writer.

Hello(r) == r.kind = "hello"

\* #drain takes up r: a Hello has sequence 0, every other record the next one.
TakeUp(r) ==
  LET n == IF Hello(r) THEN 0 ELSE sequence + 1 IN
  /\ active' = [id |-> r.id, kind |-> r.kind, left |-> r.size, seq |-> n]
  /\ sequence' = IF Hello(r) THEN sequence ELSE n
  /\ unfinished' = TRUE

\* Fault: only the record itself is given up.
AbortRecordAlone(extra) ==
  /\ outcome' = [i \in DOMAIN outcome |-> IF i \in extra THEN "rejected" ELSE outcome[i]]
  /\ active' = None
  /\ UNCHANGED <<queue, failed, credit>>

\* The record being written and every queued one is rejected, and the channel writes
\* nothing more.  #recordActive stays set.
Abort(extra) ==
  /\ outcome' = [i \in DOMAIN outcome |->
       IF i \in extra \cup {queue[j].id : j \in DOMAIN queue} THEN "rejected" ELSE outcome[i]]
  /\ queue' = <<>> /\ active' = None
  /\ failed' = TRUE /\ credit' = "cancelled"

\* Fault: a heartbeat waits its turn.
EnqueuedLast(r) == Append(queue, r)

\* Heartbeats go first.
Enqueued(r) == IF r.kind = "heartbeat" THEN <<r>> \o queue ELSE Append(queue, r)

\* Without an idle writer the record waits; with one #drain starts in the same task.
Send(kind, size) ==
  LET r == [id |-> issued + 1, kind |-> kind, size |-> size] IN
  /\ issued < MaxRecords
  /\ issued' = issued + 1
  /\ IF kind = "hello" THEN ~greeting /\ credit = "idle" ELSE credit # "idle"
  /\ greeting' = (greeting \/ kind = "hello")
  /\ \/ /\ closed \/ failed \/ Len(queue) >= QueueLimit
        /\ outcome' = [outcome EXCEPT ![r.id] = "rejected"]
        /\ UNCHANGED <<queue, active, unfinished, sequence>>
     \/ /\ ~closed /\ ~failed /\ Len(queue) < QueueLimit
        /\ outcome' = [outcome EXCEPT ![r.id] = "waiting"]
        /\ IF active = None /\ (Hello(r) \/ sequence < SequenceLimit)
           THEN TakeUp(r) /\ queue' = queue
           ELSE queue' = Enqueued(r) /\ UNCHANGED <<active, unfinished, sequence>>
  /\ UNCHANGED <<creditVars, failed, closed, skipped, session, deviceVars>>

\* Fault: the window counts from the last credit alone.
reserve_from_credit(wanted) ==
  IF wanted < ChunkBytes THEN wanted ELSE ChunkBytes

\* reserveSerialBytes: the next chunk, or 0 to wait for credit.
reserveSerialBytes(wanted) ==
  LET room == Window - (sent - received)
      chunk == IF wanted < ChunkBytes THEN wanted ELSE ChunkBytes IN
  IF room < chunk THEN room ELSE chunk

CounterExhausted == ~Hello(active) /\ active.left > CounterLimit - sent

\* Fault: the failed writer is not asked again before each chunk.
WriteChunkUnchecked ==
  /\ active # None /\ active.left > 0
  /\ LET n == IF Hello(active) THEN 1 ELSE reserveSerialBytes(active.left) IN
     /\ n > 0
     /\ active' = [active EXCEPT !.left = @ - n]
     /\ sent' = IF Hello(active) THEN sent ELSE sent + n
     /\ wire' = Append(wire, [id |-> active.id, seq |-> active.seq, bytes |-> n, hello |-> Hello(active),
                              session |-> session, last |-> active.left = n])
  /\ UNCHANGED <<queue, unfinished, sequence, outcome, issued, received, credit, failed, closed,
                 helloVars, drained, hearing, inbox, consumed>>

\* #writeRecord: one chunk.  A reservation is never refunded.
WriteChunk ==
  /\ active # None /\ active.left > 0
  /\ ~failed
  /\ ~CounterExhausted
  /\ LET n == IF Hello(active)
              THEN IF active.left < ChunkBytes THEN active.left ELSE ChunkBytes
              ELSE reserveSerialBytes(active.left) IN
     /\ n > 0
     /\ active' = [active EXCEPT !.left = @ - n]
     /\ sent' = IF Hello(active) THEN sent ELSE sent + n
     /\ wire' = Append(wire, [id |-> active.id, seq |-> active.seq, bytes |-> n, hello |-> Hello(active),
                              session |-> session, last |-> active.left = n])
  /\ UNCHANGED <<queue, unfinished, sequence, outcome, issued, received, credit, failed, closed,
                 helloVars, drained, hearing, inbox, consumed>>

\* Fault: a record counts as sent once its bytes were handed to the port.
WrittenOut == active.left = 0

\* The Worker has drained what was sent; a Hello needs no credit.
RecordDone == active.left = 0 /\ (Hello(active) \/ received = sent)

\* The promise resolves and the next queued record is taken up in the same task.
FinishRecord ==
  /\ active # None /\ ~failed
  /\ RecordDone
  /\ outcome' = [outcome EXCEPT ![active.id] = "sent"]
  /\ IF queue # <<>> /\ sequence < SequenceLimit
     THEN TakeUp(Head(queue)) /\ queue' = Tail(queue)
     ELSE active' = None /\ unfinished' = FALSE /\ UNCHANGED <<queue, sequence>>
  /\ UNCHANGED <<issued, creditVars, failed, closed, helloVars, deviceVars>>

\* sequence_exhausted
SequenceExhausted ==
  /\ active = None /\ queue # <<>> /\ ~failed
  /\ sequence >= SequenceLimit
  /\ unfinished' = TRUE
  /\ Abort({})
  /\ UNCHANGED <<sequence, issued, sent, received, closed, helloVars, deviceVars>>

\* Two seconds without completion, a native write error, or an exhausted counter.
RecordFails ==
  /\ active # None
  /\ Abort({active.id})
  /\ UNCHANGED <<sequence, unfinished, issued, sent, received, closed, helloVars, deviceVars>>

\* Fault: the queue is dropped and its promises are forgotten.
CloseDroppingQueue ==
  /\ ~closed
  /\ closed' = TRUE
  /\ failed' = TRUE /\ credit' = "cancelled"
  /\ queue' = <<>>
  /\ UNCHANGED <<active, unfinished, sequence, issued, sent, received, outcome, helloVars, deviceVars>>

\* close, also by the controller after a failed read.
Close ==
  /\ ~closed
  /\ closed' = TRUE
  /\ failed' = TRUE /\ credit' = "cancelled"
  /\ outcome' = [i \in DOMAIN outcome |->
       IF i \in {queue[j].id : j \in DOMAIN queue} THEN "rejected" ELSE outcome[i]]
  /\ queue' = <<>>
  /\ UNCHANGED <<active, unfinished, sequence, issued, sent, received, helloVars, deviceVars>>

-----------------------------------------------------------------------------
\* The Worker's side of the port.

\* A chunk is drained and, after the Hello, credited before its record is handled.
DrainChunk ==
  /\ wire # <<>>
  /\ LET c == Head(wire)
         total == IF hearing THEN drained + c.bytes ELSE drained IN
     /\ wire' = Tail(wire)
     /\ drained' = IF c.hello /\ c.last THEN 0 ELSE total
     /\ hearing' = (hearing \/ (c.hello /\ c.last))
     /\ inbox' = IF c.hello
                 THEN IF c.last THEN Append(inbox, [op |-> "ack", session |-> session, bytes |-> 0]) ELSE inbox
                 ELSE Append(inbox, [op |-> "credit", session |-> session, bytes |-> total])
     /\ consumed' = IF c.last THEN consumed \cup {[id |-> c.id, seq |-> c.seq]} ELSE consumed
  /\ UNCHANGED <<writerVars, creditVars, failed, closed, helloVars>>

\* A Worker that repeats its last credit; the host must notice.
RepeatCredit ==
  /\ hearing /\ drained > 0 /\ Len(inbox) < 2
  /\ inbox' = Append(inbox, [op |-> "credit", session |-> session, bytes |-> drained])
  /\ UNCHANGED <<writerVars, creditVars, failed, closed, helloVars, wire, drained, hearing, consumed>>

-----------------------------------------------------------------------------
\* The reader.

\* WorkerSerialCredit.acknowledge
acceptable(n) == credit = "active" /\ received < n /\ n <= sent

\* The Hello was answered: #framer leaves its bootstrap and the credit is admitted.
ReceiveAck ==
  /\ inbox # <<>> /\ Head(inbox).op = "ack" /\ Head(inbox).session = session
  /\ greeting /\ ~closed /\ credit = "idle"
  /\ inbox' = Tail(inbox)
  /\ credit' = "active"
  /\ greeting' = FALSE
  /\ UNCHANGED <<writerVars, sent, received, failed, closed, skipped, session, wire, drained, hearing, consumed>>

ReceiveCredit ==
  /\ inbox # <<>> /\ Head(inbox).op = "credit"
  /\ ~greeting /\ ~closed
  /\ inbox' = Tail(inbox)
  /\ \/ credit = "cancelled" /\ UNCHANGED <<received, failed, closed>>
     \/ /\ credit # "cancelled" /\ acceptable(Head(inbox).bytes)
        /\ received' = Head(inbox).bytes /\ UNCHANGED <<failed, closed>>
  /\ UNCHANGED <<writerVars, sent, credit, helloVars, wire, drained, hearing, consumed>>

\* credit_invalid, or a frame outside a session: the reader stops and the owner closes.
RejectFrame ==
  /\ inbox # <<>> /\ ~closed
  /\ \/ ~greeting /\ credit # "cancelled" /\ Head(inbox).op = "credit" /\ ~acceptable(Head(inbox).bytes)
     \/ greeting /\ Head(inbox).session # session /\ skipped >= BacklogLimit
  /\ inbox' = <<>>
  /\ closed' = TRUE /\ failed' = TRUE /\ credit' = "cancelled"
  /\ outcome' = [i \in DOMAIN outcome |->
       IF i \in {queue[j].id : j \in DOMAIN queue} THEN "rejected" ELSE outcome[i]]
  /\ queue' = <<>>
  /\ UNCHANGED <<active, unfinished, sequence, issued, sent, received, helloVars, wire, drained, hearing, consumed>>

\* WorkerSerialHelloBacklog: records of the retired session grant nothing.
SkipBacklog ==
  /\ inbox # <<>> /\ greeting /\ ~closed
  /\ Head(inbox).session # session
  /\ skipped < BacklogLimit
  /\ skipped' = skipped + 1
  /\ inbox' = Tail(inbox)
  /\ UNCHANGED <<writerVars, creditVars, failed, closed, greeting, session, wire, drained, hearing, consumed>>

-----------------------------------------------------------------------------
\* The Worker restarts on an acknowledged request, and beginRestartSession follows once
\* the writes have settled: fresh credit and sequence, the reader back in bootstrap.
RestartSession ==
  /\ credit = "active" /\ active = None /\ queue = <<>> /\ ~failed
  /\ session < MaxSessions /\ wire = <<>>
  /\ session' = session + 1
  /\ credit' = "idle" /\ sent' = 0 /\ received' = 0
  /\ sequence' = 0 /\ skipped' = 0
  /\ drained' = 0 /\ hearing' = FALSE /\ consumed' = {}
  /\ UNCHANGED <<queue, active, unfinished, outcome, issued, failed, closed, greeting, wire, inbox>>

-----------------------------------------------------------------------------
Receive == ReceiveAck \/ ReceiveCredit \/ SkipBacklog \/ RejectFrame

Next ==
  \/ Send("hello", 1) \/ Send("heartbeat", 1)
  \/ \E n \in Sizes : Send("control", n)
  \/ WriteChunk \/ FinishRecord \/ SequenceExhausted \/ RecordFails
  \/ Close \/ DrainChunk \/ RepeatCredit \/ Receive \/ RestartSession

Spec == Init /\ [][Next]_vars

\* Every record has a two-second deadline, so one of its endings happens.
FairSpec == Spec /\ WF_vars(FinishRecord \/ RecordFails) /\ WF_vars(SequenceExhausted)

-----------------------------------------------------------------------------
\* Properties.

\* Every field has its type, and the queue its bound (WorkerSerialChannel).
TypeOK ==
  /\ queue \in Seq([id : 1..MaxRecords, kind : {"control", "heartbeat", "hello"}, size : Nat])
  /\ Len(queue) <= QueueLimit
  /\ active = None \/ active \in [id : 1..MaxRecords, kind : {"control", "heartbeat", "hello"},
                                  left : Nat, seq : 0..SequenceLimit]
  /\ sent \in Nat /\ received \in 0..sent
  /\ credit \in {"idle", "active", "cancelled"}
  /\ outcome \in [1..MaxRecords -> {"unsent", "waiting", "sent", "rejected"}]

\* The Worker's receive buffer never overflows, although credits of an earlier session
\* are still on their way and a record may be given up with its bytes reserved.
WindowRespected ==
  LET bytes == [i \in DOMAIN wire |-> IF wire[i].hello THEN 0 ELSE wire[i].bytes] IN
  FoldSeq(LAMBDA a, b : a + b, 0, bytes) <= Window

\* A control or heartbeat record is reported sent only after the Worker assembled it, in
\* the session it was written for.
SentMeansConsumed ==
  \A i \in 1..MaxRecords :
    outcome[i] = "waiting" /\ active # None /\ active.id = i /\ RecordDone /\ ~failed =>
      Hello(active) \/ \E c \in consumed : c.id = i /\ c.seq = active.seq

\* A heartbeat overtakes queued records and never splits one: chunks of a record are
\* adjacent on the wire, and sequence numbers rise along it.
RecordsStayWhole ==
  \A i \in 1..Len(wire) - 1 :
    IF wire[i].last THEN wire[i].seq < wire[i + 1].seq
                    ELSE wire[i].id = wire[i + 1].id

\* No heartbeat waits behind a control record (heartbeats keep the lease of a Worker
\* alive while a large record is being written).
HeartbeatsFirst ==
  \A i, j \in DOMAIN queue : queue[j].kind = "heartbeat" /\ queue[i].kind # "heartbeat" => j < i

\* Once a record was given up nothing more is written, so the Worker never sees the
\* tail of one record glued to the head of another.
SilentAfterFailure == [][failed => Len(wire') <= Len(wire)]_vars

\* A caller awaits its send.  As the records are bounded, every send settles exactly when
\* the channel always comes to a state without a waiting one.
Waits == \E i \in 1..MaxRecords : outcome[i] = "waiting"
=============================================================================
