----------------------------- MODULE ClaimantKey -----------------------------
(***************************************************************************)
(* The Claimant key of one Work Challenge (PreparedClaimantIdentity) over  *)
(* its IndexedDB record.  Every handle keeps a copy of the record, changes *)
(* it in memory and writes the whole copy; only bindConsent reads and      *)
(* writes in one transaction.  Clients of one page share a handle, other   *)
(* tabs restore handles of their own, and pages close at any point.        *)
(***************************************************************************)
EXTENDS Naturals, Sequences, FiniteSets

CONSTANTS
  Handles, Challenges, Receipts,
  None,             \* no challenge, no receipt
  Window,           \* the issuance window
  ArtifactEvents,   \* the transport delivers artifact_expiry events
  OneClient,        \* a handle serves one headless client, which grants the one consent of its
                    \* challenge, or is restored with it
  MaxTime, MaxPending  \* bounds of the instance

VARIABLES
  now,
  disk,   \* the stored record, Gone or Damaged
  mem,    \* #record of each handle, Gone when there is no handle
  queue,  \* of each handle, the store calls whose transaction has not begun
  commits,  \* recorded consents whose completion is on its way to the handle
  taken,  \* history: consents whose recording resolved and that nobody cleared
  ended   \* history: the key was deleted because its retention had ended

vars == <<now, disk, mem, queue, commits, taken, ended>>

NoConsent == [challenge |-> None, receipt |-> None]
Consents == [challenge : Challenges, receipt : Receipts]
Records == [expiry : Nat \ {0}, bound : Challenges \cup {None}, consent : Consents \cup {NoConsent}]
Gone == [expiry |-> 0, bound |-> None, consent |-> NoConsent]
Damaged == [expiry |-> 0, bound |-> None, consent |-> [challenge |-> None, receipt |-> "damaged"]]

\* prepareClaimantIdentity: the fresh record is stored before the handle exists.
Init ==
  /\ now = 0 /\ disk = [Gone EXCEPT !.expiry = Window]
  /\ \E h \in Handles : mem = [g \in Handles |-> IF g = h THEN disk ELSE Gone]
  /\ queue = [h \in Handles |-> <<>>] /\ commits = {} /\ taken = {} /\ ended = FALSE

\* A store call opens the database first, in the order of the calls; what it writes is read
\* when its transaction begins.
Call(h, kind, consent) ==
  /\ Len(queue[h]) < MaxPending
  /\ queue' = [queue EXCEPT ![h] = Append(@, [kind |-> kind, consent |-> consent])]
  /\ UNCHANGED commits
Put(h) == Call(h, "put", NoConsent)
Delete(h) == Call(h, "delete", NoConsent)
Expire(h) == Call(h, "expire", NoConsent)

Held(h) == mem[h] # Gone

\* Fault: retention is never checked.
RetainedAlways(h) == TRUE

\* #requireRetained.
Retained(h) == now < mem[h].expiry

Expired(h) == Expire(h) /\ UNCHANGED mem

MayBind(h, c) == mem[h].bound \in {None, c}

\* bindToChallenge, once per client; a challenge that has ended deletes the key.
BindToChallenge(h, c, expiry) ==
  /\ Held(h)
  /\ IF ~Retained(h) THEN Expired(h)
     ELSE /\ MayBind(h, c) /\ mem[h].bound # c
          /\ IF now >= expiry THEN Delete(h) /\ UNCHANGED mem
             ELSE mem' = [mem EXCEPT ![h].bound = c, ![h].expiry = expiry] /\ Put(h)
  /\ UNCHANGED <<now, disk, taken, ended>>

\* retainThrough extends the retention, never shortens it.
RetainThrough(h, expiry) ==
  /\ ArtifactEvents /\ Held(h)
  /\ IF ~Retained(h) THEN Expired(h)
     ELSE /\ mem[h].bound # None
          /\ mem' = [mem EXCEPT ![h].expiry = IF expiry > @ THEN expiry ELSE @]
          /\ Put(h)
  /\ UNCHANGED <<now, disk, taken, ended>>

\* recordConsent; the client has bound its challenge before.
RecordConsent(h, r) ==
  /\ Held(h) /\ mem[h].bound # None
  /\ (OneClient => \A i \in DOMAIN queue[h] : queue[h][i].kind # "consent")
  /\ (OneClient => mem[h].consent = NoConsent /\ \A done \in commits : done.h # h)
  /\ IF ~Retained(h) THEN Expired(h)
     ELSE Call(h, "consent", [challenge |-> mem[h].bound, receipt |-> r]) /\ UNCHANGED mem
  /\ UNCHANGED <<now, disk, taken, ended>>

\* Fault: the consent is cleared in memory alone.
ClearInMemory(h) ==
  /\ Held(h) /\ mem[h].consent # NoConsent
  /\ mem' = [mem EXCEPT ![h].consent = NoConsent]
  /\ taken' = taken \ {mem[h].consent}
  /\ UNCHANGED <<now, disk, queue, commits, ended>>

\* clearConsent does not look at the retention.
ClearConsent(h) ==
  /\ Held(h) /\ mem[h].consent # NoConsent
  /\ mem' = [mem EXCEPT ![h].consent = NoConsent]
  /\ Put(h)
  /\ taken' = taken \ {mem[h].consent}
  /\ UNCHANGED <<now, disk, ended>>

\* sign: an expired key is deleted instead of used.
Sign(h) ==
  /\ Held(h) /\ ~Retained(h)
  /\ Expired(h)
  /\ UNCHANGED <<now, disk, taken, ended>>

-----------------------------------------------------------------------------
\* The store.

\* Fault: the challenge of the stored record is not compared.
MayRecordAny(consent) == disk # Gone /\ disk # Damaged /\ disk.consent \in {NoConsent, consent}

\* bindConsentRecord: the stored challenge, and no other consent.
MayRecord(consent) ==
  /\ disk # Gone /\ disk # Damaged
  /\ disk.bound = consent.challenge
  /\ disk.consent \in {NoConsent, consent}

\* One read-write transaction; transactions on the store run one after another.
Transact(h) ==
  /\ queue[h] # <<>>
  /\ queue' = [queue EXCEPT ![h] = Tail(@)]
  /\ LET op == Head(queue[h]) IN
     CASE op.kind = "put" -> disk' = mem[h] /\ UNCHANGED commits
       [] op.kind \in {"delete", "expire"} -> disk' = Gone /\ UNCHANGED commits
       [] op.kind = "consent" ->
            IF MayRecord(op.consent)
            THEN disk' = [disk EXCEPT !.consent = op.consent] /\ commits' = commits \cup {[h |-> h, consent |-> op.consent]}
            ELSE UNCHANGED <<disk, commits>>
  /\ ended' = (ended \/ Head(queue[h]).kind = "expire")
  /\ UNCHANGED <<now, mem, taken>>

\* The transaction's completion reaches recordConsent, which then updates its own record.
Committed(done) ==
  /\ done \in commits
  /\ commits' = commits \ {done}
  /\ mem' = [mem EXCEPT ![done.h].consent = done.consent]
  /\ taken' = taken \cup {done.consent}
  /\ UNCHANGED <<now, disk, queue, ended>>

\* parseStoredClaimantKey and the clock of restoreClaimantIdentity.
Usable == disk # Gone /\ disk # Damaged /\ now < disk.expiry

RestoreClaimantIdentity(h) ==
  /\ ~Held(h) /\ disk # Gone
  /\ IF Usable THEN mem' = [mem EXCEPT ![h] = disk] /\ UNCHANGED <<queue, commits>>
     ELSE Delete(h) /\ UNCHANGED mem
  /\ UNCHANGED <<now, disk, taken, ended>>

\* The page goes away with what it had not begun.
ClosePage(h) ==
  /\ Held(h)
  /\ mem' = [mem EXCEPT ![h] = Gone]
  /\ queue' = [queue EXCEPT ![h] = <<>>] /\ commits' = {done \in commits : done.h # h}
  /\ UNCHANGED <<now, disk, taken, ended>>

\* The stored value is no longer a Claimant key.
Damage ==
  /\ disk # Gone /\ disk # Damaged
  /\ disk' = Damaged
  /\ UNCHANGED <<now, mem, queue, commits, taken, ended>>

Tick == now < MaxTime /\ now' = now + 1 /\ UNCHANGED <<disk, mem, queue, commits, taken, ended>>

Next ==
  \/ \E h \in Handles : \/ \E c \in Challenges, e \in 1..MaxTime : BindToChallenge(h, c, e)
                        \/ \E e \in 1..MaxTime : RetainThrough(h, e)
                        \/ \E r \in Receipts : RecordConsent(h, r)
                        \/ ClearConsent(h) \/ Sign(h) \/ RestoreClaimantIdentity(h) \/ ClosePage(h) \/ Transact(h)
  \/ \E done \in commits : Committed(done)
  \/ Damage \/ Tick

Spec == Init /\ [][Next]_vars

-----------------------------------------------------------------------------
\* Properties.

\* Every record is a Claimant key or the mark of its absence.
TypeOK ==
  /\ now \in 0..MaxTime /\ disk \in Records \cup {Gone, Damaged}
  /\ mem \in [Handles -> Records \cup {Gone}]
  /\ queue \in [Handles -> Seq([kind : {"put", "delete", "expire", "consent"}, consent : Consents \cup {NoConsent}])]
  /\ commits \subseteq [h : Handles, consent : Consents]

Coherent(rec) == rec.consent \in Consents => rec.bound = rec.consent.challenge

\* A consent belongs to the challenge its record is bound to, on disk and in every handle:
\* a record of which this fails would be deleted as invalid (parseStoredClaimantKey).
RecordsCoherent == Coherent(disk) /\ \A h \in Handles : Coherent(mem[h])

\* The key of one handle serves one challenge, and its retention is only extended while it
\* runs: an expired key is not revived (bindToChallenge, retainThrough).
OneLifeStep ==
  \A h \in Handles :
    Held(h) /\ mem'[h] # Gone /\ mem'[h] # mem[h] =>
      /\ mem[h].bound # None => mem'[h].bound = mem[h].bound /\ mem'[h].expiry >= mem[h].expiry
      /\ mem'[h].expiry # mem[h].expiry => now < mem[h].expiry

\* With one handle, one client and no artifact events the store follows the handle: once its calls have
\* settled, the record is the handle's, unless it was deleted or damaged.
StoreFollows ==
  commits = {} => \A h \in Handles : Held(h) /\ queue[h] = <<>> => disk \in {mem[h], Gone, Damaged}

\* With one handle and one client, a key that was deleted because its retention had ended is not
\* used again: clearConsent may store it once more, but as a record that every restore and
\* every function of the handle refuses as expired.
EndedIsUnusable == ended => ~Usable /\ \A h \in Handles : Held(h) => ~Retained(h)

\* Consents that were recorded and not cleared never contradict each other.  Two handles, or
\* an artifact event between the commit of a consent and the handle's update, refute it.
OneConsent == Cardinality(taken) <= 1

\* A key that was deleted because its retention had ended stays deleted.  A clearConsent that
\* follows refutes it.
DeletedStaysDeleted == ended => disk = Gone
=============================================================================
