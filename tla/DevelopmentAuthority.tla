------------------------ MODULE DevelopmentAuthority ------------------------
(***************************************************************************)
(* The local Worker authority: a directory with two private key registries,*)
(* the sequence of every Work Lease key, the public trust and, while they  *)
(* change together, a journal.  Each command is a process of its own that  *)
(* takes a lock file, finishes a journal it finds, works and leaves; any   *)
(* of them may fail or be killed between two writes.                       *)
(***************************************************************************)
EXTENDS Naturals, FiniteSets, Functions

CONSTANTS
  Procs, Nobody,  \* process identifiers: one command each
  MaxKeys,        \* keys of a registry (8 in the code)
  MaxSequence,    \* the last sequence (2^64 - 1 in the code)
  Alone           \* at most one command waits on the lock of a dead process

VARIABLES
  made,                             \* keys generated so far
  update, lease, sequence, trust,   \* the four documents
  journal,                          \* authority-journal.json
  lock,                             \* the process named in authority.lock
  procs,
  issued                            \* the artifacts written out

files == <<update, lease, sequence, trust, journal>>
vars == <<made, files, lock, procs, issued>>

Roles == {"update", "lease"}
NoRegistry == [active |-> 0, keys |-> {}]
NoSequence == <<>>
NoTrust == [update |-> {}, lease |-> {}]
NoState == [update |-> NoRegistry, lease |-> NoRegistry, sequence |-> NoSequence]
Idle == [pc |-> "idle", op |-> "none", role |-> "lease", kid |-> 0, state |-> NoState, then |-> "none"]

Registry(k) == [active |-> k, keys |-> {k}]
PublicTrust(state) == [update |-> state.update.keys, lease |-> state.lease.keys]
Exists == update # NoRegistry

\* No directory yet, or the one an earlier init left.
Init ==
  /\ \/ made = 0 /\ update = NoRegistry /\ lease = NoRegistry /\ sequence = NoSequence /\ trust = NoTrust
     \/ /\ made = 2 /\ update = Registry(1) /\ lease = Registry(2) /\ sequence = [k \in {2} |-> 0]
        /\ trust = [update |-> {1}, lease |-> {2}]
  /\ journal = NoState /\ lock = Nobody
  /\ procs = [p \in Procs |-> Idle] /\ issued = {}

-----------------------------------------------------------------------------
\* Processes and the lock.

Alive(p) == procs[p].pc \notin {"idle", "done", "dead"}
At(p, pc) == procs[p].pc = pc
Goto(p, pc) == procs' = [procs EXCEPT ![p].pc = pc]
StaleLock(owner) == owner # Nobody /\ ~Alive(owner)

\* Alone: what an operator can do to stay clear of the race on a stale lock.
Apart(live, stale) == Alone /\ stale => Cardinality(live) <= 1

\* assertMissing and mkdir; two inits may both find nothing.
BeginInit(p) ==
  /\ At(p, "idle") /\ ~Exists
  /\ made' = made + 2
  /\ procs' = [procs EXCEPT ![p] = [Idle EXCEPT !.pc = "init update", !.op = "init",
       !.state = [update |-> Registry(made + 1), lease |-> Registry(made + 2), sequence |-> [k \in {made + 2} |-> 0]]]]
  /\ UNCHANGED <<files, lock, issued>>

\* writeExclusiveJson creates each document, or fails when it is there.
Written(p, missing, next) == Goto(p, IF missing THEN next ELSE "done")

InitUpdate(p) ==
  /\ At(p, "init update")
  /\ Written(p, update = NoRegistry, "init lease")
  /\ update' = IF update = NoRegistry THEN procs[p].state.update ELSE update
  /\ UNCHANGED <<made, lease, sequence, trust, journal, lock, issued>>

InitLease(p) ==
  /\ At(p, "init lease")
  /\ Written(p, lease = NoRegistry, "init sequence")
  /\ lease' = IF lease = NoRegistry THEN procs[p].state.lease ELSE lease
  /\ UNCHANGED <<made, update, sequence, trust, journal, lock, issued>>

InitSequence(p) ==
  /\ At(p, "init sequence")
  /\ Written(p, sequence = NoSequence, "init trust")
  /\ sequence' = IF sequence = NoSequence THEN procs[p].state.sequence ELSE sequence
  /\ UNCHANGED <<made, update, lease, trust, journal, lock, issued>>

InitTrust(p) ==
  /\ At(p, "init trust")
  /\ Goto(p, "done")
  /\ trust' = IF trust = NoTrust THEN PublicTrust(procs[p].state) ELSE trust
  /\ UNCHANGED <<made, update, lease, sequence, journal, lock, issued>>

\* sign-start and sign-renew, sign-capability, rotate, retire; withAuthorityLock.
Begin(p, op, role, kid) ==
  /\ At(p, "idle") /\ Exists
  /\ Apart({q \in Procs : Alive(q)} \cup {p}, StaleLock(lock))
  /\ procs' = [procs EXCEPT ![p] = [Idle EXCEPT !.pc = "lock", !.op = op, !.role = role, !.kid = kid]]
  /\ UNCHANGED <<made, files, lock, issued>>

\* Fault: the lock file is taken over when it is there.
TakeLock(p) == lock' = p

\* tryAcquireProcessLock links its own file to the lock's name, which fails when that exists.
Acquire(p) == lock = Nobody /\ lock' = p

TryLock(p) ==
  /\ At(p, "lock")
  /\ \/ Acquire(p) /\ Goto(p, "recover")
     \/ lock # Nobody /\ Goto(p, "held") /\ UNCHANGED lock
  /\ UNCHANGED <<made, files, issued>>

\* clearStaleAuthorityLock reads the owner and asks whether it lives.
InspectLock(p) ==
  /\ At(p, "held")
  /\ Goto(p, IF StaleLock(lock) THEN "clear" ELSE "lock")
  /\ UNCHANGED <<made, files, lock, issued>>

\* It unlinks whatever the lock's name is by then.
ClearLock(p) ==
  /\ At(p, "clear")
  /\ lock' = Nobody /\ Goto(p, "lock")
  /\ UNCHANGED <<made, files, issued>>

LockTimeout(p) ==
  /\ At(p, "lock") /\ lock # Nobody
  /\ Goto(p, "done")
  /\ UNCHANGED <<made, files, lock, issued>>

Release(p) ==
  /\ At(p, "release")
  /\ lock' = Nobody /\ Goto(p, "done")
  /\ UNCHANGED <<made, files, issued>>

-----------------------------------------------------------------------------
\* The journal.

\* parsePrivateAuthority.
Parsed(registry) == registry.active \in registry.keys /\ Cardinality(registry.keys) <= MaxKeys

\* parseWorkerDeploymentTrust: no key serves two roles, and each role has one to MaxKeys keys.
ValidTrust(document) ==
  /\ \A role \in Roles : document[role] # {} /\ Cardinality(document[role]) <= MaxKeys
  /\ document.update \cap document.lease = {}

\* validateAuthorityState.
ValidState(state) == ValidTrust(PublicTrust(state)) /\ state.lease.keys = DOMAIN state.sequence

\* recoverAuthorityJournal comes before every operation.
RecoverJournal(p) ==
  IF journal = NoState THEN Goto(p, procs[p].op)
  ELSE IF Parsed(journal.update) /\ Parsed(journal.lease) /\ ValidState(journal)
  THEN procs' = [procs EXCEPT ![p].pc = "apply trust", ![p].state = journal, ![p].then = procs[p].op]
  ELSE Goto(p, "release")

Recover(p) ==
  /\ At(p, "recover") /\ RecoverJournal(p)
  /\ UNCHANGED <<made, files, lock, issued>>

\* Fault: the new documents are put in place without a journal.
WriteNoJournal(state) == UNCHANGED journal

WriteJournal(state) == journal' = state

\* commitAuthorityState.
Commit(p) ==
  /\ At(p, "commit")
  /\ IF ValidState(procs[p].state)
     THEN WriteJournal(procs[p].state) /\ procs' = [procs EXCEPT ![p].pc = "apply trust", ![p].then = "release"]
     ELSE Goto(p, "release") /\ UNCHANGED journal
  /\ UNCHANGED <<made, update, lease, sequence, trust, lock, issued>>

\* applyAuthorityState renames each document into place, trust first and signing keys last.
ApplyTrust(p) ==
  /\ At(p, "apply trust") /\ Goto(p, "apply sequence")
  /\ trust' = PublicTrust(procs[p].state)
  /\ UNCHANGED <<made, update, lease, sequence, journal, lock, issued>>

ApplySequence(p) ==
  /\ At(p, "apply sequence") /\ Goto(p, "apply update")
  /\ sequence' = procs[p].state.sequence
  /\ UNCHANGED <<made, update, lease, trust, journal, lock, issued>>

ApplyUpdate(p) ==
  /\ At(p, "apply update") /\ Goto(p, "apply lease")
  /\ update' = procs[p].state.update
  /\ UNCHANGED <<made, lease, sequence, trust, journal, lock, issued>>

ApplyLease(p) ==
  /\ At(p, "apply lease") /\ Goto(p, "unlink")
  /\ lease' = procs[p].state.lease
  /\ UNCHANGED <<made, update, sequence, trust, journal, lock, issued>>

Unlink(p) ==
  /\ At(p, "unlink") /\ Goto(p, procs[p].then)
  /\ journal' = NoState
  /\ UNCHANGED <<made, update, lease, sequence, trust, lock, issued>>

-----------------------------------------------------------------------------
\* The operations.

\* The registry of the command's role.
Target(p) == IF procs[p].role = "update" THEN update ELSE lease

\* Every document an operation on keys needs can be read.
Readable == Parsed(update) /\ Parsed(lease) /\ sequence # NoSequence

\* rotateAuthority: a new key becomes the active one beside the old keys.
Rotated(p) ==
  LET old == Target(p)
      new == [active |-> made + 1, keys |-> old.keys \cup {made + 1}] IN
  IF procs[p].role = "update" THEN [update |-> new, lease |-> lease, sequence |-> sequence]
  ELSE [update |-> update, lease |-> new,
        sequence |-> [k \in DOMAIN sequence \cup {made + 1} |-> IF k = made + 1 THEN 0 ELSE sequence[k]]]

Rotate(p) ==
  /\ At(p, "rotate")
  /\ IF ~Readable THEN Goto(p, "release") /\ UNCHANGED made
     ELSE made' = made + 1 /\ procs' = [procs EXCEPT ![p].pc = "commit", ![p].state = Rotated(p)]
  /\ UNCHANGED <<files, lock, issued>>

Retirable(registry, kid) == kid # registry.active /\ kid \in registry.keys

\* retireAuthority drops a key and, for a Work Lease key, its sequence.
Retire(p) ==
  LET kid == procs[p].kid
      registry == Target(p)
      retired == [registry EXCEPT !.keys = @ \ {kid}] IN
  /\ At(p, "retire")
  /\ IF ~Readable \/ ~Retirable(registry, kid) THEN Goto(p, "release")
     ELSE procs' = [procs EXCEPT ![p].pc = "commit",
            ![p].state = IF procs[p].role = "update" THEN [update |-> retired, lease |-> lease, sequence |-> sequence]
                         ELSE [update |-> update, lease |-> retired, sequence |-> Restrict(sequence, DOMAIN sequence \ {kid})]]
  /\ UNCHANGED <<made, files, lock, issued>>

\* signLeaseAuthorization and signCapability read the active key of their registry.
ReadKey(p) ==
  /\ At(p, "sign")
  /\ IF ~Parsed(Target(p)) THEN Goto(p, "release")
     ELSE procs' = [procs EXCEPT ![p].pc = IF procs[p].role = "lease" THEN "allocate" ELSE "write", ![p].kid = Target(p).active]
  /\ UNCHANGED <<made, files, lock, issued>>

\* allocateSequenceLocked reads the sequences and stores the next one before it is used.
ReadSequence(p) ==
  LET kid == procs[p].kid IN
  /\ At(p, "allocate")
  /\ IF kid \notin DOMAIN sequence \/ sequence[kid] + 1 > MaxSequence THEN Goto(p, "release")
     ELSE procs' = [procs EXCEPT ![p].pc = "store", ![p].state = [NoState EXCEPT !.sequence = [sequence EXCEPT ![kid] = @ + 1]]]
  /\ UNCHANGED <<made, files, lock, issued>>

\* Fault: the sequence is stored after the artifact is out.
StoreNothing(p) == sequence

Stored(p) == procs[p].state.sequence

StoreSequence(p) ==
  /\ At(p, "store") /\ Goto(p, "write")
  /\ sequence' = Stored(p)
  /\ UNCHANGED <<made, update, lease, trust, journal, lock, issued>>

\* The signature, and writeJsonOutput; a capability carries no sequence.
WriteArtifact(p) ==
  LET kid == procs[p].kid role == procs[p].role IN
  /\ At(p, "write") /\ Goto(p, "release")
  /\ issued' = issued \cup {[proc |-> p, role |-> role, kid |-> kid,
                             sequence |-> IF role = "lease" THEN procs[p].state.sequence[kid] ELSE 0]}
  /\ UNCHANGED <<made, files, lock>>

-----------------------------------------------------------------------------
\* Faults.

\* Any step of an operation throws: the lock is released and a journal stays behind.
Fail(p) ==
  /\ Alive(p) /\ procs[p].op # "init" /\ procs[p].pc \notin {"lock", "held", "clear", "release"}
  /\ Goto(p, "release")
  /\ UNCHANGED <<made, files, lock, issued>>

Kill(p) ==
  /\ Alive(p)
  /\ Apart({q \in Procs : Alive(q)} \ {p}, lock = p)
  /\ Goto(p, "dead")
  /\ UNCHANGED <<made, files, lock, issued>>

Step(p) ==
  \/ BeginInit(p) \/ InitUpdate(p) \/ InitLease(p) \/ InitSequence(p) \/ InitTrust(p)
  \/ \E role \in Roles : Begin(p, "rotate", role, 0) \/ Begin(p, "sign", role, 0)
  \/ \E role \in Roles, kid \in 1..made : Begin(p, "retire", role, kid)
  \/ TryLock(p) \/ InspectLock(p) \/ ClearLock(p) \/ LockTimeout(p) \/ Release(p)
  \/ Recover(p) \/ Commit(p) \/ ApplyTrust(p) \/ ApplySequence(p) \/ ApplyUpdate(p) \/ ApplyLease(p) \/ Unlink(p)
  \/ Rotate(p) \/ Retire(p) \/ ReadKey(p) \/ ReadSequence(p) \/ StoreSequence(p) \/ WriteArtifact(p)
  \/ Fail(p) \/ Kill(p)

Next == \E p \in Procs : Step(p)

Spec == Init /\ [][Next]_vars

-----------------------------------------------------------------------------
\* Properties.

\* Every document has its shape.
TypeOK ==
  /\ made \in Nat
  /\ \A r \in {update, lease} : r = NoRegistry \/ (r.active \in r.keys /\ r.keys \subseteq 1..made)
  /\ DOMAIN sequence \subseteq 1..made /\ \A k \in DOMAIN sequence : sequence[k] \in 0..MaxSequence
  /\ lock \in Procs \cup {Nobody}

\* No two artifacts carry the same sequence of the same key, whoever was killed where
\* (allocateSequenceLocked under the authority lock).
NoSequenceReused == \A a, b \in issued : a.role = "lease" /\ a.kid = b.kid /\ a.sequence = b.sequence => a.proc = b.proc

\* What an operation reads is one committed state: the registries, the sequences and the
\* trust agree whenever a process that holds the lock is past recovery, although they are
\* written one by one (commitAuthorityState, recoverAuthorityJournal).
OperationSeesCommittedState ==
  \A p \in Procs : procs[p].pc \in {"rotate", "retire", "sign", "allocate"} /\ trust # NoTrust =>
    /\ ValidState([update |-> update, lease |-> lease, sequence |-> sequence])
    /\ trust = [update |-> update.keys, lease |-> lease.keys]

\* An artifact is signed with a key the published trust names.
SignedIsTrusted ==
  [][\A a \in issued' \ issued : trust # NoTrust => a.kid \in trust[a.role]]_vars

\* The stored sequence of a key never goes back, also when a journal written earlier is applied later.
SequencesNeverRegress ==
  [][\A k \in DOMAIN sequence \cap DOMAIN sequence' : sequence'[k] >= sequence[k]]_vars

\* No rotation is lost: a key leaves the lease registry only when it was named for retirement.
KeysLeaveByRetirement ==
  [][\A k \in lease.keys \ lease'.keys : \E p \in Procs : procs[p].op = "retire" /\ procs[p].kid = k]_vars
=============================================================================
