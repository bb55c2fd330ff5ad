--------------------------- MODULE WorkerContinuity ---------------------------
(***************************************************************************)
(* Which Worker a Work Challenge belongs to.  The first admission under a  *)
(* challenge stores the fingerprint of the Device Identity that proved     *)
(* possession; later admissions, of this tab or another, must meet the     *)
(* same one.  The record lives in IndexedDB, shared by the tabs: each      *)
(* sweep, read, comparison and deletion is a transaction of its own, and   *)
(* anything may happen between two of them.                                *)
(***************************************************************************)
EXTENDS Naturals

CONSTANTS
  Tabs,
  Workers,            \* Device Identities
  Challenges,
  Scopes,             \* the continuity scopes pages pass: a challenge and a retention expiry
  FirmwareOf,         \* the build each Worker runs
  MaybeExpectedBuild, \* the build the deployment package expects, or Unspecified
  AdmissionLimit, ClockLimit  \* bounds of the instance

Unspecified == "unspecified"

VARIABLES
  stored,      \* the continuity store
  now,         \* the wall clock of the browser
  tabs,        \* the admission each tab has in progress or has finished
  admissions,  \* admissions begun so far: each has fresh nonces
  proofs,      \* possession responses that exist
  eras         \* how often the record of each challenge was deleted (history)

vars == <<stored, now, tabs, admissions, proofs, eras>>

Absent == [kind |-> "absent"]
Damaged == [kind |-> "damaged"]
Record(w, expiry) == [kind |-> "record", worker |-> w, expiry |-> expiry]
Records == [kind : {"record"}, worker : Workers, expiry : {s.expiry : s \in Scopes}]

Maybe(S) == S \cup {Unspecified}
Stages == {"sweeping", "reading", "asking", "asked", "proved", "establishing", "comparing",
           "ready", "clearing", "cancelled", "failed"}
Idle == [stage |-> "idle"]
Admissions ==
  [stage : Stages, live : BOOLEAN, scope : Scopes, port : Workers, nonce : 1..AdmissionLimit,
   at : 0..ClockLimit, expected : Maybe(Workers), worker : Maybe(Workers), era : Nat]

\* A possession response: the request it answers, the identity that signed it, and whether it arrived whole.
Proofs ==
  [nonce : 1..AdmissionLimit, challenge : Challenges, purpose : {"initial_admission", "transport_reacquisition"},
   worker : Workers, intact : BOOLEAN]

Init ==
  /\ stored \in [Challenges -> {Absent, Damaged}]
  /\ now = 1 /\ tabs = [t \in Tabs |-> Idle] /\ admissions = 0 /\ proofs = {}
  /\ eras = [c \in Challenges |-> 0]

-----------------------------------------------------------------------------
\* Transactions of the store.

At(t, stage) == tabs[t].stage = stage
Challenge(t) == tabs[t].scope.challenge

\* Fault: the sweep also takes what expires in the next second.
SweptEarly(at) == [c \in Challenges |-> IF stored[c] \in Records /\ stored[c].expiry <= at + 1 THEN Absent ELSE stored[c]]

\* sweepExpiredRecords: the index knows the expiry of a well-formed record, a damaged one is not in it.
Swept(at) == [c \in Challenges |-> IF stored[c] \in Records /\ stored[c].expiry <= at THEN Absent ELSE stored[c]]

Deleted(new) == [c \in Challenges |-> IF stored[c] # Absent /\ new[c] = Absent THEN eras[c] + 1 ELSE eras[c]]

Sweep(t) ==
  /\ stored' = Swept(tabs[t].at) /\ eras' = Deleted(stored')
  /\ UNCHANGED <<now, admissions, proofs>>

\* Fault: the record is put without looking at what is there.
ComparedBlindly(t) == "established"

\* compareAndEstablishRecord and parseStoredRecord.
Compared(t) ==
  LET found == stored[Challenge(t)]
  IN  CASE found = Absent -> "established"
        [] found = Damaged -> "aborted"
        [] found = Record(tabs[t].worker, tabs[t].scope.expiry) -> "matched"
        [] OTHER -> "conflict"

-----------------------------------------------------------------------------
\* An admission.

Fail(t) == tabs' = [tabs EXCEPT ![t].stage = "failed"]

\* maybeExpectedFingerprint samples the clock, then sweeps, then reads.
Admit(t, scope, port) ==
  /\ At(t, "idle") /\ admissions < AdmissionLimit
  /\ admissions' = admissions + 1
  /\ tabs' = [tabs EXCEPT ![t] =
       [stage |-> "sweeping", live |-> TRUE, scope |-> scope, port |-> port, nonce |-> admissions + 1, at |-> now,
        expected |-> Unspecified, worker |-> Unspecified, era |-> 0]]
  /\ UNCHANGED <<stored, now, proofs, eras>>

SweepToRead(t) ==
  /\ At(t, "sweeping") /\ tabs' = [tabs EXCEPT ![t].stage = "reading"]
  /\ Sweep(t)

\* The stored record must parse and carry the retention of this scope; the page must still be admitting.
Legible(t) ==
  LET found == stored[Challenge(t)]
  IN  found = Absent \/ (found \in Records /\ found.expiry = tabs[t].scope.expiry)

Read(t) ==
  /\ At(t, "reading")
  /\ IF Legible(t) /\ tabs[t].live
     THEN tabs' = [tabs EXCEPT ![t].stage = "asking",
                   ![t].expected = IF stored[Challenge(t)] = Absent THEN Unspecified ELSE stored[Challenge(t)].worker]
     ELSE Fail(t)
  /\ UNCHANGED <<stored, now, admissions, proofs, eras>>

Purpose(t) == IF tabs[t].expected = Unspecified THEN "initial_admission" ELSE "transport_reacquisition"

\* The Worker on the port signs the transcript of the request; the answer may arrive damaged.
Answer(t, intact) ==
  /\ At(t, "asking") /\ tabs' = [tabs EXCEPT ![t].stage = "asked"]
  /\ proofs' = proofs \cup {[nonce |-> tabs[t].nonce, challenge |-> Challenge(t), purpose |-> Purpose(t),
                             worker |-> tabs[t].port, intact |-> intact]}
  /\ UNCHANGED <<stored, now, admissions, eras>>

\* The package expectation, or else the build the Worker named when it acknowledged the session.
ExpectedBuild(t) == IF MaybeExpectedBuild = Unspecified THEN FirmwareOf[tabs[t].port] ELSE MaybeExpectedBuild

\* Fault: the nonces of the session are not compared.
TranscriptLoose(t, p) == p.challenge = Challenge(t) /\ p.purpose = Purpose(t)

\* requestFor and expectedClaims: the claims repeat the request, nonces and session included.
Transcript(t, p) == p.nonce = tabs[t].nonce /\ p.challenge = Challenge(t) /\ p.purpose = Purpose(t)

\* Fault: a reacquisition takes any identity.
SameIdentityUnchecked(t, p) == TRUE

SameIdentity(t, p) == Purpose(t) = "transport_reacquisition" => p.worker = tabs[t].expected

\* verifyResponse.
Verified(t, p) ==
  /\ p.intact
  /\ Transcript(t, p)
  /\ FirmwareOf[p.worker] = ExpectedBuild(t)
  /\ SameIdentity(t, p)

\* The challenge is consumed by the first response, whichever it is: this one, or one left from another session.
Verify(t, p) ==
  /\ At(t, "asked") /\ p \in proofs
  /\ IF tabs[t].live /\ Verified(t, p)
     THEN tabs' = [tabs EXCEPT ![t].stage = "proved", ![t].worker = p.worker]
     ELSE Fail(t)
  /\ UNCHANGED <<stored, now, admissions, proofs, eras>>

\* establish, after the heartbeat and the baseline status.
BeginEstablish(t) ==
  /\ At(t, "proved")
  /\ IF tabs[t].live /\ now < tabs[t].scope.expiry
     THEN tabs' = [tabs EXCEPT ![t].stage = "establishing", ![t].at = now]
     ELSE Fail(t)
  /\ UNCHANGED <<stored, now, admissions, proofs, eras>>

SweepToEstablish(t) ==
  /\ At(t, "establishing") /\ tabs' = [tabs EXCEPT ![t].stage = "comparing"]
  /\ Sweep(t)

\* The record may be written for a page that is no longer admitting: the admission is lost, the record stays.
Establish(t) ==
  LET result == Compared(t)
  IN  /\ At(t, "comparing")
      /\ stored' = IF result = "established"
                   THEN [stored EXCEPT ![Challenge(t)] = Record(tabs[t].worker, tabs[t].scope.expiry)] ELSE stored
      /\ IF result \in {"established", "matched"} /\ tabs[t].live
         THEN tabs' = [tabs EXCEPT ![t].stage = "ready", ![t].era = eras[Challenge(t)]]
         ELSE Fail(t)
      /\ UNCHANGED <<now, admissions, proofs, eras>>

\* cancel restores the Worker and then clears the record.
Cancel(t) ==
  /\ At(t, "ready") /\ tabs[t].live
  /\ tabs' = [tabs EXCEPT ![t].stage = "clearing"]
  /\ UNCHANGED <<stored, now, admissions, proofs, eras>>

Clear(t) ==
  /\ At(t, "clearing") /\ tabs' = [tabs EXCEPT ![t].stage = "cancelled"]
  /\ stored' = [stored EXCEPT ![Challenge(t)] = Absent] /\ eras' = Deleted(stored')
  /\ UNCHANGED <<now, admissions, proofs>>

\* Foreground loss, a peer that fell silent, or a close: what the tab has started goes on.
Lose(t) ==
  /\ tabs[t].stage \notin {"idle", "failed", "cancelled"} /\ tabs[t].live
  /\ tabs' = [tabs EXCEPT ![t].live = FALSE]
  /\ UNCHANGED <<stored, now, admissions, proofs, eras>>

\* The page is closed or reloaded, or the controller is ready for another admission.
Leave(t) ==
  /\ ~At(t, "idle") /\ tabs' = [tabs EXCEPT ![t] = Idle]
  /\ UNCHANGED <<stored, now, admissions, proofs, eras>>

Tick ==
  /\ now < ClockLimit /\ now' = now + 1
  /\ UNCHANGED <<stored, tabs, admissions, proofs, eras>>

Next ==
  \/ \E t \in Tabs :
       \/ \E scope \in Scopes, port \in Workers : Admit(t, scope, port)
       \/ SweepToRead(t) \/ Read(t) \/ BeginEstablish(t) \/ SweepToEstablish(t) \/ Establish(t)
       \/ \E intact \in BOOLEAN : Answer(t, intact)
       \/ \E p \in proofs : Verify(t, p)
       \/ Cancel(t) \/ Clear(t) \/ Lose(t) \/ Leave(t)
  \/ Tick

Spec == Init /\ [][Next]_vars

-----------------------------------------------------------------------------
\* Every record and admission is one the code can hold, and an admission that got a Worker got it after a proof.
TypeOK ==
  /\ stored \in [Challenges -> Records \cup {Absent, Damaged}]
  /\ now \in 1..ClockLimit /\ admissions \in 0..AdmissionLimit
  /\ tabs \in [Tabs -> Admissions \cup {Idle}]
  /\ proofs \subseteq Proofs
  /\ eras \in [Challenges -> Nat]

\* Until its record is deleted, a challenge admits one Worker, whichever tabs admit it: the comparison in
\* compareAndEstablishRecord is what two first admissions at once are decided by.
OneWorkerPerChallenge ==
  \A t, u \in Tabs :
    (At(t, "ready") /\ At(u, "ready") /\ Challenge(t) = Challenge(u) /\ tabs[t].era = tabs[u].era)
      => tabs[t].worker = tabs[u].worker

\* A tab admits the Worker that is on its port now: a response left from another session, of this Worker or
\* another, is refused by verifyResponse.
AdmittedIsConnected ==
  \A t \in Tabs : tabs[t].stage \in {"proved", "establishing", "comparing", "ready"} => tabs[t].worker = tabs[t].port

\* An admission that reports itself recovered has the Worker it read, although the record may have been
\* cleared and written again since.
RecoveredIsExpected ==
  \A t \in Tabs : (At(t, "ready") /\ tabs[t].expected # Unspecified) => tabs[t].worker = tabs[t].expected

\* A record leaves the store when it has expired or when a tab of its challenge cancels, and is never replaced.
RecordsAreKept ==
  [][\A c \in Challenges :
       (stored[c] \in Records /\ stored'[c] # stored[c])
         => /\ stored'[c] = Absent
            /\ \/ stored[c].expiry <= now
               \/ \E t \in Tabs : At(t, "clearing") /\ Challenge(t) = c]_vars

\* "deletes an expired continuity fingerprint instead of restoring it" (worker-continuity-store.test.ts): what a
\* read returns had not expired when the read began.  Another tab may write between the sweep and the read.
ExpiredIsNotRestored ==
  \A t \in Tabs : At(t, "asking") /\ tabs[t].expected # Unspecified => tabs[t].at < tabs[t].scope.expiry
=============================================================================
