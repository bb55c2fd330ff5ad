----------------------------- MODULE Lifecycle -----------------------------
(***************************************************************************)
(* The pure decisions of the Gate Authority: the Work Challenge and Work   *)
(* Session matrices, what one Worker clock reading means for a lease, and  *)
(* what one accepted share means for progress.  Every persistence handler  *)
(* asks these operators before it writes.                                  *)
(***************************************************************************)
EXTENDS Naturals

ChallengeStates ==
  {"issued", "active", "satisfied", "pass_issued", "cancelled", "expired"}

SessionStates == {"ready", "leased", "stopping", "restored", "failed"}

PauseReasons == {"user_requested", "tab_closed", "connectivity_lost"}

WorkerInterruptions ==
  {"worker_reboot", "monotonic_reset", "uncertain_time", "transport_disconnected"}

StopReasons ==
  PauseReasons \cup WorkerInterruptions
    \cup {"challenge_cancelled", "challenge_expired", "challenge_satisfied",
          "lease_expired", "session_failed"}

\* Reasons after which another session may take the stopped session's place.
allows_replacement(reason) ==
  reason \in WorkerInterruptions \cup {"lease_expired", "session_failed"}

-----------------------------------------------------------------------------
\* The transition matrices.

challenge_transition_allowed(from, to) ==
  \/ from = to
  \/ from = "issued"      /\ to \in {"active", "cancelled", "expired"}
  \/ from = "active"      /\ to \in {"satisfied", "cancelled", "expired"}
  \/ from = "satisfied"   /\ to \in {"pass_issued", "expired"}
  \/ from = "pass_issued" /\ to = "expired"

session_transition_allowed(from, to) ==
  \/ from = to
  \/ from = "ready"    /\ to \in {"leased", "stopping", "failed"}
  \/ from = "leased"   /\ to \in {"stopping", "failed"}
  \/ from = "stopping" /\ to \in {"restored", "failed"}
  \/ from = "restored" /\ to \in {"leased", "failed"}

\* The answer to a command the state does not admit.
Forbidden == "forbidden"

apply_challenge_command(state, command) ==
  IF command \in {"RegisterSession", "Pause"} /\ state \in {"issued", "active"} THEN state
  ELSE IF command \in {"SelectPoolOffer", "ConfirmPoolSelection"} /\ state = "issued" THEN state
  ELSE IF command = "StartWork" /\ state \in {"issued", "active"} THEN "active"
  ELSE IF command = "AcceptWork" /\ state = "active" THEN state
  ELSE IF command = "Satisfy" /\ state = "active" THEN "satisfied"
  ELSE IF command = "IssuePass" /\ state \in {"satisfied", "pass_issued"} THEN "pass_issued"
  ELSE IF command = "Cancel" /\ state \in {"issued", "active", "cancelled"} THEN "cancelled"
  ELSE IF command = "Expire" /\ challenge_transition_allowed(state, "expired") THEN "expired"
  ELSE Forbidden

\* Fault: a session that is still stopping may be leased again.
apply_without_restoration(state, command) ==
  IF command = "StartLease" /\ state \in {"ready", "stopping", "restored"} THEN "leased"
  ELSE IF command = "ObserveLease" /\ state = "leased" THEN state
  ELSE IF command = "Stop" /\ state \in {"ready", "leased", "stopping"} THEN "stopping"
  ELSE IF command = "ConfirmRestored" /\ state \in {"stopping", "restored"} THEN "restored"
  ELSE IF command = "Fail" THEN "failed"
  ELSE Forbidden

apply_session_command(state, command) ==
  IF command = "StartLease" /\ state \in {"ready", "restored"} THEN "leased"
  ELSE IF command = "ObserveLease" /\ state = "leased" THEN state
  ELSE IF command = "Stop" /\ state \in {"ready", "leased", "stopping"} THEN "stopping"
  ELSE IF command = "ConfirmRestored" /\ state \in {"stopping", "restored"} THEN "restored"
  ELSE IF command = "Fail" THEN "failed"
  ELSE Forbidden

-----------------------------------------------------------------------------
\* What one Worker clock reading says of a lease: "accepted", a reason to stop,
\* or Forbidden when the reading names another lease.  floor is the reading the
\* new one may not precede.
observe_work_lease(lease, floor, id, boot, reading) ==
  IF lease.id # id THEN Forbidden
  ELSE IF lease.boot # boot THEN "worker_reboot"
  ELSE IF reading < floor THEN "monotonic_reset"
  ELSE IF reading >= lease.until THEN "lease_expired"
  ELSE "accepted"

\* Fault: work equal to the requirement does not meet it.
exceeds(progress, requirement) == progress > requirement

meets(progress, requirement) == progress >= requirement

\* Fault: a share that is on the ledger is credited again.
transition_without_ledger(before, requirement, work, inserted) ==
  [ disposition |-> "credited",
    credited  |-> work,
    progress  |-> before + work,
    satisfied |-> meets(before + work, requirement),
    intent_created |-> meets(before + work, requirement) ]

\* The effect of one accepted share.
accepted_work_transition(before, requirement, work, inserted) ==
  LET already  == meets(before, requirement)
      credited == IF already \/ ~inserted THEN 0 ELSE work
      after    == before + credited
  IN  [ disposition |-> IF already THEN "challenge_satisfied"
                        ELSE IF inserted THEN "credited" ELSE "duplicate_share",
        credited  |-> credited,
        progress  |-> after,
        satisfied |-> already \/ meets(after, requirement),
        intent_created |-> ~already /\ meets(after, requirement) ]
=============================================================================
