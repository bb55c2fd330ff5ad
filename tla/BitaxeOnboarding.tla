--------------------------- MODULE BitaxeOnboarding ---------------------------
(***************************************************************************)
(* Installing Reference Firmware on a local Bitaxe from the browser: admit *)
(* a signed package against the inspected device, read the settings, back  *)
(* them up, flash the inactive slot, reboot, verify, and roll back when    *)
(* any of it fails.  The page may be closed between any two device calls,  *)
(* and every call may fail before or after it acted.  The device is the    *)
(* one of simulated-bitaxe-onboarding.ts, which may also lose settings.    *)
(***************************************************************************)
EXTENDS Naturals

CONSTANTS
  Devices,         \* devices a user may connect, as they are found
  Packages,        \* firmware packages a user may offer
  Schemas,         \* settings schema versions
  ReloadLimit      \* bound of the instance: how often the page is opened again

VARIABLES
  device,     \* the running slot: what inspect and verifyRedactedSettings report
  saved,      \* #maybeRollbackSnapshot and #maybeRollbackSettings
  rolled,     \* #rollbackConfirmed
  page,       \* the onboarding state machine of the open page
  plaintext,  \* preservedSettings holds settings
  backup,     \* the encrypted transfer buffer holds a backup
  reloads,
  origin,     \* the device when this page's installation began (history)
  unverified  \* firmware was written and no verification has matched since (history)

deviceVars == <<device, saved, rolled>>
bufferVars == <<plaintext, backup>>
history == <<reloads, origin, unverified>>
vars == <<deviceVars, page, bufferVars, history>>

Partitions == {"ota_0", "ota_1"}
Other(slot) == CHOOSE s \in Partitions : s # slot

\* What a device holds as settings: bytes that parse, bytes that do not, or more than the migration window.
SettingsStates == {"settings", "scrambled", "unparseable", "oversized"}

None == [kind |-> "none"]

\* Firmware version 0 is what the device came with; a package's version is positive.
Snapshot(v, reference, preservation, schema, slot, settings, base) ==
  [base EXCEPT !.version = v, !.reference = reference, !.preservation = preservation, !.schema = schema,
               !.slot = slot, !.settings = settings, !.bootable = TRUE]

States == {"disconnected", "connecting", "connected", "installing", "completed"}
Steps == {"none", "admitting", "reading", "encrypting", "downloading", "flashing", "rebooting", "verifying",
          "rolling_back", "rebooting_back", "verifying_back"}
Results == {"none", "ready", "rolled_back", "failed"}

Closed == [state |-> "disconnected", step |-> "none", snapshot |-> None, package |-> None,
           irreversible |-> FALSE, result |-> "none", expected |-> "none", action |-> "none"]

Init ==
  /\ device \in Devices /\ saved = None /\ rolled = FALSE
  /\ page = Closed /\ plaintext = FALSE /\ backup = FALSE
  /\ reloads = 0 /\ origin = None /\ unverified = FALSE

-----------------------------------------------------------------------------
\* Connecting.

\* connect requests a device; a call in any other state throws and changes nothing.
Connect ==
  /\ page.state = "disconnected"
  /\ page' = [page EXCEPT !.state = "connecting"]
  /\ UNCHANGED <<deviceVars, bufferVars, history>>

\* Compatible Reference Firmware needs no flash.
Action(snapshot) ==
  IF snapshot.reference /\ snapshot.preservation = "compatible" THEN "ready" ELSE "firmware_required"

Inspected ==
  /\ page.state = "connecting"
  /\ page' = [page EXCEPT !.state = "connected", !.snapshot = device, !.action = Action(device)]
  /\ UNCHANGED <<deviceVars, bufferVars, history>>

\* The device is not granted, or its snapshot is not exactly the admitted shape.
ConnectFails ==
  /\ page.state = "connecting"
  /\ page' = [page EXCEPT !.state = "disconnected"]
  /\ UNCHANGED <<deviceVars, bufferVars, history>>

-----------------------------------------------------------------------------
\* Up to the flash, every failure returns the page to connected.

Install(p) ==
  /\ page.state = "connected"
  /\ page' = [page EXCEPT !.state = "installing", !.step = "admitting", !.package = p]
  /\ origin' = device
  /\ UNCHANGED <<deviceVars, bufferVars, reloads, unverified>>

\* The finally blocks: the plaintext is wiped, and what was flashed is not installed again by this page.
Settled(result) ==
  [page EXCEPT !.step = "none", !.result = result,
               !.state = IF result \in {"ready", "rolled_back"} \/ page.irreversible THEN "completed" ELSE "connected"]

Finish(result) ==
  /\ page' = Settled(result) /\ plaintext' = FALSE

\* The compact signature names exactly one well-formed trusted key, and that key signed it.
Signed(p) == p.signed

\* Fault: the image is not compared with the signed digest.
AuthenticSignature(p) == Signed(p)

\* admitFirmwarePackage: one trusted key signed this manifest, and the image has its digest.
Authentic(p) == Signed(p) /\ p.digestMatches

Compatible(p, s) ==
  /\ s.board \in p.boards
  /\ s.preservation # "unsupported" /\ s.bootable
  /\ p.minimumSlot <= s.slotBytes /\ s.rollbackAvailable
  /\ p.minimumReadable <= s.schema /\ s.schema <= p.maximumReadable

\* parseManifest.
WellFormed(p) == p.minimumReadable <= p.target /\ p.target <= p.maximumReadable

AdmitPackage ==
  /\ page.step = "admitting"
  /\ IF WellFormed(page.package) /\ Authentic(page.package) /\ Compatible(page.package, page.snapshot)
        /\ page.snapshot.readable
     THEN page' = [page EXCEPT !.step = "reading"] /\ UNCHANGED plaintext
     ELSE Finish("failed")
  /\ UNCHANGED <<deviceVars, backup, history>>

\* readMigrationSettings and redactedSettingsVerification; a passphrase asks for a backup first.
ReadSettings(wantsBackup) ==
  /\ page.step = "reading"
  /\ IF device.settings \in {"settings", "scrambled"}
     THEN /\ page' = [page EXCEPT !.step = IF wantsBackup THEN "encrypting" ELSE "flashing", !.expected = device.settings]
          /\ plaintext' = TRUE
     ELSE Finish("failed")
  /\ UNCHANGED <<deviceVars, backup, history>>

\* encryptMigrationBackup; there must be somewhere to download to, and a passphrase of admitted length.
Encrypt ==
  /\ page.step = "encrypting"
  /\ page' = [page EXCEPT !.step = "downloading"] /\ backup' = TRUE
  /\ UNCHANGED <<deviceVars, plaintext, history>>

\* Fault: the transfer buffer is wiped only when the download worked.
BackupKeptOnFailure(ok) == IF ok THEN FALSE ELSE backup

\* encrypted.fill(0), whether the download worked or not.
BackupAfter(ok) == FALSE

Download(ok) ==
  /\ page.step = "downloading" /\ backup' = BackupAfter(ok)
  /\ IF ok THEN page' = [page EXCEPT !.step = "flashing"] /\ UNCHANGED plaintext ELSE Finish("failed")
  /\ UNCHANGED <<deviceVars, history>>

\* A device call or a check fails before anything was written.
StopEarly ==
  /\ page.step \in {"admitting", "reading", "encrypting"} /\ Finish("failed")
  /\ UNCHANGED <<deviceVars, backup, history>>

-----------------------------------------------------------------------------
\* From the flash on, every failure goes to the rollback.

Written(settings) ==
  Snapshot(page.package.version, TRUE, "compatible", page.package.target, Other(device.slot), settings, device)

\* Fault: the rollback copy is taken of what has just been written.
SavesWritten(settings) == Written(settings)

\* flash keeps the running slot and its settings for the rollback before it writes.
Saves(settings) == device

\* The write may lose the settings; the call may fail after it wrote, or without having written.
Flash(written, settings, ok) ==
  /\ page.step = "flashing" /\ (ok => written)
  /\ page' = [page EXCEPT !.irreversible = TRUE, !.step = IF ok THEN "rebooting" ELSE "rolling_back"]
  /\ IF written
     THEN device' = Written(settings) /\ saved' = Saves(settings) /\ unverified' = TRUE
     ELSE UNCHANGED <<device, saved, unverified>>
  /\ UNCHANGED <<rolled, bufferVars, reloads, origin>>

Reboot(ok) ==
  /\ page.step = "rebooting"
  /\ page' = [page EXCEPT !.step = IF ok THEN "verifying" ELSE "rolling_back"]
  /\ UNCHANGED <<deviceVars, bufferVars, history>>

\* What verifyRedactedSettings reports of the rollback: it is never available again once it was used.
RollbackState == IF rolled THEN "confirmed" ELSE "available"

\* Fault: the digests of the settings are not compared.
ProvenLoosely(rollbackState, confirmed) == RollbackState = rollbackState /\ confirmed

\* The redacted proof: the rollback state, the digests of all settings and of their categories.
Proven(rollbackState, confirmed) == RollbackState = rollbackState /\ confirmed /\ device.settings = page.expected

\* Fault: only the proof counts.
MatchesProof(version, reference, schema, slot) == device.bootable

\* The inspected device: firmware identity, schema, slot, and a slot to fall back to.
Matches(version, reference, schema, slot) ==
  /\ device.version = version /\ device.reference = reference /\ device.schema = schema
  /\ device.bootable /\ device.rollbackAvailable /\ device.slot = slot

\* verifyInstalledDevice; the proof may deny preservation.
Verify(confirmed) ==
  /\ page.step = "verifying"
  /\ IF Matches(page.package.version, TRUE, page.package.target, Other(page.snapshot.slot))
        /\ Proven("available", confirmed)
     THEN Finish("ready") /\ unverified' = FALSE
     ELSE page' = [page EXCEPT !.step = "rolling_back"] /\ UNCHANGED <<plaintext, unverified>>
  /\ UNCHANGED <<deviceVars, backup, reloads, origin>>

\* rollback restores the slot, firmware and settings of before the flash, and rejects when there are none; it may
\* also reject after it restored them.
Rollback(acted, ok) ==
  /\ page.step = "rolling_back" /\ (ok => acted) /\ (acted => saved # None)
  /\ IF acted THEN device' = saved /\ rolled' = TRUE ELSE UNCHANGED <<device, rolled>>
  /\ IF ok THEN page' = [page EXCEPT !.step = "rebooting_back"] /\ UNCHANGED plaintext ELSE Finish("failed")
  /\ UNCHANGED <<saved, backup, history>>

RebootBack(ok) ==
  /\ page.step = "rebooting_back"
  /\ IF ok THEN page' = [page EXCEPT !.step = "verifying_back"] /\ UNCHANGED plaintext ELSE Finish("failed")
  /\ UNCHANGED <<deviceVars, backup, history>>

\* rollbackAndVerify.
VerifyBack(confirmed) ==
  /\ page.step = "verifying_back"
  /\ IF Matches(page.snapshot.version, page.snapshot.reference, page.snapshot.schema, page.snapshot.slot)
        /\ Proven("confirmed", confirmed)
     THEN Finish("rolled_back") /\ unverified' = FALSE
     ELSE Finish("failed") /\ UNCHANGED unverified
  /\ UNCHANGED <<deviceVars, backup, reloads, origin>>

\* An answer of any other shape than the exact snapshot and proof is refused: it sends the first verification to
\* the rollback and ends the second.
VerifyRefused ==
  /\ \/ page.step = "verifying" /\ page' = [page EXCEPT !.step = "rolling_back"] /\ UNCHANGED plaintext
     \/ page.step = "verifying_back" /\ Finish("failed")
  /\ UNCHANGED <<deviceVars, backup, history>>

\* The page is closed or reloaded: its buffers go with it, the device stays as it is.
Reload ==
  /\ page # Closed /\ reloads < ReloadLimit
  /\ page' = Closed /\ plaintext' = FALSE /\ backup' = FALSE /\ reloads' = reloads + 1 /\ origin' = None
  /\ UNCHANGED <<deviceVars, unverified>>

Next ==
  \/ Connect \/ Inspected \/ ConnectFails
  \/ \E p \in Packages : Install(p)
  \/ AdmitPackage \/ Encrypt \/ StopEarly \/ VerifyRefused \/ Reload
  \/ \E flag \in BOOLEAN :
       \/ ReadSettings(flag) \/ Download(flag) \/ Reboot(flag) \/ Verify(flag)
       \/ RebootBack(flag) \/ VerifyBack(flag)
  \/ \E acted, ok \in BOOLEAN : Rollback(acted, ok)
  \/ \E written, ok \in BOOLEAN, settings \in {page.expected, "scrambled"} : Flash(written, settings, ok)

Spec == Init /\ [][Next]_vars

-----------------------------------------------------------------------------
\* The page is installing exactly while an installation step is pending, and a device that was never flashed has
\* nothing to roll back to.
TypeOK ==
  /\ page.state \in States /\ page.step \in Steps /\ page.result \in Results
  /\ (page.state = "installing") = (page.step # "none")
  /\ device.slot \in Partitions /\ device.schema \in Schemas /\ device.settings \in SettingsStates
  /\ plaintext \in BOOLEAN /\ backup \in BOOLEAN /\ rolled \in BOOLEAN /\ unverified \in BOOLEAN
  /\ (rolled \/ unverified) => saved # None
  /\ reloads \in 0..ReloadLimit

\* An installation that runs to its end and returns ready (install, not the ready that connect reports of a device
\* it only inspects) has put the admitted package in the other slot with the
\* settings it found: a write that lost settings, or reached the wrong slot, never does.
ReadyMeansInstalled ==
  page.result = "ready" =>
    device = Snapshot(page.package.version, TRUE, "compatible", page.package.target, Other(origin.slot), origin.settings, origin)

\* An installation that returns rolled_back has left the device exactly as it found it, whichever calls failed.
RolledBackMeansRestored == page.result = "rolled_back" => device = origin

\* Whole settings are in the running slot or in the rollback copy.
Recoverable == device.settings = "settings" \/ (saved # None /\ saved.settings = "settings")

\* The last whole copy of the settings is overwritten in one case only, whichever calls fail and however often the
\* page is closed: a new installation flashes a device whose running settings an earlier one lost and never verified
\* or rolled back, and the rollback copy becomes that of the damaged slot.
LastCopyKept ==
  [][Recoverable => Recoverable' \/ (page.step = "flashing" /\ unverified /\ device.settings # "settings")]_vars

\* No firmware but the one the device came with and authentic, compatible packages ever runs.
OnlyAdmittedFirmware ==
  device.version = 0 \/ \E p \in Packages : p.version = device.version /\ p.signed /\ p.digestMatches /\ device.board \in p.boards

\* Plaintext settings exist only between their reading and the end of the installation, and the encrypted
\* backup only until its download is over, on every path out.
BuffersWiped ==
  /\ plaintext => page.step \notin {"none", "admitting", "reading"}
  /\ backup => page.step = "downloading"

\* "resumes the gate only after redacted post-reboot verification" (bwg-0.1-bitaxe-onboarding.md): a device is
\* reported ready only when no write to it is left without a verification that matched.
ReadyIsVerified == (page.action = "ready" /\ page.state = "connected") => ~unverified

\* "rollback preserving a bootable partition, settings, and Device Identity" (ADR 0036): no step overwrites the
\* last whole copy of the settings.
SettingsSurvive == [][Recoverable => Recoverable']_vars
=============================================================================
