------------------------- MODULE WorkerSide_proofs -------------------------
(***************************************************************************)
(* Proofs about what surrounds the Worker: the onboarding of a device, for *)
(* every device it may be found on and every package it may be offered.    *)
(***************************************************************************)
EXTENDS MCWorkerSide, TLAPS

-----------------------------------------------------------------------------
\* The devices of the onboarding.

\* What the onboarding may find in a slot.
DeviceRecords ==
  [version : Nat, reference : BOOLEAN, preservation : {"compatible", "upgrade_required", "unsupported"},
   schema : Schemas, readable : BOOLEAN, slotBytes : Nat, rollbackAvailable : BOOLEAN, slot : {"ota_0", "ota_1"},
   bootable : BOOLEAN, board : STRING, settings : {"settings", "scrambled", "unparseable", "oversized"}]

\* The device d is the device d0 as it came, or d0 with an admitted package.
Lineage(d, d0) ==
  /\ d \in DeviceRecords
  /\ d.readable = d0.readable /\ d.slotBytes = d0.slotBytes /\ d.board = d0.board
  /\ d.rollbackAvailable = d0.rollbackAvailable
  /\ d.version = 0 => d = d0
  /\ d.version # 0 => d.reference = TRUE /\ d.bootable = TRUE /\ d.preservation = "compatible"
  /\ d.version # 0 => \E p \in Packages : p.version = d.version /\ p.signed /\ p.digestMatches /\ d.board \in p.boards

\* A device has another shape than none.
LEMMA DevicesExist ==
  ASSUME NEW d \in DeviceRecords
  PROVE  d # Onboarding!None
BY DEF DeviceRecords, Onboarding!None

\* A device is its own first form.
LEMMA LineageStarts ==
  ASSUME NEW d \in Devices
  PROVE  Lineage(d, d)
BY DeviceAssumption DEF Lineage, DeviceRecords

\* Two descendants of one device that agree on firmware, schema, slot and settings are equal:
\* what the redacted proof and the inspection compare says everything.
LEMMA LineageAgrees ==
  ASSUME NEW d0, NEW d, NEW e, Lineage(d, d0), Lineage(e, d0), d.version = e.version, d.schema = e.schema,
         d.slot = e.slot, d.settings = e.settings
  PROVE  d = e
<1>1. CASE d.version = 0
  BY <1>1 DEF Lineage
<1>2. CASE d.version # 0
  <2>1. /\ d.reference = e.reference /\ d.preservation = e.preservation /\ d.readable = e.readable
        /\ d.slotBytes = e.slotBytes /\ d.rollbackAvailable = e.rollbackAvailable /\ d.bootable = e.bootable
        /\ d.board = e.board
    BY <1>2, Zenon DEF Lineage
  <2>2. d \in DeviceRecords /\ e \in DeviceRecords
    BY DEF Lineage
  <2>3. QED
    BY <2>1, <2>2 DEF DeviceRecords
<1>3. QED
  BY <1>1, <1>2

\* The other slot is a slot, and another one.
LEMMA OtherSlot ==
  ASSUME NEW slot
  PROVE  Onboarding!Other(slot) \in {"ota_0", "ota_1"} /\ Onboarding!Other(slot) # slot
<1>1. \E s \in {"ota_0", "ota_1"} : s # slot
  OBVIOUS
<1>2. QED
  BY <1>1 DEF Onboarding!Other, Onboarding!Partitions

\* An admitted package on a descendant is a descendant.
LEMMA LineageGrows ==
  ASSUME NEW d0, NEW d, Lineage(d, d0), NEW p \in Packages, Onboarding!Authentic(p), d.board \in p.boards,
         NEW slot \in {"ota_0", "ota_1"},
         NEW settings \in {"settings", "scrambled", "unparseable", "oversized"}, NEW s,
         s = Onboarding!Snapshot(p.version, TRUE, "compatible", p.target, slot, settings, d)
  PROVE  Lineage(s, d0)
<1>1. p.version \in Nat /\ p.version # 0 /\ p.target \in Schemas
  BY PackageAssumption
<1>2. d \in DeviceRecords
  BY DEF Lineage
<1>3. /\ s \in DeviceRecords /\ s.version = p.version
      /\ s.reference = TRUE /\ s.bootable = TRUE /\ s.preservation = "compatible"
      /\ s.readable = d.readable /\ s.slotBytes = d.slotBytes /\ s.board = d.board
      /\ s.rollbackAvailable = d.rollbackAvailable
  BY <1>1, <1>2 DEF DeviceRecords, Onboarding!Snapshot
<1>4. p.signed /\ p.digestMatches
  BY DEF Onboarding!Authentic, Onboarding!Signed
<1>5. p.version = s.version /\ p.signed /\ p.digestMatches /\ s.board \in p.boards
  BY <1>3, <1>4, Zenon
<1>6. s.version # 0
  BY <1>1, <1>3
<1>7. s.readable = d0.readable /\ s.slotBytes = d0.slotBytes /\ s.board = d0.board
      /\ s.rollbackAvailable = d0.rollbackAvailable
  BY <1>3, Zenon DEF Lineage
<1>8. QED
  BY <1>3, <1>5, <1>6, <1>7, Zenon DEF Lineage

-----------------------------------------------------------------------------
\* The inductive invariant of the onboarding.

\* The page of the onboarding.
PageRecords ==
  [state : Onboarding!States, step : Onboarding!Steps, snapshot : DeviceRecords \cup {Onboarding!None},
   package : Packages \cup {Onboarding!None}, irreversible : BOOLEAN, result : Onboarding!Results,
   expected : Onboarding!SettingsStates \cup {"none"}, action : {"none", "ready", "firmware_required"}]

\* One device: what runs, what would be rolled back to and what was found descend from it.
\* The copy to roll back to holds whole settings if the running slot does.
DeviceShape ==
  /\ \E d0 \in Devices :
       /\ Lineage(device, d0)
       /\ saved # Onboarding!None => Lineage(saved, d0)
       /\ origin # Onboarding!None => Lineage(origin, d0)
  /\ saved # Onboarding!None /\ device.settings = "settings" => saved.settings = "settings"
  /\ reloads \in 0..ReloadLimit

\* The running slot holds whole settings if the copy to roll back to does.
CopyAgrees == saved # Onboarding!None /\ saved.settings = "settings" => device.settings = "settings"

\* A device that was rolled back or written has a copy; one that was verified since holds
\* whole settings if the copy does.
OnboardingFlags ==
  /\ plaintext \in BOOLEAN /\ backup \in BOOLEAN /\ rolled \in BOOLEAN /\ unverified \in BOOLEAN
  /\ rolled \/ unverified => saved # Onboarding!None
  /\ unverified \/ CopyAgrees

EarlySteps == {"admitting", "reading", "encrypting", "downloading", "flashing"}
LateSteps == {"rebooting", "verifying", "rolling_back", "rebooting_back", "verifying_back"}

\* A page installs only while its device is the one it inspected, and that is the one this
\* installation found; from the flash on the installation cannot be repeated.
PageShape(page) ==
  /\ page.state = "installing" <=> page.step # "none"
  /\ page.result \in {"ready", "rolled_back"} => page.state = "completed"
  /\ page.step \in LateSteps \/ page.state = "completed" => page.irreversible
  /\ page.step \in EarlySteps \/ page.state \in {"disconnected", "connecting", "connected"} => ~page.irreversible
  /\ page.step \in EarlySteps \/ page.state = "connected" => page.snapshot = device
  /\ page.state \in {"disconnected", "connecting"} => origin = Onboarding!None
  /\ page.state \in {"installing", "completed"} => origin # Onboarding!None
  /\ origin # Onboarding!None => origin = page.snapshot
  /\ page.state = "installing" => page.package \in Packages

\* What the steps so far established: the package is admitted, the settings were read, what
\* the flash wrote is the package in the other slot and its copy is the device it found, and
\* after a rollback the copy runs.
StepShape(page) ==
  /\ page.step \notin {"none", "admitting"} =>
       Onboarding!Authentic(page.package) /\ Onboarding!Compatible(page.package, page.snapshot)
  /\ page.step \notin {"none", "admitting", "reading"} =>
       page.expected = origin.settings /\ page.expected \in {"settings", "scrambled"}
  /\ page.step \in {"rebooting", "verifying"} =>
       \E settings \in Onboarding!SettingsStates : 
         device = Onboarding!Snapshot(page.package.version, TRUE, "compatible", page.package.target,
                                      Onboarding!Other(origin.slot), settings, origin)
  /\ page.step \in {"rebooting", "verifying"} => saved = origin
  /\ page.step \in {"rebooting_back", "verifying_back"} => device = saved

\* The inductive invariant of the onboarding.
OnboardingInv ==
  /\ onboardingPage \in PageRecords
  /\ DeviceShape /\ OnboardingFlags
  /\ PageShape(onboardingPage) /\ StepShape(onboardingPage)
  /\ Onboarding!ReadyMeansInstalled /\ Onboarding!RolledBackMeansRestored /\ Onboarding!BuffersWiped

\* A page that was just opened has done nothing.
LEMMA ClosedPage ==
  /\ Onboarding!Closed \in PageRecords
  /\ origin = Onboarding!None => PageShape(Onboarding!Closed)
  /\ StepShape(Onboarding!Closed)
  /\ Onboarding!Closed.result = "none" /\ Onboarding!Closed.step = "none"
BY DEF Onboarding!Closed, PageRecords, PageShape, StepShape, EarlySteps, LateSteps, Onboarding!States, Onboarding!Steps,
   Onboarding!Results

\* The onboarding starts with a device as it came.
LEMMA OnboardingStarts == Onboarding!Init => OnboardingInv
<1> SUFFICES ASSUME Onboarding!Init PROVE OnboardingInv
  OBVIOUS
<1>0. /\ device \in Devices /\ saved = Onboarding!None /\ rolled = FALSE /\ onboardingPage = Onboarding!Closed
      /\ plaintext = FALSE /\ backup = FALSE /\ reloads = 0 /\ origin = Onboarding!None /\ unverified = FALSE
  BY DEF Onboarding!Init
<1>1. DeviceShape
  BY <1>0, LineageStarts, ReloadAssumption DEF DeviceShape
<1>2. OnboardingFlags /\ Onboarding!BuffersWiped
  BY <1>0, Zenon DEF OnboardingFlags, CopyAgrees, Onboarding!BuffersWiped
<1>3. Onboarding!ReadyMeansInstalled /\ Onboarding!RolledBackMeansRestored
  BY <1>0, ClosedPage DEF Onboarding!ReadyMeansInstalled, Onboarding!RolledBackMeansRestored
<1>4. onboardingPage \in PageRecords /\ PageShape(onboardingPage) /\ StepShape(onboardingPage)
  BY <1>0, ClosedPage, Zenon
<1>5. QED
  BY <1>1, <1>2, <1>3, <1>4 DEF OnboardingInv

-----------------------------------------------------------------------------
\* Steps of the page that leave the device alone.

\* The device, its copy and the device that was found stay.
DeviceStays == UNCHANGED <<device, saved, rolled, reloads, origin, unverified>>

\* What is said of the device holds while it stays.
LEMMA DeviceKept ==
  ASSUME OnboardingInv, DeviceStays
  PROVE  DeviceShape'
BY DEF OnboardingInv, DeviceShape, DeviceStays

\* The flags stay flags.
LEMMA FlagsKept ==
  ASSUME OnboardingInv, DeviceStays, plaintext' \in BOOLEAN, backup' \in BOOLEAN
  PROVE  OnboardingFlags'
BY Zenon DEF OnboardingInv, OnboardingFlags, CopyAgrees, DeviceStays

\* A page without a good result says nothing of its device.
LEMMA NoResult ==
  ASSUME OnboardingInv, onboardingPage'.result \notin {"ready", "rolled_back"}
  PROVE  Onboarding!ReadyMeansInstalled' /\ Onboarding!RolledBackMeansRestored'
BY DEF Onboarding!ReadyMeansInstalled, Onboarding!RolledBackMeansRestored

\* An installation that stops short leaves a connected page, or a completed one if it had
\* begun to write; its plaintext is wiped.
LEMMA InstallationStops ==
  ASSUME OnboardingInv, Onboarding!Finish("failed"), DeviceStays, onboardingPage.step # "none",
         backup' \in BOOLEAN, backup' => FALSE
  PROVE  OnboardingInv'
<1> DEFINE page == onboardingPage
<1>1. page \in PageRecords /\ PageShape(page) /\ page.state = "installing"
  BY DEF OnboardingInv, PageShape
<1>2. onboardingPage' = [page EXCEPT !.step = "none", !.result = "failed",
                                     !.state = IF page.irreversible THEN "completed" ELSE "connected"]
  BY DEF Onboarding!Finish, Onboarding!Settled
<1>3. /\ onboardingPage' \in PageRecords
      /\ onboardingPage'.step = "none" /\ onboardingPage'.result = "failed"
      /\ onboardingPage'.state = (IF page.irreversible THEN "completed" ELSE "connected")
      /\ onboardingPage'.snapshot = page.snapshot /\ onboardingPage'.irreversible = page.irreversible
  BY <1>1, <1>2 DEF PageRecords, Onboarding!States, Onboarding!Steps, Onboarding!Results
<1>4. page.step \in EarlySteps \/ page.step \in LateSteps
  BY <1>1 DEF PageRecords, EarlySteps, LateSteps, Onboarding!Steps, OnboardingInv
<1>5. PageShape(onboardingPage)'
  BY <1>1, <1>3, <1>4 DEF PageShape, DeviceStays, EarlySteps, LateSteps
<1>6. StepShape(onboardingPage)'
  BY <1>3 DEF StepShape
<1>7. DeviceShape' /\ Onboarding!ReadyMeansInstalled' /\ Onboarding!RolledBackMeansRestored'
  BY <1>3, DeviceKept, NoResult
<1>8. plaintext' = FALSE
  BY DEF Onboarding!Finish
<1>9. OnboardingFlags' /\ Onboarding!BuffersWiped'
  BY <1>8, FlagsKept, Zenon DEF Onboarding!BuffersWiped
<1>10. QED
  BY <1>3, <1>5, <1>6, <1>7, <1>9 DEF OnboardingInv

\* The page moves from one state or step to the next.
LEMMA PageConnects ==
  ASSUME OnboardingInv, Onboarding!Connect \/ Onboarding!Inspected \/ Onboarding!ConnectFails
  PROVE  OnboardingInv'
<1> DEFINE page == onboardingPage
<1>1. page \in PageRecords /\ PageShape(page)
  BY DEF OnboardingInv
<1>2. DeviceStays /\ UNCHANGED <<plaintext, backup>> /\ page.state \in {"disconnected", "connecting"}
  BY DEF Onboarding!Connect, Onboarding!Inspected, Onboarding!ConnectFails, DeviceStays, Onboarding!deviceVars,
     Onboarding!bufferVars, Onboarding!history
<1>3. device \in DeviceRecords
  BY DEF OnboardingInv, DeviceShape, Lineage
<1>4. Onboarding!Action(device) \in {"none", "ready", "firmware_required"}
  BY DEF Onboarding!Action
<1>5. /\ onboardingPage' \in PageRecords
      /\ onboardingPage'.step = page.step /\ onboardingPage'.result = page.result
      /\ onboardingPage'.state \in {"disconnected", "connecting", "connected"}
      /\ onboardingPage'.state = "connected" => onboardingPage'.snapshot = device
      /\ onboardingPage'.irreversible = page.irreversible
  <2>1. CASE Onboarding!Connect
    BY <1>1, <2>1 DEF PageRecords, Onboarding!States, Onboarding!Connect
  <2>2. CASE Onboarding!ConnectFails
    BY <1>1, <2>2 DEF PageRecords, Onboarding!States, Onboarding!ConnectFails
  <2>3. CASE Onboarding!Inspected
    BY <1>1, <1>3, <1>4, <2>3 DEF PageRecords, Onboarding!States, Onboarding!Inspected
  <2>4. QED
    BY <2>1, <2>2, <2>3
<1>6. page.step = "none" /\ page.result \notin {"ready", "rolled_back"} /\ origin = Onboarding!None /\ ~page.irreversible
  BY <1>1, <1>2 DEF PageShape
<1>7. PageShape(onboardingPage)'
  BY <1>2, <1>5, <1>6 DEF PageShape, DeviceStays, EarlySteps, LateSteps
<1>8. StepShape(onboardingPage)'
  BY <1>5, <1>6 DEF StepShape
<1>9. DeviceShape' /\ Onboarding!ReadyMeansInstalled' /\ Onboarding!RolledBackMeansRestored'
  BY <1>2, <1>5, <1>6, DeviceKept, NoResult
<1>10. Onboarding!BuffersWiped'
  BY <1>2, <1>5, <1>6 DEF OnboardingInv, Onboarding!BuffersWiped
<1>11. OnboardingFlags'
  BY <1>2, Zenon DEF DeviceStays, OnboardingInv, OnboardingFlags, CopyAgrees
<1>12. QED
  BY <1>5, <1>7, <1>8, <1>9, <1>10, <1>11 DEF OnboardingInv

\* The installation goes to another step on the same side of the flash.
SameSide(page, next) ==
  /\ next \in PageRecords
  /\ next.state = page.state /\ next.snapshot = page.snapshot /\ next.package = page.package
  /\ next.irreversible = page.irreversible /\ next.result = page.result
  /\ \/ page.step \in EarlySteps /\ next.step \in EarlySteps
     \/ page.step \in LateSteps /\ next.step \in LateSteps

\* Such a step preserves what is said of the page.
LEMMA StepTaken ==
  ASSUME OnboardingInv, DeviceStays, SameSide(onboardingPage, onboardingPage'), StepShape(onboardingPage)',
         plaintext' \in BOOLEAN, backup' \in BOOLEAN, Onboarding!BuffersWiped'
  PROVE  OnboardingInv'
<1> DEFINE page == onboardingPage
<1>1. page \in PageRecords /\ PageShape(page) /\ page.state = "installing" /\ page.step # "none"
  BY DEF OnboardingInv, PageShape, SameSide, EarlySteps, LateSteps
<1>2. onboardingPage'.step # "none"
  BY DEF SameSide, EarlySteps, LateSteps
<1>3. page.result \notin {"ready", "rolled_back"}
  BY <1>1 DEF PageShape
<1>4. PageShape(onboardingPage)'
  BY <1>1, <1>2, <1>3 DEF PageShape, DeviceStays, SameSide, EarlySteps, LateSteps
<1>5. DeviceShape' /\ Onboarding!ReadyMeansInstalled' /\ Onboarding!RolledBackMeansRestored'
  BY <1>3, DeviceKept, NoResult DEF SameSide
<1>6. OnboardingFlags'
  BY FlagsKept
<1>7. QED
  BY <1>4, <1>5, <1>6 DEF OnboardingInv, SameSide

\* A package is admitted, or the installation ends.
LEMMA PackageAdmitted ==
  ASSUME OnboardingInv, Onboarding!AdmitPackage
  PROVE  OnboardingInv'
<1> DEFINE page == onboardingPage
<1>1. page \in PageRecords /\ PageShape(page) /\ page.step = "admitting" /\ DeviceStays /\ backup' = backup
  BY DEF OnboardingInv, Onboarding!AdmitPackage, DeviceStays, Onboarding!deviceVars, Onboarding!history
<1>2. backup \in BOOLEAN /\ plaintext \in BOOLEAN /\ ~backup /\ ~plaintext
  BY <1>1, Zenon DEF OnboardingInv, OnboardingFlags, Onboarding!BuffersWiped
<1>3. CASE Onboarding!Finish("failed")
  <2>1. backup' \in BOOLEAN /\ ~backup' /\ page.step # "none"
    BY <1>1, <1>2, Zenon
  <2>2. QED
    BY <1>1, <1>3, <2>1, InstallationStops
<1>4. CASE ~Onboarding!Finish("failed")
  <2>1. /\ Onboarding!Authentic(page.package) /\ Onboarding!Compatible(page.package, page.snapshot)
        /\ onboardingPage' = [page EXCEPT !.step = "reading"] /\ plaintext' = plaintext
    BY <1>1, <1>4 DEF Onboarding!AdmitPackage
  <2>2. SameSide(onboardingPage, onboardingPage') /\ onboardingPage'.step = "reading"
    BY <1>1, <2>1 DEF SameSide, PageRecords, EarlySteps, Onboarding!Steps
  <2>3. StepShape(onboardingPage)'
    BY <2>1, <2>2 DEF StepShape, SameSide
  <2>4. plaintext' \in BOOLEAN /\ backup' \in BOOLEAN /\ Onboarding!BuffersWiped'
    BY <1>1, <1>2, <2>1, <2>2, Zenon DEF Onboarding!BuffersWiped
  <2>5. QED
    BY <1>1, <2>2, <2>3, <2>4, StepTaken
<1>5. QED
  BY <1>3, <1>4

\* The settings are read, or the installation ends.
LEMMA SettingsRead ==
  ASSUME OnboardingInv, NEW flag \in BOOLEAN, Onboarding!ReadSettings(flag)
  PROVE  OnboardingInv'
<1> DEFINE page == onboardingPage
<1>1. page \in PageRecords /\ PageShape(page) /\ page.step = "reading" /\ DeviceStays /\ backup' = backup
  BY DEF OnboardingInv, Onboarding!ReadSettings, DeviceStays, Onboarding!deviceVars, Onboarding!history
<1>2. backup \in BOOLEAN /\ ~backup
  BY <1>1, Zenon DEF OnboardingInv, OnboardingFlags, Onboarding!BuffersWiped
<1>3. CASE Onboarding!Finish("failed")
  <2>1. backup' \in BOOLEAN /\ ~backup' /\ page.step # "none"
    BY <1>1, <1>2, Zenon
  <2>2. QED
    BY <1>1, <1>3, <2>1, InstallationStops
<1>4. CASE ~Onboarding!Finish("failed")
  <2>1. /\ device.settings \in {"settings", "scrambled"} /\ plaintext' = TRUE
        /\ onboardingPage' = [page EXCEPT !.step = IF flag THEN "encrypting" ELSE "flashing", !.expected = device.settings]
    BY <1>1, <1>4 DEF Onboarding!ReadSettings
  <2>2. /\ SameSide(onboardingPage, onboardingPage') /\ onboardingPage'.step \in {"encrypting", "flashing"}
        /\ onboardingPage'.expected = device.settings
    BY <1>1, <2>1 DEF SameSide, PageRecords, EarlySteps, Onboarding!Steps, Onboarding!SettingsStates
  <2>3. device = origin
    BY <1>1 DEF PageShape, EarlySteps
  <2>4. Onboarding!Authentic(page.package) /\ Onboarding!Compatible(page.package, page.snapshot)
    BY <1>1 DEF OnboardingInv, StepShape
  <2>5. StepShape(onboardingPage)'
    BY <1>1, <2>1, <2>2, <2>3, <2>4 DEF StepShape, SameSide, DeviceStays
  <2>6. plaintext' \in BOOLEAN /\ backup' \in BOOLEAN
    BY <1>1, <1>2, <2>1, Zenon
  <2>7. Onboarding!BuffersWiped'
    BY <1>1, <1>2, <2>2 DEF Onboarding!BuffersWiped
  <2>8. QED
    BY <1>1, <2>2, <2>5, <2>6, <2>7, StepTaken
<1>5. QED
  BY <1>3, <1>4

\* The backup is encrypted and downloaded, or the installation ends.
LEMMA BackupTaken ==
  ASSUME OnboardingInv, NEW ok \in BOOLEAN, Onboarding!Encrypt \/ Onboarding!Download(ok)
  PROVE  OnboardingInv'
<1> DEFINE page == onboardingPage
<1>1. /\ page \in PageRecords /\ PageShape(page) /\ page.step \in {"encrypting", "downloading"} /\ DeviceStays
      /\ plaintext \in BOOLEAN /\ StepShape(page)
  BY DEF OnboardingInv, OnboardingFlags, Onboarding!Encrypt, Onboarding!Download, DeviceStays, Onboarding!deviceVars,
     Onboarding!history
<1>2. CASE Onboarding!Download(ok) /\ Onboarding!Finish("failed")
  <2>1. backup' = FALSE /\ page.step # "none"
    BY <1>1, <1>2 DEF Onboarding!Download, Onboarding!BackupAfter
  <2>2. backup' \in BOOLEAN /\ ~backup'
    BY <2>1, Zenon
  <2>3. QED
    BY <1>1, <1>2, <2>1, <2>2, InstallationStops
<1>3. CASE Onboarding!Encrypt \/ ~Onboarding!Finish("failed")
  <2>1. \/ onboardingPage' = [page EXCEPT !.step = "downloading"] /\ backup' = TRUE
        \/ onboardingPage' = [page EXCEPT !.step = "flashing"] /\ backup' = FALSE
    BY <1>3 DEF Onboarding!Encrypt, Onboarding!Download, Onboarding!BackupAfter
  <2>2. SameSide(onboardingPage, onboardingPage') /\ onboardingPage'.expected = page.expected
    BY <1>1, <2>1 DEF SameSide, PageRecords, EarlySteps, Onboarding!Steps
  <2>3. \/ onboardingPage'.step = "downloading" /\ backup' = TRUE
        \/ onboardingPage'.step = "flashing" /\ backup' = FALSE
    BY <1>1, <2>1 DEF PageRecords
  <2>4. StepShape(onboardingPage)'
    BY <1>1, <2>2, <2>3 DEF StepShape, SameSide, DeviceStays
  <2>5. plaintext' = plaintext
    BY <1>3 DEF Onboarding!Encrypt, Onboarding!Download
  <2>6. plaintext' \in BOOLEAN /\ backup' \in BOOLEAN
    BY <1>1, <2>3, <2>5, Zenon
  <2>7. Onboarding!BuffersWiped'
    BY <2>3, Zenon DEF Onboarding!BuffersWiped
  <2>8. QED
    BY <1>1, <2>2, <2>4, <2>6, <2>7, StepTaken
<1>4. QED
  BY <1>2, <1>3

\* The installation ends before anything was written.
LEMMA StoppedEarly ==
  ASSUME OnboardingInv, Onboarding!StopEarly
  PROVE  OnboardingInv'
<1>1. /\ onboardingPage.step \in {"admitting", "reading", "encrypting"} /\ DeviceStays /\ backup' = backup
      /\ Onboarding!Finish("failed")
  BY DEF Onboarding!StopEarly, DeviceStays, Onboarding!deviceVars, Onboarding!history
<1>2. onboardingPage.step # "none" /\ onboardingPage.step # "downloading"
  BY <1>1
<1>3. backup' \in BOOLEAN /\ ~backup'
  BY <1>1, <1>2, Zenon DEF OnboardingInv, OnboardingFlags, Onboarding!BuffersWiped
<1>4. QED
  BY <1>1, <1>2, <1>3, InstallationStops

\* The steps after the flash that leave the device alone.
LEMMA RebootedOrRefused ==
  ASSUME OnboardingInv, NEW ok \in BOOLEAN,
         Onboarding!Reboot(ok) \/ Onboarding!RebootBack(ok) \/ Onboarding!VerifyRefused
  PROVE  OnboardingInv'
<1> DEFINE page == onboardingPage
<1> USE DEF Onboarding!Reboot, Onboarding!RebootBack, Onboarding!VerifyRefused
<1>1. /\ page \in PageRecords /\ PageShape(page) /\ page.step \in LateSteps /\ DeviceStays /\ backup' = backup
      /\ StepShape(page)
  BY DEF OnboardingInv, DeviceStays, Onboarding!deviceVars, Onboarding!history, Onboarding!bufferVars, LateSteps
<1>2. page.step # "none" /\ page.step # "downloading"
  BY <1>1 DEF LateSteps
<1>3. backup' \in BOOLEAN /\ ~backup' /\ plaintext \in BOOLEAN
  BY <1>1, <1>2, Zenon DEF OnboardingInv, OnboardingFlags, Onboarding!BuffersWiped
<1>4. CASE Onboarding!Finish("failed")
  BY <1>1, <1>2, <1>3, <1>4, InstallationStops
<1>5. CASE ~Onboarding!Finish("failed")
  <2>1. /\ plaintext' = plaintext
        /\ \/ onboardingPage' = [page EXCEPT !.step = "verifying"] /\ page.step = "rebooting"
           \/ onboardingPage' = [page EXCEPT !.step = "rolling_back"]
           \/ onboardingPage' = [page EXCEPT !.step = "verifying_back"] /\ page.step = "rebooting_back"
    BY <1>5 DEF Onboarding!bufferVars
  <2>2. /\ SameSide(onboardingPage, onboardingPage') /\ onboardingPage'.expected = page.expected
        /\ onboardingPage'.step \in {"verifying", "rolling_back", "verifying_back"}
        /\ onboardingPage'.step = "verifying" => page.step = "rebooting"
        /\ onboardingPage'.step = "verifying_back" => page.step = "rebooting_back"
    BY <1>1, <2>1 DEF SameSide, PageRecords, LateSteps, Onboarding!Steps
  <2>3. StepShape(onboardingPage)'
    <3>1. page.step \notin {"none", "admitting", "reading"}
      BY <1>1 DEF LateSteps
    <3>2. QED
      BY <1>1, <2>2, <3>1 DEF StepShape, SameSide, DeviceStays
  <2>4. plaintext' \in BOOLEAN /\ Onboarding!BuffersWiped'
    BY <1>3, <2>1, <2>2 DEF Onboarding!BuffersWiped
  <2>5. QED
    BY <1>1, <1>3, <2>2, <2>3, <2>4, StepTaken
<1>6. QED
  BY <1>4, <1>5

-----------------------------------------------------------------------------
\* Steps that concern the device.

\* An installation begins on the device that was inspected.
LEMMA InstallationBegins ==
  ASSUME OnboardingInv, NEW p \in Packages, Onboarding!Install(p)
  PROVE  OnboardingInv'
<1> DEFINE page == onboardingPage
<1>1. /\ page \in PageRecords /\ PageShape(page) /\ page.state = "connected"
      /\ onboardingPage' = [page EXCEPT !.state = "installing", !.step = "admitting", !.package = p]
      /\ origin' = device /\ UNCHANGED <<device, saved, rolled, plaintext, backup, reloads, unverified>>
  BY DEF OnboardingInv, Onboarding!Install, Onboarding!deviceVars, Onboarding!bufferVars
<1>2. /\ onboardingPage' \in PageRecords
      /\ onboardingPage'.state = "installing" /\ onboardingPage'.step = "admitting" /\ onboardingPage'.package = p
      /\ onboardingPage'.result = page.result /\ onboardingPage'.irreversible = page.irreversible
      /\ onboardingPage'.snapshot = page.snapshot
  BY <1>1 DEF PageRecords, Onboarding!States, Onboarding!Steps
<1>3. page.step = "none" /\ page.result \notin {"ready", "rolled_back"} /\ page.snapshot = device /\ ~page.irreversible
  BY <1>1 DEF PageShape
<1>4. device # Onboarding!None
  BY DevicesExist DEF OnboardingInv, DeviceShape, Lineage
<1>5. PageShape(onboardingPage)'
  BY <1>1, <1>2, <1>3, <1>4 DEF PageShape, EarlySteps, LateSteps
<1>6. StepShape(onboardingPage)'
  BY <1>2 DEF StepShape
<1>7. DeviceShape'
  BY <1>1 DEF OnboardingInv, DeviceShape
<1>8. OnboardingFlags'
  BY <1>1, Zenon DEF OnboardingInv, OnboardingFlags, CopyAgrees
<1>9. Onboarding!BuffersWiped'
  BY <1>1, <1>2, <1>3 DEF OnboardingInv, Onboarding!BuffersWiped
<1>10. QED
  BY <1>2, <1>3, <1>5, <1>6, <1>7, <1>8, <1>9, NoResult DEF OnboardingInv

\* The page is opened again.
LEMMA PageReloaded ==
  ASSUME OnboardingInv, Onboarding!Reload
  PROVE  OnboardingInv'
<1>1. /\ onboardingPage' = Onboarding!Closed /\ plaintext' = FALSE /\ backup' = FALSE
      /\ reloads' = reloads + 1 /\ reloads < ReloadLimit
      /\ origin' = Onboarding!None /\ UNCHANGED <<device, saved, rolled, unverified>>
  BY DEF Onboarding!Reload, Onboarding!deviceVars
<1>2. DeviceShape'
  BY <1>1, ReloadAssumption DEF OnboardingInv, DeviceShape
<1>3. OnboardingFlags' /\ Onboarding!BuffersWiped'
  BY <1>1, Zenon DEF OnboardingInv, OnboardingFlags, CopyAgrees, Onboarding!BuffersWiped
<1>4. /\ onboardingPage' \in PageRecords /\ PageShape(onboardingPage)' /\ StepShape(onboardingPage)'
      /\ onboardingPage'.result = "none"
  BY <1>1 DEF Onboarding!Closed, PageRecords, PageShape, StepShape, EarlySteps, LateSteps, Onboarding!States,
     Onboarding!Steps, Onboarding!Results
<1>5. QED
  BY <1>2, <1>3, <1>4, NoResult DEF OnboardingInv

\* A write puts an admitted package in the other slot, after a copy of what was there.
LEMMA FirmwareWritten ==
  ASSUME OnboardingInv, NEW written \in BOOLEAN, NEW ok \in BOOLEAN,
         NEW settings \in {onboardingPage.expected, "scrambled"}, Onboarding!Flash(written, settings, ok)
  PROVE  OnboardingInv'
<1> DEFINE page == onboardingPage
<1>1. /\ page \in PageRecords /\ PageShape(page) /\ StepShape(page) /\ page.step = "flashing" /\ (ok => written)
      /\ onboardingPage' = [page EXCEPT !.irreversible = TRUE, !.step = IF ok THEN "rebooting" ELSE "rolling_back"]
      /\ UNCHANGED <<rolled, plaintext, backup, reloads, origin>>
  BY DEF OnboardingInv, Onboarding!Flash, Onboarding!bufferVars
<1>2. /\ onboardingPage' \in PageRecords
      /\ onboardingPage'.state = page.state /\ onboardingPage'.package = page.package
      /\ onboardingPage'.step = (IF ok THEN "rebooting" ELSE "rolling_back")
      /\ onboardingPage'.result = page.result /\ onboardingPage'.irreversible = TRUE
      /\ onboardingPage'.snapshot = page.snapshot /\ onboardingPage'.expected = page.expected
  BY <1>1 DEF PageRecords, Onboarding!Steps
<1>3. /\ page.state = "installing" /\ page.result \notin {"ready", "rolled_back"} /\ page.snapshot = device
      /\ origin # Onboarding!None /\ origin = device /\ page.package \in Packages
  BY <1>1 DEF PageShape, EarlySteps
<1>4. /\ Onboarding!Authentic(page.package) /\ Onboarding!Compatible(page.package, device)
      /\ page.expected = origin.settings /\ page.expected \in {"settings", "scrambled"}
      /\ settings \in {"settings", "scrambled"} /\ (settings = "settings" => device.settings = "settings")
  BY <1>1, <1>3 DEF StepShape
<1>5. onboardingPage'.irreversible
  BY <1>2, Zenon
<1>6. PageShape(onboardingPage)'
  BY <1>1, <1>2, <1>3, <1>5 DEF PageShape, EarlySteps, LateSteps
<1>7. PICK d0 \in Devices : /\ Lineage(device, d0) /\ (saved # Onboarding!None => Lineage(saved, d0))
                            /\ (origin # Onboarding!None => Lineage(origin, d0))
  BY DEF OnboardingInv, DeviceShape
<1>8. device \in DeviceRecords /\ device # Onboarding!None
  BY <1>7, DevicesExist DEF Lineage
<1>9. plaintext' \in BOOLEAN /\ backup' \in BOOLEAN /\ rolled' \in BOOLEAN
  BY <1>1, Zenon DEF OnboardingInv, OnboardingFlags
<1>10. Onboarding!BuffersWiped'
  BY <1>1, <1>2 DEF OnboardingInv, Onboarding!BuffersWiped
<1>11. CASE written
  <2> DEFINE slot == Onboarding!Other(device.slot)
  <2>1. /\ device' = Onboarding!Snapshot(page.package.version, TRUE, "compatible", page.package.target, slot, settings, device)
        /\ saved' = device /\ unverified' = TRUE
    BY <1>11 DEF Onboarding!Flash, Onboarding!Written, Onboarding!Saves
  <2>2. slot \in {"ota_0", "ota_1"}
    BY OtherSlot
  <2>3. page.package.version \in Nat /\ page.package.target \in Schemas
    BY <1>3, PackageAssumption
  <2>4. settings \in {"settings", "scrambled", "unparseable", "oversized"}
    BY <1>4
  <2> HIDE DEF slot
  <2>5. device'.settings = settings
    BY <1>8, <2>1, <2>2, <2>3, <2>4 DEF DeviceRecords, Onboarding!Snapshot
  <2>6. Lineage(device', d0)
    BY <1>3, <1>4, <1>7, <2>1, <2>2, <2>4, LineageGrows DEF Onboarding!Compatible
  <2>7. DeviceShape'
    <3>1. Lineage(device', d0) /\ Lineage(saved', d0) /\ Lineage(origin', d0)
      BY <1>1, <1>3, <1>7, <2>1, <2>6
    <3>2. saved'.settings = "settings" \/ device'.settings # "settings"
      BY <1>4, <2>1, <2>5
    <3>3. reloads' \in 0..ReloadLimit
      BY <1>1 DEF OnboardingInv, DeviceShape
    <3>4. QED
      BY <3>1, <3>2, <3>3 DEF DeviceShape
  <2>8. OnboardingFlags'
    <3>1. unverified' \in BOOLEAN
      BY <2>1, Zenon
    <3>2. saved' # Onboarding!None
      BY <1>8, <2>1
    <3>3. QED
      BY <1>9, <2>1, <3>1, <3>2, Zenon DEF OnboardingFlags
  <2>9. StepShape(onboardingPage)'
    <3>1. \E s \in Onboarding!SettingsStates :
            device' = Onboarding!Snapshot(page.package.version, TRUE, "compatible", page.package.target,
                                          Onboarding!Other(origin.slot), s, origin)
      BY <1>3, <2>1, <2>4 DEF Onboarding!SettingsStates, slot
    <3>2. saved' = origin'
      BY <1>1, <1>3, <2>1
    <3>3. QED
      <4>1. onboardingPage'.step \in {"rebooting", "rolling_back"}
        BY <1>2
      <4>2. Onboarding!Compatible(page.package, page.snapshot)
        BY <1>3, <1>4
      <4>3. QED
        BY <1>1, <1>2, <1>4, <3>1, <3>2, <4>1, <4>2 DEF StepShape
  <2>10. QED
    BY <1>2, <1>3, <1>6, <1>10, <2>7, <2>8, <2>9, NoResult DEF OnboardingInv
<1>12. CASE ~written
  <2>1. UNCHANGED <<device, saved, unverified>> /\ onboardingPage'.step = "rolling_back"
    BY <1>1, <1>2, <1>12 DEF Onboarding!Flash
  <2>2. DeviceShape'
    BY <1>1, <2>1, DeviceKept DEF DeviceStays
  <2>3. OnboardingFlags'
    BY <1>1, <1>9, <2>1, FlagsKept DEF DeviceStays
  <2>4. StepShape(onboardingPage)'
    BY <1>1, <1>2, <1>3, <1>4, <2>1 DEF StepShape
  <2>5. QED
    BY <1>2, <1>3, <1>6, <1>10, <2>2, <2>3, <2>4, NoResult DEF OnboardingInv
<1>13. QED
  BY <1>11, <1>12

\* A verification that matched ends the installation.
LEMMA InstallationSettles ==
  ASSUME OnboardingInv, NEW result \in {"ready", "rolled_back"}, Onboarding!Finish(result),
         onboardingPage.step \in LateSteps, UNCHANGED <<device, saved, rolled, backup, reloads, origin>>,
         unverified' \in BOOLEAN, unverified' => unverified, CopyAgrees,
         Onboarding!ReadyMeansInstalled', Onboarding!RolledBackMeansRestored'
  PROVE  OnboardingInv'
<1> DEFINE page == onboardingPage
<1>1. page \in PageRecords /\ PageShape(page) /\ page.state = "installing" /\ page.step # "none"
  BY DEF OnboardingInv, PageShape, LateSteps
<1>2. onboardingPage' = [page EXCEPT !.step = "none", !.result = result, !.state = "completed"] /\ plaintext' = FALSE
  BY DEF Onboarding!Finish, Onboarding!Settled
<1>3. /\ onboardingPage' \in PageRecords
      /\ onboardingPage'.step = "none" /\ onboardingPage'.result = result /\ onboardingPage'.state = "completed"
      /\ onboardingPage'.snapshot = page.snapshot /\ onboardingPage'.irreversible = page.irreversible
  BY <1>1, <1>2 DEF PageRecords, Onboarding!States, Onboarding!Steps, Onboarding!Results
<1>4. PageShape(onboardingPage)'
  BY <1>1, <1>3 DEF PageShape, EarlySteps, LateSteps
<1>5. StepShape(onboardingPage)'
  BY <1>3 DEF StepShape
<1>6. DeviceShape'
  BY DEF OnboardingInv, DeviceShape
<1>7. page.step # "downloading"
  BY DEF LateSteps
<1>8. backup = FALSE
  BY <1>7, Zenon DEF OnboardingInv, OnboardingFlags, Onboarding!BuffersWiped
<1>9. OnboardingFlags' /\ Onboarding!BuffersWiped'
  <2>1. ~plaintext' /\ plaintext' \in BOOLEAN /\ ~backup'
    BY <1>2, <1>8, Zenon
  <2>2. Onboarding!BuffersWiped'
    BY <2>1, Zenon DEF Onboarding!BuffersWiped
  <2>3. backup' \in BOOLEAN /\ rolled' \in BOOLEAN
    BY Zenon DEF OnboardingInv, OnboardingFlags
  <2>4. rolled' \/ unverified' => saved' # Onboarding!None
    BY Zenon DEF OnboardingInv, OnboardingFlags
  <2>5. CopyAgrees'
    BY DEF CopyAgrees
  <2>6. QED
    BY <2>1, <2>2, <2>3, <2>4, <2>5 DEF OnboardingFlags
<1>10. QED
  BY <1>3, <1>4, <1>5, <1>6, <1>9 DEF OnboardingInv

\* Ready is reported of what was written, and only with the settings that were found.
LEMMA InstallationVerified ==
  ASSUME OnboardingInv, NEW confirmed \in BOOLEAN, Onboarding!Verify(confirmed)
  PROVE  OnboardingInv'
<1> DEFINE page == onboardingPage
<1>1. /\ page \in PageRecords /\ PageShape(page) /\ StepShape(page) /\ page.step = "verifying" /\ page.step \in LateSteps
      /\ UNCHANGED <<device, saved, rolled, backup, reloads, origin>>
  BY DEF OnboardingInv, Onboarding!Verify, Onboarding!deviceVars, LateSteps
<1>2. CASE Onboarding!Finish("ready") /\ unverified' = FALSE /\ device.settings = page.expected
  <2>1. PICK s \in Onboarding!SettingsStates :
          device = Onboarding!Snapshot(page.package.version, TRUE, "compatible", page.package.target,
                                       Onboarding!Other(origin.slot), s, origin)
    BY <1>1 DEF StepShape
  <2>2. origin \in DeviceRecords /\ origin.settings = page.expected
    BY <1>1 DEF OnboardingInv, DeviceShape, Lineage, PageShape, StepShape
  <2>3. device.settings = s
    BY <2>1, <2>2 DEF DeviceRecords, Onboarding!Snapshot
  <2>4. s = origin.settings
    BY <1>2, <2>2, <2>3
  <2>5. onboardingPage'.package = page.package /\ onboardingPage'.result = "ready"
    BY <1>1, <1>2 DEF Onboarding!Finish, Onboarding!Settled, PageRecords
  <2>6. Onboarding!ReadyMeansInstalled'
    BY <1>1, <2>1, <2>4, <2>5, Zenon DEF Onboarding!ReadyMeansInstalled
  <2>7. Onboarding!RolledBackMeansRestored'
    BY <2>5 DEF Onboarding!RolledBackMeansRestored
  <2>8. unverified' \in BOOLEAN /\ ~unverified'
    BY <1>2, Zenon
  <2>9. CopyAgrees
    BY <1>1, <2>3, <2>4 DEF CopyAgrees, StepShape
  <2>10. QED
    BY <1>1, <1>2, <2>6, <2>7, <2>8, <2>9, InstallationSettles
<1>3. CASE onboardingPage' = [page EXCEPT !.step = "rolling_back"] /\ UNCHANGED <<plaintext, unverified>>
  <2>1. /\ SameSide(onboardingPage, onboardingPage') /\ onboardingPage'.expected = page.expected
        /\ onboardingPage'.step = "rolling_back"
    BY <1>1, <1>3 DEF SameSide, PageRecords, LateSteps, Onboarding!Steps
  <2>2. StepShape(onboardingPage)'
    BY <1>1, <2>1 DEF StepShape, SameSide
  <2>3. plaintext' \in BOOLEAN /\ backup' \in BOOLEAN
    BY <1>1, <1>3, Zenon DEF OnboardingInv, OnboardingFlags
  <2>4. Onboarding!BuffersWiped'
    BY <1>1, <2>1 DEF OnboardingInv, Onboarding!BuffersWiped
  <2>5. QED
    BY <1>1, <1>3, <2>1, <2>2, <2>3, <2>4, StepTaken DEF DeviceStays
<1>4. QED
  BY <1>2, <1>3 DEF Onboarding!Verify, Onboarding!Proven

\* A rollback puts the copy back, whichever installation took it.
LEMMA DeviceRolledBack ==
  ASSUME OnboardingInv, NEW acted \in BOOLEAN, NEW ok \in BOOLEAN, Onboarding!Rollback(acted, ok)
  PROVE  OnboardingInv'
<1> DEFINE page == onboardingPage
<1>1. /\ page \in PageRecords /\ PageShape(page) /\ StepShape(page) /\ page.step = "rolling_back"
      /\ (acted => saved # Onboarding!None)
      /\ UNCHANGED <<saved, backup, reloads, origin, unverified>>
  BY DEF OnboardingInv, Onboarding!Rollback, Onboarding!history
<1>2. IF acted THEN device' = saved /\ rolled' = TRUE ELSE UNCHANGED <<device, rolled>>
  BY DEF Onboarding!Rollback
<1>3. DeviceShape'
  <2>1. CASE acted
    <3>1. device' = saved /\ saved # Onboarding!None
      BY <1>1, <1>2, <2>1
    <3>2. QED
      BY <1>1, <3>1 DEF OnboardingInv, DeviceShape
  <2>2. CASE ~acted
    BY <1>1, <1>2, <2>2 DEF OnboardingInv, DeviceShape
  <2>3. QED
    BY <2>1, <2>2
<1>4. rolled' \in BOOLEAN /\ unverified' \in BOOLEAN /\ backup' \in BOOLEAN
  BY <1>1, <1>2, Zenon DEF OnboardingInv, OnboardingFlags
<1>5. rolled' \/ unverified' => saved' # Onboarding!None
  BY <1>1, <1>2, Zenon DEF OnboardingInv, OnboardingFlags
<1>5a. unverified' \/ CopyAgrees'
  BY <1>1, <1>2, Zenon DEF OnboardingInv, OnboardingFlags, CopyAgrees
<1>6. page.step # "downloading" /\ page.step # "none" /\ page.state = "installing" /\ page.irreversible
  BY <1>1 DEF PageShape, LateSteps
<1>7. ~backup'
  BY <1>1, <1>6, Zenon DEF OnboardingInv, Onboarding!BuffersWiped
<1>8. CASE onboardingPage' = [page EXCEPT !.step = "rebooting_back"] /\ plaintext' = plaintext
  <2>1. /\ SameSide(onboardingPage, onboardingPage') /\ onboardingPage'.expected = page.expected
        /\ onboardingPage'.step = "rebooting_back"
    BY <1>1, <1>8 DEF SameSide, PageRecords, LateSteps, Onboarding!Steps
  <2>2. StepShape(onboardingPage)'
    <3>1. ok
      <4>1. CASE Onboarding!Finish("failed")
        BY <1>1, <2>1, <4>1 DEF Onboarding!Finish, Onboarding!Settled, PageRecords
      <4>2. QED
        BY <4>1, Zenon DEF Onboarding!Rollback
    <3>2. device' = saved'
      BY <1>1, <1>2, <3>1 DEF Onboarding!Rollback
    <3>3. QED
      BY <1>1, <2>1, <3>2 DEF StepShape, SameSide
  <2>3. PageShape(onboardingPage)' /\ onboardingPage'.result \notin {"ready", "rolled_back"}
    BY <1>1, <1>6, <2>1 DEF PageShape, SameSide, EarlySteps, LateSteps
  <2>4. plaintext' \in BOOLEAN
    BY <1>8, Zenon DEF OnboardingInv, OnboardingFlags
  <2>5. OnboardingFlags'
    BY <1>4, <1>5, <1>5a, <2>4, Zenon DEF OnboardingFlags
  <2>6. Onboarding!BuffersWiped'
    BY <1>7, <2>1 DEF Onboarding!BuffersWiped
  <2>7. QED
    BY <1>3, <2>1, <2>2, <2>3, <2>5, <2>6, NoResult DEF OnboardingInv, SameSide
<1>9. CASE Onboarding!Finish("failed")
  <2>1. onboardingPage' = [page EXCEPT !.step = "none", !.result = "failed", !.state = "completed"] /\ plaintext' = FALSE
    BY <1>6, <1>9 DEF Onboarding!Finish, Onboarding!Settled
  <2>2. /\ onboardingPage' \in PageRecords
        /\ onboardingPage'.step = "none" /\ onboardingPage'.result = "failed" /\ onboardingPage'.state = "completed"
        /\ onboardingPage'.snapshot = page.snapshot /\ onboardingPage'.irreversible = page.irreversible
    BY <1>1, <2>1 DEF PageRecords, Onboarding!States, Onboarding!Steps, Onboarding!Results
  <2>3. PageShape(onboardingPage)'
    BY <1>1, <1>6, <2>2 DEF PageShape, EarlySteps, LateSteps
  <2>4. StepShape(onboardingPage)'
    BY <2>2 DEF StepShape
  <2>5. OnboardingFlags' /\ Onboarding!BuffersWiped'
    BY <1>4, <1>5, <1>7, <1>5a, <2>1, Zenon DEF OnboardingFlags, Onboarding!BuffersWiped
  <2>6. QED
    BY <1>3, <2>2, <2>3, <2>4, <2>5, NoResult DEF OnboardingInv
<1>10. QED
  BY <1>8, <1>9 DEF Onboarding!Rollback

\* Rolled back is reported only of the device that was found: an older copy shows itself in
\* its firmware, schema, slot or settings.
LEMMA RollbackVerified ==
  ASSUME OnboardingInv, NEW confirmed \in BOOLEAN, Onboarding!VerifyBack(confirmed)
  PROVE  OnboardingInv'
<1> DEFINE page == onboardingPage
<1>1. /\ page \in PageRecords /\ PageShape(page) /\ StepShape(page) /\ page.step = "verifying_back"
      /\ page.step \in LateSteps /\ page.step # "none" /\ page.step # "downloading"
      /\ UNCHANGED <<device, saved, rolled, backup, reloads, origin>>
  BY DEF OnboardingInv, Onboarding!VerifyBack, Onboarding!deviceVars, LateSteps
<1>2. CASE /\ Onboarding!Finish("rolled_back") /\ unverified' = FALSE
           /\ Onboarding!Matches(page.snapshot.version, page.snapshot.reference, page.snapshot.schema, page.snapshot.slot)
           /\ device.settings = page.expected
  <2>1. origin # Onboarding!None /\ origin = page.snapshot /\ origin.settings = page.expected
    BY <1>1 DEF PageShape, StepShape
  <2>2. device = origin
    <3>1. PICK d0 \in Devices : Lineage(device, d0) /\ Lineage(origin, d0)
      BY <2>1 DEF OnboardingInv, DeviceShape
    <3>2. /\ device.version = origin.version /\ device.schema = origin.schema /\ device.slot = origin.slot
          /\ device.settings = origin.settings
      BY <1>2, <2>1 DEF Onboarding!Matches
    <3>3. QED
      BY <3>1, <3>2, LineageAgrees
  <2>3. onboardingPage'.result = "rolled_back"
    BY <1>1, <1>2 DEF Onboarding!Finish, Onboarding!Settled, PageRecords
  <2>4. Onboarding!ReadyMeansInstalled' /\ Onboarding!RolledBackMeansRestored'
    BY <1>1, <2>2, <2>3 DEF Onboarding!ReadyMeansInstalled, Onboarding!RolledBackMeansRestored
  <2>5. unverified' \in BOOLEAN /\ ~unverified'
    BY <1>2, Zenon
  <2>6. CopyAgrees
    BY <1>1 DEF CopyAgrees, StepShape
  <2>7. QED
    BY <1>1, <1>2, <2>4, <2>5, <2>6, InstallationSettles
<1>3. CASE Onboarding!Finish("failed") /\ UNCHANGED unverified
  <2>1. backup' \in BOOLEAN /\ ~backup'
    BY <1>1, Zenon DEF OnboardingInv, OnboardingFlags, Onboarding!BuffersWiped
  <2>2. QED
    BY <1>1, <1>3, <2>1, InstallationStops DEF DeviceStays
<1>4. QED
  BY <1>2, <1>3 DEF Onboarding!VerifyBack, Onboarding!Proven

\* A step that overwrites the last whole copy of the settings is a flash over a write that
\* was never verified and that lost the settings of the running slot.
LEMMA CopyLostByReflash ==
  ASSUME OnboardingInv, Onboarding!Next, Onboarding!Recoverable, ~Onboarding!Recoverable'
  PROVE  onboardingPage.step = "flashing" /\ unverified /\ device.settings # "settings"
<1>1. ~(UNCHANGED <<device, saved>>)
  BY DEF Onboarding!Recoverable
<1>2. ASSUME NEW acted \in BOOLEAN, NEW ok \in BOOLEAN, Onboarding!Rollback(acted, ok)
      PROVE  FALSE
  BY <1>1, <1>2 DEF Onboarding!Rollback, Onboarding!Recoverable, OnboardingInv, DeviceShape
<1>3. PICK written \in BOOLEAN, ok \in BOOLEAN, settings \in {onboardingPage.expected, "scrambled"} :
        Onboarding!Flash(written, settings, ok)
  BY <1>1, <1>2 DEF Onboarding!Next, Onboarding!Connect, Onboarding!Inspected, Onboarding!ConnectFails, Onboarding!Install,
     Onboarding!AdmitPackage, Onboarding!Encrypt, Onboarding!StopEarly, Onboarding!VerifyRefused, Onboarding!Reload,
     Onboarding!ReadSettings, Onboarding!Download, Onboarding!Reboot, Onboarding!Verify, Onboarding!RebootBack,
     Onboarding!VerifyBack, Onboarding!deviceVars
<1>4. onboardingPage.step = "flashing" /\ saved' = device
  BY <1>1, <1>3 DEF Onboarding!Flash, Onboarding!Saves
<1>5. device # Onboarding!None
  BY DevicesExist DEF OnboardingInv, DeviceShape, Lineage
<1>6. device.settings # "settings"
  BY <1>4, <1>5 DEF Onboarding!Recoverable
<1>7. ~CopyAgrees
  BY <1>6 DEF CopyAgrees, Onboarding!Recoverable
<1>8. unverified
  BY <1>7 DEF OnboardingInv, OnboardingFlags
<1>9. QED
  BY <1>4, <1>6, <1>8

\* An installation that ends ready has installed the admitted package with the settings it
\* found, one that ends rolled back has restored the device, the last whole copy of the
\* settings is overwritten only by a second flash of a device never verified after the
\* first, over every reload of the page, no other firmware runs and no plaintext stays,
\* whichever calls fail, for every device and every set of packages.
THEOREM OnboardingSoundness == WorkerSpec => OnboardingSound
<1> DEFINE Safe == /\ Onboarding!TypeOK /\ Onboarding!ReadyMeansInstalled /\ Onboarding!RolledBackMeansRestored
                   /\ Onboarding!OnlyAdmittedFirmware /\ Onboarding!BuffersWiped
           Kept == Onboarding!Recoverable => \/ Onboarding!Recoverable'
                                             \/ onboardingPage.step = "flashing" /\ unverified /\ device.settings # "settings"
<1>1. WorkerInit => OnboardingInv
  BY OnboardingStarts DEF WorkerInit
<1>2. ASSUME OnboardingInv, [WorkerNext]_allVars
      PROVE  OnboardingInv'
  <2>1. CASE UNCHANGED onboardingVars
    <3> USE <1>2, <2>1 DEF onboardingVars, OnboardingInv
    <3>1. (onboardingPage \in PageRecords)' /\ DeviceShape' /\ OnboardingFlags'
      BY DEF DeviceShape, OnboardingFlags, CopyAgrees
    <3>2. PageShape(onboardingPage)' /\ StepShape(onboardingPage)'
      BY DEF PageShape, StepShape
    <3>3. Onboarding!ReadyMeansInstalled' /\ Onboarding!RolledBackMeansRestored' /\ Onboarding!BuffersWiped'
      BY DEF Onboarding!ReadyMeansInstalled, Onboarding!RolledBackMeansRestored, Onboarding!BuffersWiped
    <3>4. QED
      BY <3>1, <3>2, <3>3
  <2>2. CASE Onboarding!Next
    BY <1>2, <2>2, PageConnects, PackageAdmitted, SettingsRead, BackupTaken, StoppedEarly, RebootedOrRefused,
       InstallationBegins, PageReloaded, FirmwareWritten, InstallationVerified, DeviceRolledBack, RollbackVerified
       DEF Onboarding!Next
  <2>3. QED
    BY <1>2, <2>1, <2>2 DEF WorkerNext, allVars
<1>3. OnboardingInv => Safe
  <2> SUFFICES ASSUME OnboardingInv PROVE Safe
    OBVIOUS
  <2>1. PICK d0 \in Devices : Lineage(device, d0)
    BY DEF OnboardingInv, DeviceShape
  <2>2. Onboarding!OnlyAdmittedFirmware
    BY <2>1, Zenon DEF Lineage, Onboarding!OnlyAdmittedFirmware
  <2>3. /\ device.slot \in Onboarding!Partitions /\ device.schema \in Schemas
        /\ device.settings \in Onboarding!SettingsStates
    BY <2>1 DEF Lineage, DeviceRecords, Onboarding!Partitions, Onboarding!SettingsStates
  <2>4. /\ onboardingPage.state \in Onboarding!States /\ onboardingPage.step \in Onboarding!Steps
        /\ onboardingPage.result \in Onboarding!Results
        /\ (onboardingPage.state = "installing") = (onboardingPage.step # "none")
    BY DEF OnboardingInv, PageRecords, PageShape
  <2>5. reloads \in 0..ReloadLimit
    BY DEF OnboardingInv, DeviceShape
  <2>6. Onboarding!TypeOK
    BY <2>3, <2>4, <2>5, Zenon DEF OnboardingInv, OnboardingFlags, Onboarding!TypeOK
  <2>7. QED
    BY <2>2, <2>6 DEF OnboardingInv
<1>4. ASSUME OnboardingInv, [WorkerNext]_allVars
      PROVE  [Kept]_Onboarding!vars
  <2>1. CASE UNCHANGED onboardingVars
    BY <2>1 DEF onboardingVars, Onboarding!vars, Onboarding!deviceVars, Onboarding!bufferVars, Onboarding!history
  <2>2. CASE Onboarding!Next
    BY <1>4, <2>2, CopyLostByReflash
  <2>3. QED
    BY <1>4, <2>1, <2>2 DEF WorkerNext, allVars
<1>5. QED
  BY <1>1, <1>2, <1>3, <1>4, PTL DEF WorkerSpec, OnboardingSound, Onboarding!LastCopyKept
=============================================================================
