---------------------------- MODULE MCWorkerSide ----------------------------
(***************************************************************************)
(* What surrounds the Worker, its parts side by side on small instances:   *)
(* the admission of signed leases, the continuity store of the tabs, the   *)
(* local Worker authority, the onboarding of a device and the restoration  *)
(* page.  Each behaviour moves one of them, named by part, and leaves the  *)
(* others in a first state.                                                *)
(***************************************************************************)
EXTENDS WorkerAdmission, FiniteSets, TLC

CONSTANT SignatureLimit  \* authorizations the Authority writes
CONSTANTS Tabs, w1, w2, challenge, AdmissionLimit, StoreClock
CONSTANTS Procs, Nobody, MaxKeys, LastSequence
CONSTANTS Devices, Packages, Schemas, ReloadLimit

VARIABLES
  part,
  stored, continuityNow, tabs, admissions, proofs, eras,
  made, update, lease, sequence, trust, authorityJournal, lock, procs, issued,
  device, saved, rolled, onboardingPage, plaintext, backup, reloads, origin, unverified,
  worker, ctl, restorationPage, op, restorationJournal, stimulated

\* Two Workers of one build, and scopes of one challenge that differ in their retention.
OneBuild == w1 :> "b1" @@ w2 :> "b1"
Scopes == {[challenge |-> challenge, expiry |-> 2], [challenge |-> challenge, expiry |-> 3]}

\* Devices in every state that admission tells apart.
EveryDevice ==
  [version : {0}, reference : BOOLEAN, preservation : {"compatible", "upgrade_required", "unsupported"},
   schema : {1, 3}, readable : BOOLEAN, slotBytes : {2}, rollbackAvailable : BOOLEAN, slot : {"ota_0"},
   bootable : BOOLEAN, board : {"b1", "b2"}, settings : {"settings", "unparseable", "oversized"}]

\* A package, and others of which each fails one check or changes the schema.
OnePackage ==
  [version |-> 1, signed |-> TRUE, digestMatches |-> TRUE, boards |-> {"b1"}, minimumSlot |-> 2,
   minimumReadable |-> 1, maximumReadable |-> 2, target |-> 2]
SixPackages ==
  {OnePackage, [OnePackage EXCEPT !.version = 2, !.target = 1], [OnePackage EXCEPT !.version = 3, !.signed = FALSE],
   [OnePackage EXCEPT !.version = 4, !.digestMatches = FALSE], [OnePackage EXCEPT !.version = 5, !.minimumSlot = 3],
   [OnePackage EXCEPT !.version = 6, !.target = 3]}

Continuity == INSTANCE WorkerContinuity WITH Workers <- {w1, w2}, Challenges <- {challenge}, FirmwareOf <- OneBuild,
  MaybeExpectedBuild <- "unspecified", ClockLimit <- StoreClock, now <- continuityNow
Authority == INSTANCE DevelopmentAuthority WITH MaxSequence <- LastSequence, Alone <- TRUE, journal <- authorityJournal
Onboarding == INSTANCE BitaxeOnboarding WITH page <- onboardingPage
Restoration == INSTANCE RestorationPage WITH page <- restorationPage, journal <- restorationJournal

\* A device is found with the firmware it came with, and in one of its two slots.
ASSUME DeviceAssumption ==
  Devices \subseteq
    [version : {0}, reference : BOOLEAN, preservation : {"compatible", "upgrade_required", "unsupported"},
     schema : Schemas, readable : BOOLEAN, slotBytes : Nat, rollbackAvailable : BOOLEAN, slot : {"ota_0", "ota_1"},
     bootable : BOOLEAN, board : STRING, settings : {"settings", "scrambled", "unparseable", "oversized"}]

\* A package has a version of its own.
ASSUME PackageAssumption ==
  Packages \subseteq
    [version : Nat \ {0}, signed : BOOLEAN, digestMatches : BOOLEAN, boards : SUBSET STRING, minimumSlot : Nat,
     minimumReadable : Nat, maximumReadable : Nat, target : Schemas]

ASSUME ReloadAssumption == ReloadLimit \in Nat

continuityVars == <<stored, continuityNow, tabs, admissions, proofs, eras>>
localVars == <<made, update, lease, sequence, trust, authorityJournal, lock, procs, issued>>
onboardingVars == <<device, saved, rolled, onboardingPage, plaintext, backup, reloads, origin, unverified>>
restorationVars == <<worker, ctl, restorationPage, op, restorationJournal, stimulated>>
allVars == <<part, vars, continuityVars, localVars, onboardingVars, restorationVars>>

WorkerInit ==
  /\ part \in {"admission", "continuity", "authority", "onboarding", "restoration"}
  /\ Init /\ (part # "admission" => trusted = Keys)
  /\ Continuity!Init /\ (part # "continuity" => \A c \in DOMAIN stored : stored[c] = Continuity!Absent)
  /\ Authority!Init /\ (part # "authority" => made = 0)
  /\ IF part = "onboarding" THEN device \in Devices ELSE device = CHOOSE d \in Devices : TRUE
  /\ Onboarding!Init
  /\ Restoration!Init

Moves(p) == part = p /\ UNCHANGED part

WorkerNext ==
  \/ Moves("admission") /\ Next /\ Cardinality(signed') <= SignatureLimit /\ UNCHANGED <<continuityVars, localVars, onboardingVars, restorationVars>>
  \/ Moves("continuity") /\ Continuity!Next /\ UNCHANGED <<vars, localVars, onboardingVars, restorationVars>>
  \/ Moves("authority") /\ Authority!Next /\ UNCHANGED <<vars, continuityVars, onboardingVars, restorationVars>>
  \/ Moves("onboarding") /\ Onboarding!Next /\ UNCHANGED <<vars, continuityVars, localVars, restorationVars>>
  \/ Moves("restoration") /\ Restoration!Next /\ UNCHANGED <<vars, continuityVars, localVars, onboardingVars>>

WorkerSpec == WorkerInit /\ [][WorkerNext]_allVars

MCSymmetry == Permutations(Procs) \cup Permutations(Keys)

-----------------------------------------------------------------------------
\* Properties.

\* createWorkerContinuityAccess (worker-continuity-store.ts, worker-possession.ts): all tabs
\* agree on the Worker of a challenge, a tab admits the Worker it is connected to, a restored
\* admission meets the fingerprint it expected, and no record is lost before it expired.
ContinuitySound ==
  /\ [](Continuity!TypeOK /\ Continuity!OneWorkerPerChallenge)
  /\ [](Continuity!AdmittedIsConnected /\ Continuity!RecoveredIsExpected)
  /\ Continuity!RecordsAreKept

\* The commands of worker-development-authority.ts, killed or failed between any two file
\* operations while at most one of them finds a dead process's lock: no sequence is signed
\* twice, a command works from the last committed state, what is signed is trusted, sequences
\* never fall, and a key leaves only by retirement.
AuthoritySound ==
  /\ [](Authority!TypeOK /\ Authority!NoSequenceReused /\ Authority!OperationSeesCommittedState)
  /\ Authority!SignedIsTrusted
  /\ Authority!SequencesNeverRegress
  /\ Authority!KeysLeaveByRetirement

\* createBitaxeOnboarding (bitaxe-onboarding.ts): an installation that ends ready has put the
\* verified firmware beside the settings it found, one that ends rolled back has left the
\* device as it was, the last whole copy of the settings is overwritten only by a second
\* flash of a device that was never verified after the first, over every reload of the page,
\* only admitted firmware runs, and plaintext settings do not outlive the installation.
OnboardingSound ==
  /\ [](Onboarding!TypeOK /\ Onboarding!ReadyMeansInstalled /\ Onboarding!RolledBackMeansRestored)
  /\ [](Onboarding!OnlyAdmittedFirmware /\ Onboarding!BuffersWiped)
  /\ Onboarding!LastCopyKept

\* RestorationSession (worker-restoration-operations.ts): between operations a connected page
\* and its controller agree on the lease, a loss is shown by the page unless the continuation
\* of a connect or a start overtakes it, the journal tells the page's lease, the page's own
\* stop is not taken for the device's, a stimulated lease is not renewed, and an ending the
\* page has seen is not overwritten.
RestorationSound ==
  /\ [](Restoration!TypeOK /\ Restoration!FlagsAgree)
  /\ [](Restoration!JournalTellsLease /\ Restoration!OwnStopIsNotDevice)
  /\ Restoration!LossIsShownUnlessOvertaken
  /\ Restoration!StimulatedNotRenewed
  /\ Restoration!SeenEndingIsKept
=============================================================================
