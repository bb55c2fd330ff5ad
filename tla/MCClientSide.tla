---------------------------- MODULE MCClientSide ----------------------------
(***************************************************************************)
(* The page a Claimant sees, its parts side by side on small instances:    *)
(* the headless client, the stored Claimant key, the Work Gate element and *)
(* the trusted confirmation.  Each behaviour moves one of them, named by   *)
(* part, and leaves the others in a first state.  Three of them are        *)
(* checked under more than one set of assumptions:                         *)
(*   "key"      two handles of the key, any clients, artifact events;      *)
(*   "store"    one handle, one client and no artifact events;             *)
(*   "element"  mounts that share a client, with onboarding;               *)
(*   "consent"  one mount for a client, and a user who presses once;       *)
(*   "removal"  no onboarding, and a user who goes on after a Cancel;      *)
(*   "ceremony" two confirmation requests;                                 *)
(*   "strays"   one request, and a message of another window.              *)
(***************************************************************************)
EXTENDS Integers, Sequences

CONSTANTS LeaseLimit, CallLimit, FailureLimit, CancelLimit
CONSTANTS Handles, k1, k2, r1, r2, Lone, None, Window, MaxTime, MaxPending
CONSTANTS Clients, c1, ViewLimit, OpLimit, GateCancels
CONSTANTS Tabs, Elevated, Whole, RequestLimit

VARIABLES
  part,
  clientChallenge, control, receipt, generation, binding, stored, calls, listening, connected, aState, aSession,
  aLease, events, lease, fresh, failures,
  now, disk, mem, queue, commits, taken, ended,
  mounted, views, clients, ops,
  requests, windows, opened, messages, strays, ceremonies, consentChallenge, replaced

Offer(service) == [id |-> "offer", destination |-> Whole - 1, pool |-> 1, service |-> service]
OfferSet(offers, signed) ==
  [key |-> "trusted", bound |-> TRUE, confirm |-> TRUE, literal |-> TRUE, offers |-> offers, signed |-> signed]
Good == OfferSet({Offer(0)}, {Offer(0)})

\* The set the Authority signed, and one each that fails a check of the surface.
OfferSets ==
  {Good, [Good EXCEPT !.key = "unknown"], [Good EXCEPT !.bound = FALSE], [Good EXCEPT !.confirm = FALSE],
   [Good EXCEPT !.literal = FALSE],
   OfferSet({Offer(0), Offer(1)}, {Offer(0), Offer(1)}), OfferSet({Offer(0)}, {Offer(1)})}

Client == INSTANCE HeadlessClient WITH challenge <- clientChallenge
Key == INSTANCE ClaimantKey WITH Challenges <- {k1, k2}, Receipts <- {r1}, ArtifactEvents <- TRUE, OneClient <- FALSE
Store == INSTANCE ClaimantKey WITH Handles <- {Lone}, Challenges <- {k1, k2}, Receipts <- {r1, r2},
  ArtifactEvents <- FALSE, OneClient <- TRUE, MaxPending <- 3, Window <- 2, MaxTime <- 3
Element == INSTANCE WorkGate WITH Trusted <- {c1}, Shared <- TRUE, Onboarding <- TRUE, Patient <- TRUE, CancelLimit <- GateCancels
Consent == INSTANCE WorkGate WITH Trusted <- {c1}, Shared <- FALSE, Onboarding <- TRUE, Patient <- TRUE, CancelLimit <- GateCancels
Removal == INSTANCE WorkGate WITH Clients <- {c1}, Trusted <- {c1}, Shared <- FALSE, Onboarding <- FALSE, Patient <- FALSE,
  CancelLimit <- GateCancels
Ceremony == INSTANCE TrustedConsent WITH StrayLimit <- 0, challenge <- consentChallenge
Strays == INSTANCE TrustedConsent WITH RequestLimit <- 1, StrayLimit <- 1, challenge <- consentChallenge

clientVars ==
  <<clientChallenge, control, receipt, generation, binding, stored, calls, listening, connected, aState, aSession,
    aLease, events, lease, fresh, failures>>
keyVars == <<now, disk, mem, queue, commits, taken, ended>>
gateVars == <<mounted, views, clients, ops>>
ceremonyVars == <<requests, windows, opened, messages, strays, ceremonies, consentChallenge, replaced>>
vars == <<part, clientVars, keyVars, gateVars, ceremonyVars>>

GateParts == {"element", "consent", "removal"}

\* A part that does not move is in the state of a page that was opened for a new challenge.
Init ==
  /\ part \in {"client", "key", "store", "ceremony", "strays"} \cup GateParts
  /\ Client!Init /\ (part # "client" => clientChallenge = "issued" /\ ~stored)
  /\ IF part = "key" THEN Key!Init ELSE Store!Init
  /\ IF part = "removal" THEN Removal!Init ELSE Element!Init
  /\ part \notin GateParts => \A c \in Clients : clients[c].state = "awaiting"
  /\ IF part = "strays" THEN Strays!Init ELSE Ceremony!Init

Moves(p) == part = p /\ UNCHANGED part

Next ==
  \/ Moves("client") /\ Client!Next /\ UNCHANGED <<keyVars, gateVars, ceremonyVars>>
  \/ Moves("key") /\ Key!Next /\ UNCHANGED <<clientVars, gateVars, ceremonyVars>>
  \/ Moves("store") /\ Store!Next /\ UNCHANGED <<clientVars, gateVars, ceremonyVars>>
  \/ Moves("element") /\ Element!Next /\ UNCHANGED <<clientVars, keyVars, ceremonyVars>>
  \/ Moves("consent") /\ Consent!Next /\ UNCHANGED <<clientVars, keyVars, ceremonyVars>>
  \/ Moves("removal") /\ Removal!Next /\ UNCHANGED <<clientVars, keyVars, ceremonyVars>>
  \/ Moves("ceremony") /\ Ceremony!Next /\ UNCHANGED <<clientVars, keyVars, gateVars>>
  \/ Moves("strays") /\ Strays!Next /\ UNCHANGED <<clientVars, keyVars, gateVars>>

Spec == Init /\ [][Next]_vars

-----------------------------------------------------------------------------
\* Properties.

\* createHeadlessClient (headless-client.ts): a stored consent was granted, nothing is leased
\* and the Worker does not mine before consent, and a challenge the client showed as ended
\* is shown as open again only by a consent that was asked for while its Cancel was pending,
\* wherever overlapping calls, Authority events, losses and a Cancel cut each other.
ClientSound ==
  /\ [](Client!TypeOK /\ Client!DurableMeansGranted /\ Client!NoWorkBeforeConsent)
  /\ Client!OnlyLateGrantRevives

\* PreparedClaimantIdentity (headless-key.ts): stored and held records are coherent, and a
\* handle's key serves one challenge and is not extended after it expired, with any handles
\* and clients.  With one handle, one client and no artifact events, the store follows the
\* handle once its calls have settled, recorded consents do not contradict each other, and a
\* key that was deleted as expired is not used again; several handles overwrite each other's
\* records and keep none of the three.
KeySound ==
  /\ [](part = "key" => Key!TypeOK /\ Key!RecordsCoherent)
  /\ [](part = "store" => Store!TypeOK /\ Store!RecordsCoherent /\ Store!StoreFollows)
  /\ [](part = "store" => Store!OneConsent /\ Store!EndedIsUnusable)
  /\ [][part = "key" => Key!OneLifeStep]_keyVars

\* createWorkGateView (bwg-work-gate.ts), with clients shared by mounts and replaced by
\* onboarding: the view shows its client's state, the redemption of a pass it shows was asked
\* for, and consent is given for the terms on display and never used after it was aborted.
\* With one mount for a client, a consent acted on is stored.  Without onboarding as well, a
\* removed view keeps neither a listener nor an open session, a pass is redeemed at most once
\* and an ended challenge does not reopen; onboarding, which may finish after the removal and
\* may load the same client again, keeps neither of the first two.
GateSound ==
  /\ [](part = "element" => Element!TypeOK /\ Element!ShownIsCurrent /\ Element!IssuedIsRedeemed /\ Element!ConsentIsForShownTerms)
  /\ [](part = "consent" => Consent!GrantedIsDurable)
  /\ [](part = "removal" => Removal!RemovedLeavesNothing /\ Removal!RedeemedOnce)
  /\ [][part = "element" => Element!NoLateConsentStep]_gateVars
  /\ [][part = "removal" => Removal!NoRegressionStep]_gateVars

\* requestTrustedConsentWithPopup, the trusted surface and the Authority's ceremony record
\* (trusted-consent-popup.ts, trusted-consent-surface.ts, trusted_consent.rs): a request is
\* resolved only by its own popup, a grant rests on a verified receipt, the user touches the
\* key only for signed terms, no popup outlives its request, a ceremony is verified only
\* while its challenge is open, and a decision stands.
ConsentSound ==
  /\ [](part = "ceremony" => Ceremony!TypeOK /\ Ceremony!ResolvedIsOwn /\ Ceremony!GrantedIsVerified)
  /\ [](part = "ceremony" => Ceremony!TouchIsForSignedTerms /\ Ceremony!NoAbandonedSurface)
  /\ [](part = "strays" => Strays!ResolvedIsOwn /\ Strays!GrantedIsVerified /\ Strays!NoAbandonedSurface)
  /\ Ceremony!VerifiedWhileOpen
  /\ Ceremony!DecisionsStand
=============================================================================
