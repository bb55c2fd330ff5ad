--------------------------- MODULE TrustedConsent ---------------------------
(***************************************************************************)
(* The trusted confirmation of one Work Challenge.  A page opens the       *)
(* Authority's surface in a popup that tabs reuse by name and waits for    *)
(* its message; the surface checks the signed terms, asks for a WebAuthn   *)
(* touch and drives a ceremony at the Authority, whose steps lease their   *)
(* record.  Pages, popups, messages and deadlines interleave.              *)
(***************************************************************************)
EXTENDS Naturals, FiniteSets, FiniteSetsExt

CONSTANTS
  Tabs,
  Elevated,      \* the Action Policy requires the confirmation of the challenge's own offers
  Whole,         \* all basis points of a reward
  OfferSets,     \* the signed Pool Offer sets a surface may load
  RequestLimit, StrayLimit  \* bounds of the instance

VARIABLES
  requests,    \* one for each requestTrustedConsentWithPopup; its index is the random state
  windows,     \* the popup of each tab, with the surface in it
  opened,      \* popups opened so far
  messages, strays,
  ceremonies,  \* trusted_consent_ceremonies, one row for each binding
  challenge, replaced

browserVars == <<requests, windows, opened, messages, strays>>
authorityVars == <<ceremonies, challenge, replaced>>
vars == <<browserVars, authorityVars>>

Requests == 1..RequestLimit

\* The binding of a request: the challenge's own offers (elevated_work) or their replacement (material_pool_terms).
Terms == {"challenge", "replacement"}
Error == "error"

NoRequest == [status |-> "idle", tab |-> "none", terms |-> "none", popup |-> 0, receipt |-> "none"]
NoOffers == [key |-> "none", bound |-> FALSE, confirm |-> FALSE, literal |-> FALSE, offers |-> {}, signed |-> {}]
Closed == [id |-> 0, page |-> 0, pc |-> "none", offers |-> NoOffers]
NoCeremony == [status |-> "none", owner |-> 0, late |-> FALSE]

Init ==
  /\ requests = [r \in Requests |-> NoRequest] /\ windows = [t \in Tabs |-> Closed] /\ opened = 0
  /\ messages = {} /\ strays = 0
  /\ ceremonies = [b \in Terms |-> NoCeremony]
  /\ challenge = "issued" /\ replaced = FALSE

-----------------------------------------------------------------------------
\* The page that asks.

\* window.open navigates the popup of that name, or opens a new one.
Open(r, t, b) ==
  /\ requests[r].status = "idle" /\ \A q \in Requests : q < r => requests[q].status # "idle"
  /\ LET id == IF windows[t].id # 0 THEN windows[t].id ELSE opened + 1 IN
     /\ windows' = [windows EXCEPT ![t] = [id |-> id, page |-> r, pc |-> "load", offers |-> NoOffers]]
     /\ opened' = IF id > opened THEN id ELSE opened
     /\ requests' = [requests EXCEPT ![r] = [NoRequest EXCEPT !.status = "waiting", !.tab = t, !.terms = b, !.popup = id]]
  /\ UNCHANGED <<messages, strays, authorityVars>>

\* A launcher of the integrator stands for the popup: its answer is any text, a receipt of the Authority included.
Launch(r, t, b) ==
  /\ requests[r].status = "idle" /\ \A q \in Requests : q < r => requests[q].status # "idle"
  /\ requests' = [requests EXCEPT ![r] = [NoRequest EXCEPT !.status = "waiting", !.tab = t, !.terms = b]]
  /\ UNCHANGED <<windows, opened, messages, strays, authorityVars>>

Launched(r, body) ==
  /\ requests[r].status = "waiting" /\ requests[r].popup = 0
  /\ body \in Terms => ceremonies[body].status = "verified"
  /\ requests' = [requests EXCEPT ![r].status = "resolved", ![r].receipt = body]
  /\ UNCHANGED <<windows, opened, messages, strays, authorityVars>>

Blocked(r) ==
  /\ requests[r].status = "idle" /\ \A q \in Requests : q < r => requests[q].status # "idle"
  /\ requests' = [requests EXCEPT ![r].status = "rejected"]
  /\ UNCHANGED <<windows, opened, messages, strays, authorityVars>>

\* Fault: a settled request leaves its popup open.
KeepPopup(r) == windows

\* maybePopup.close() closes what the window shows by now.
ClosePopup(r) == [t \in Tabs |-> IF windows[t].id = requests[r].popup THEN Closed ELSE windows[t]]

\* fail and succeed settle the promise once and clean up.
Settle(r, status, receipt) ==
  /\ requests[r].status = "waiting"
  /\ requests' = [requests EXCEPT ![r].status = status, ![r].receipt = receipt]
  /\ windows' = ClosePopup(r)

PopupGone(r) == requests[r].popup # 0 /\ \A t \in Tabs : windows[t].id # requests[r].popup

\* Abort signal, closed poll, and the timeout.
GiveUp(r) == Settle(r, "rejected", Error) /\ UNCHANGED <<opened, messages, strays, authorityVars>>
AbortRequest(r) == GiveUp(r)
ClosedPoll(r) == PopupGone(r) /\ GiveUp(r)
Timeout(r) == requests[r].popup # 0 /\ GiveUp(r)

\* Fault: any message of the popup answers the request.
MatchesWindow(r, m) == requests[r].popup # 0 /\ m.tab = requests[r].tab /\ m.source = requests[r].popup

\* receive: exact origin and source window, and the state of this request.
Matches(r, m) == requests[r].popup # 0 /\ m.tab = requests[r].tab /\ m.source = requests[r].popup /\ m.state = r

Receive(m) ==
  /\ m \in messages
  /\ messages' = messages \ {m}
  /\ LET own == {r \in Requests : requests[r].status = "waiting" /\ Matches(r, m)} IN
     IF own = {} THEN UNCHANGED <<requests, windows>>
     ELSE LET r == CHOOSE q \in own : TRUE IN Settle(r, IF m.body = Error THEN "rejected" ELSE "resolved", m.body)
  /\ UNCHANGED <<opened, strays, authorityVars>>

\* Fault: a receipt of the Authority is enough, whatever it confirms.
VerifyAnyReceipt(r) == requests[r].receipt \in Terms

\* verifyTrustedConsentReceipt: signed by a trusted key, for exactly the request, with every
\* assurance of the touch, and not past the end of the challenge.
VerifyTrustedConsentReceipt(r) == requests[r].receipt = requests[r].terms /\ challenge # "expired"

\* grantConsent verifies the receipt before anything is recorded.
Grant(r) ==
  /\ requests[r].status = "resolved"
  /\ requests' = [requests EXCEPT ![r].status = IF VerifyTrustedConsentReceipt(r) THEN "granted" ELSE "rejected"]
  /\ UNCHANGED <<windows, opened, messages, strays, authorityVars>>

\* Another window posts what looks like a result.
Stray(t, r, b) ==
  /\ strays < StrayLimit /\ strays' = strays + 1
  /\ messages' = messages \cup {[tab |-> t, source |-> 0, state |-> r, body |-> b]}
  /\ UNCHANGED <<requests, windows, opened, authorityVars>>

UserCloses(t) ==
  /\ windows[t].id # 0 /\ windows' = [windows EXCEPT ![t] = Closed]
  /\ UNCHANGED <<requests, opened, messages, strays, authorityVars>>

-----------------------------------------------------------------------------
\* The surface in the popup, whose page is of request windows[t].page.

Binding(t) == requests[windows[t].page].terms
At(t, pc) == windows[t].pc = pc
Goto(t, pc) == windows' = [windows EXCEPT ![t].pc = pc]

Post(t, body) ==
  /\ messages' = messages \cup {[tab |-> t, source |-> windows[t].id, state |-> windows[t].page, body |-> body]}
  /\ Goto(t, "posted")

\* Reward shares and the identities of the offers (validatePoolOffer).
ValidOffers(offers) ==
  /\ offers # {} /\ Cardinality({o.id : o \in offers}) = Cardinality(offers)
  /\ \A o \in offers : o.destination + o.pool + o.service = Whole

\* signedOffers: the literal terms of every offer are the ones this client knows how to show.
SignedOffers(set) == set.literal

\* Fault: the offers on the page are not compared with the signed ones.
VerifyUnsigned(set) == set.key = "trusted" /\ set.bound /\ (Elevated => set.confirm) /\ ValidOffers(set.offers)

\* verifyPoolOfferSet: an Authority key, this challenge, and the visible offers are the signed ones.
VerifyPoolOfferSet(set) ==
  /\ set.key = "trusted" /\ set.bound /\ (Elevated => set.confirm)
  /\ set.offers = set.signed /\ ValidOffers(set.offers)

\* The terms of the surface are those of the opener's request.
TermsMatch(t) == IF Binding(t) = "replacement" THEN replaced ELSE Elevated

Load(t, set) ==
  /\ At(t, "load")
  /\ IF SignedOffers(set) /\ VerifyPoolOfferSet(set) /\ set.confirm /\ TermsMatch(t)
     THEN windows' = [windows EXCEPT ![t].pc = "begin", ![t].offers = set] /\ UNCHANGED messages
     ELSE Post(t, Error)
  /\ UNCHANGED <<requests, opened, strays, authorityVars>>

Over == {"ended", "expired"}
Accepts(b) == challenge = "issued" \/ (b = "replacement" /\ challenge = "active")

\* retire_expired runs at the start of every request of a ceremony.
Retired(row) ==
  CASE row.late /\ row.status = "starting" -> NoCeremony
    [] row.late /\ row.status \in {"pending", "verifying"} -> [NoCeremony EXCEPT !.status = "failed"]
    [] OTHER -> row

SetRow(b, row) == ceremonies' = [ceremonies EXCEPT ![b] = row]

\* begin_trusted_consent: reserve the row, join one that waits for its touch, or refuse.
Begin(t) ==
  LET b == Binding(t) row == Retired(ceremonies[b]) IN
  /\ At(t, "begin")
  /\ CASE ~Accepts(b) \/ row.status \in {"starting", "verified", "failed"} -> SetRow(b, row) /\ Post(t, Error)
       [] Accepts(b) /\ row.status \in {"pending", "verifying"} -> SetRow(b, row) /\ Goto(t, "touch") /\ UNCHANGED messages
       [] OTHER -> SetRow(b, [status |-> "starting", owner |-> windows[t].page, late |-> FALSE]) /\ Goto(t, "reserved") /\ UNCHANGED messages
  /\ UNCHANGED <<requests, opened, strays, challenge, replaced>>

\* The owner initializes the row it reserved once the verifier has started, or abandons it; the answer may find
\* its page gone.
Initialize(b, started) ==
  LET row == ceremonies[b] ok == started /\ Accepts(b) /\ ~row.late IN
  /\ row.status = "starting" /\ row.owner # 0
  /\ SetRow(b, IF ok THEN [NoCeremony EXCEPT !.status = "pending"] ELSE NoCeremony)
  /\ LET pages == {t \in Tabs : windows[t].page = row.owner /\ At(t, "reserved")} IN
     IF pages = {} THEN UNCHANGED <<windows, messages>>
     ELSE LET t == CHOOSE u \in pages : TRUE IN IF ok THEN Goto(t, "touch") /\ UNCHANGED messages ELSE Post(t, Error)
  /\ UNCHANGED <<requests, opened, strays, challenge, replaced>>

\* The options decode and an authenticator creates the credential; or either fails.
TouchResults == {"credential", "cancelled", "bad options"}
Created(result) == result = "credential"

\* navigator.credentials.create.
Touch(t, result) ==
  /\ At(t, "touch")
  /\ IF Created(result) THEN Goto(t, "finish") /\ UNCHANGED messages ELSE Post(t, Error)
  /\ UNCHANGED <<requests, opened, strays, authorityVars>>

\* finish_trusted_consent up to the claim of the verification.
Finish(t) ==
  LET b == Binding(t) row == Retired(ceremonies[b]) IN
  /\ At(t, "finish")
  /\ CASE row.status = "verified" -> SetRow(b, row) /\ Post(t, IF challenge \in Over THEN Error ELSE b)
       [] row.status = "pending" /\ Accepts(b) ->
            SetRow(b, [status |-> "verifying", owner |-> windows[t].page, late |-> FALSE]) /\ Goto(t, "verifying") /\ UNCHANGED messages
       [] OTHER -> SetRow(b, row) /\ Post(t, Error)
  /\ UNCHANGED <<requests, opened, strays, challenge, replaced>>

\* Fault: what the touch proved is stored without another look at the challenge.
CompletedBlindly(b, ok) == ok

\* complete_trusted_consent_ceremony: the lease is still held and the challenge still open.
Completed(b, ok) == ok /\ ~ceremonies[b].late /\ Accepts(b)

Verify(b, ok) ==
  LET row == ceremonies[b] IN
  /\ row.status = "verifying" /\ row.owner # 0
  /\ SetRow(b, [NoCeremony EXCEPT !.status = IF Completed(b, ok) THEN "verified" ELSE "failed"])
  /\ LET pages == {t \in Tabs : windows[t].page = row.owner /\ At(t, "verifying")} IN
     IF pages = {} THEN UNCHANGED <<windows, messages>>
     ELSE LET t == CHOOSE u \in pages : TRUE IN Post(t, IF Completed(b, ok) THEN b ELSE Error)
  /\ UNCHANGED <<requests, opened, strays, challenge, replaced>>

\* An initialization or a verification outlives its lease: the row was retired, and may be another page's by now.
LeaseLost(t) ==
  LET row == ceremonies[Binding(t)] IN
  /\ \/ At(t, "reserved") /\ ~(row.status = "starting" /\ row.owner = windows[t].page)
     \/ At(t, "verifying") /\ ~(row.status = "verifying" /\ row.owner = windows[t].page)
  /\ Post(t, Error)
  /\ UNCHANGED <<requests, opened, strays, authorityVars>>

\* The Authority restarts: what it was doing for a row is never finished, and only time frees the row.
Crash(b) ==
  /\ ceremonies[b].status \in {"starting", "verifying"} /\ ceremonies[b].owner # 0
  /\ SetRow(b, [ceremonies[b] EXCEPT !.owner = 0])
  /\ LET lost == {t \in Tabs : windows[t].page = ceremonies[b].owner /\ windows[t].pc \in {"reserved", "verifying"}} IN
     IF lost = {} THEN UNCHANGED <<windows, messages>> ELSE LET t == CHOOSE u \in lost : TRUE IN Post(t, Error)
  /\ UNCHANGED <<requests, opened, strays, challenge, replaced>>

\* The lease or the 120 seconds of a row run out.
Age(b) ==
  /\ ceremonies[b].status \in {"starting", "pending", "verifying"} /\ ~ceremonies[b].late
  /\ SetRow(b, [ceremonies[b] EXCEPT !.late = TRUE])
  /\ UNCHANGED <<browserVars, challenge, replaced>>

\* Fault: rows are retired by their deadline alone.
RetireAny(b) == IF ceremonies[b].status = "verified" THEN [NoCeremony EXCEPT !.status = "failed"] ELSE Retired(ceremonies[b])

RetireRow(b) == Retired(ceremonies[b])

Retire(b) ==
  /\ ceremonies[b] # RetireRow(b) /\ SetRow(b, RetireRow(b))
  /\ UNCHANGED <<browserVars, challenge, replaced>>

\* A first lease starts the work; a cancellation, a satisfaction or the deadline ends the challenge.
Challenge(s) ==
  /\ challenge \notin Over /\ challenge' = s /\ (s = "active" => challenge = "issued")
  /\ UNCHANGED <<browserVars, ceremonies, replaced>>

\* A material offer replacement is signed and waits for its own confirmation.
Replace ==
  /\ ~replaced /\ challenge \notin Over /\ replaced' = TRUE
  /\ UNCHANGED <<browserVars, ceremonies, challenge>>

Next ==
  \/ \E r \in Requests : Blocked(r) \/ AbortRequest(r) \/ ClosedPoll(r) \/ Timeout(r) \/ Grant(r)
  \/ \E r \in Requests, body \in Terms \cup {"forged"} : Launched(r, body)
  \/ \E r \in Requests, t \in Tabs, b \in Terms : Open(r, t, b) \/ Launch(r, t, b) \/ Stray(t, r, b)
  \/ \E m \in messages : Receive(m)
  \/ \E t \in Tabs : UserCloses(t) \/ Begin(t) \/ Finish(t) \/ LeaseLost(t) \/ (\E set \in OfferSets : Load(t, set)) \/ (\E result \in TouchResults : Touch(t, result))
  \/ \E b \in Terms : Crash(b) \/ Age(b) \/ Retire(b) \/ (\E ok \in BOOLEAN : Initialize(b, ok) \/ Verify(b, ok))
  \/ \E s \in {"active"} \cup Over : Challenge(s)
  \/ Replace

Spec == Init /\ [][Next]_vars

-----------------------------------------------------------------------------
\* Properties.

\* Every field has its type, and a page in a popup belongs to a request of its tab.
TypeOK ==
  /\ \A r \in Requests : requests[r].status \in {"idle", "waiting", "resolved", "granted", "rejected"}
  /\ \A t \in Tabs : windows[t].id # 0 => windows[t].page \in Requests /\ requests[windows[t].page].tab = t
  /\ \A b \in Terms : ceremonies[b].status \in {"none", "starting", "pending", "verifying", "verified", "failed"}
  /\ challenge \in {"issued", "active"} \cup Over

\* The popup hands a request only a receipt for its own terms, whatever an earlier page in
\* the same popup or another window posts (receive).
ResolvedIsOwn ==
  \A r \in Requests : requests[r].status = "resolved" /\ requests[r].popup # 0 => requests[r].receipt = requests[r].terms

\* Consent is granted only for terms whose ceremony the Authority verified, also when a
\* launcher of the integrator hands in a receipt for other terms (verifyTrustedConsentReceipt).
GrantedIsVerified == \A r \in Requests : requests[r].status = "granted" => ceremonies[requests[r].terms].status = "verified"

\* The user is asked to touch only for terms the Authority signed for this challenge, with
\* the shares and identities the page shows (verifyPoolOfferSet in the surface).
TouchIsForSignedTerms ==
  \A t \in Tabs : windows[t].pc \in {"touch", "finish", "verifying"} =>
    LET set == windows[t].offers IN set.key = "trusted" /\ set.offers = set.signed /\ set.confirm

\* Nobody is asked to touch for a request that settled: its popup is gone (cleanup in fail and succeed).
NoAbandonedSurface == \A t \in Tabs : windows[t].id # 0 => requests[windows[t].page].status = "waiting"

\* A touch counts only while the challenge still takes this consent, however long the
\* verification took and whatever ended it meanwhile.
VerifiedWhileOpen ==
  [][\A b \in Terms : ceremonies'[b].status = "verified" /\ ceremonies[b].status # "verified" => Accepts(b) /\ ~ceremonies[b].late]_vars

\* A ceremony that was decided stays decided: a failed touch is never verified later, and a
\* verified one is not retired.
DecisionsStand == [][\A b \in Terms : ceremonies[b].status \in {"verified", "failed"} => ceremonies'[b] = ceremonies[b]]_vars
=============================================================================
