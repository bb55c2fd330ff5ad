------------------------------ MODULE WorkGate ------------------------------
(***************************************************************************)
(* The bwg-work-gate element.  Each mount is a view with one session of a  *)
(* headless client, which the host's loadSession supplies; buttons start   *)
(* async operations on the client, the client calls its listeners back,    *)
(* and unmounting or onboarding another Worker replaces the session while  *)
(* all of these are under way.                                             *)
(***************************************************************************)
EXTENDS Naturals, FiniteSets, FiniteSetsExt

CONSTANTS
  Clients,      \* the clients loadSession may return
  Shared,       \* it may return one of them to two mounts, as the reference account page does
  Trusted,      \* those whose disclosure requires the trusted confirmation
  Onboarding,   \* the host configured maybeOnboardBitaxe
  Patient,      \* the user neither presses a button twice nor keeps working after confirming a Cancel
  ViewLimit, OpLimit, CancelLimit  \* bounds of the instance

VARIABLES
  mounted,  \* the view of #maybeDispose, 0 without one
  views,    \* one for each mount
  clients,
  ops       \* the async functions that buttons started

vars == <<mounted, views, clients, ops>>

Views == 1..ViewLimit
Ops == 1..OpLimit
Ended == {"satisfied", "pass_issued", "expired", "cancelled"}
States == {"awaiting", "ready", "running", "paused"} \cup Ended

\* The signals and variables of createWorkGateView; listens is the client of maybeUnsubscribe
\* and confirm the operation of maybeTrustedConsentAbort.
NoView == [load |-> "none", disposed |-> FALSE, session |-> 0, available |-> TRUE, lifecycle |-> "none", dialog |-> FALSE,
           onboarding |-> "idle", previous |-> 0, next |-> 0, confirm |-> 0, redeemed |-> FALSE, listens |-> 0]
IdleOp == [pc |-> "idle", kind |-> "none", view |-> 0, client |-> 0, aborted |-> FALSE, gen |-> 0]

\* A client starts a challenge, or resumes one whose consent it found in the store (restoredLifecycle).
Restored == {"awaiting", "ready", "paused", "satisfied", "pass_issued"}

Init ==
  /\ mounted = 0 /\ views = [v \in Views |-> NoView] /\ ops = [o \in Ops |-> IdleOp]
  /\ clients \in [Clients -> {[state |-> s, stored |-> s # "awaiting", gen |-> 1, closed |-> FALSE, listeners |-> {}, asked |-> 0] : s \in Restored}]

Live(v) == views[v].load # "none" /\ ~views[v].disposed
InFlight(o) == ops[o].pc # "idle"
Free(o) == ~InFlight(o) /\ \A p \in Ops : p < o => InFlight(p)

Abort(v, os) == IF v # 0 THEN [os EXCEPT ![v].aborted = InFlight(v)] ELSE os

-----------------------------------------------------------------------------
\* What the client calls back, and the session of a view.

\* observeClientEvent and the listener of installSession: an ended challenge aborts the
\* confirmation, an issued pass is redeemed unless redemptionStarted.
Hear(v, s, vs) == [vs EXCEPT ![v].lifecycle = s, ![v].redeemed = @ \/ s = "pass_issued"]

\* asked counts the calls of session.redeem for a client: none, one, or more (2).
Redeeming(heard, s, vs) == IF s = "pass_issued" THEN Cardinality({v \in heard : ~vs[v].redeemed}) ELSE 0
Asked(n, heard, s, vs) == Min({2, n + Redeeming(heard, s, vs)})

\* Fault: an ended challenge leaves the confirmation under way.
AbortedNever(listeners, s) == {}

Aborted(listeners, s) == IF s \in Ended THEN {views[v].confirm : v \in listeners} \ {0} ELSE {}

\* setLifecycle of client c; its listeners hear it at once.
Emit(c, client, vs, os) ==
  LET heard == IF client.state = clients[c].state THEN {} ELSE clients[c].listeners IN
  /\ clients' = [clients EXCEPT ![c] = [client EXCEPT !.asked = Asked(@, heard, client.state, vs)]]
  /\ views' = [v \in Views |-> IF v \in heard THEN Hear(v, client.state, vs)[v] ELSE vs[v]]
  /\ ops' = [o \in Ops |-> IF o \in Aborted(heard, client.state) THEN [os[o] EXCEPT !.aborted = os[o].pc # "idle"] ELSE os[o]]

\* Fault: a new listener waits for the next event.
InstalledSilently(v, c, vs, cs) ==
  /\ views' = [vs EXCEPT ![v].session = c, ![v].listens = c, ![v].load = "done"]
  /\ clients' = [cs EXCEPT ![c].listeners = @ \cup {v}]

\* subscribe calls the listener with the current lifecycle before it returns.
Installed(v, c, vs, cs) ==
  /\ views' = Hear(v, cs[c].state, [vs EXCEPT ![v].session = c, ![v].listens = c, ![v].load = "done"])
  /\ clients' = [cs EXCEPT ![c].listeners = @ \cup {v}, ![c].asked = Asked(@, {v}, cs[c].state, vs)]

ShutDown(c, cs) == IF c = 0 THEN cs ELSE [cs EXCEPT ![c].closed = TRUE, ![c].listeners = {}]
Unsubscribed(v, cs) == [c \in Clients |-> [cs[c] EXCEPT !.listeners = IF c = views[v].listens THEN @ \ {v} ELSE @]]

\* Fault: an unmounted view leaves its listener with the client.
CleanupWithoutUnsubscribe(v) ==
  /\ views' = [views EXCEPT ![v].disposed = TRUE]
  /\ ops' = Abort(views[v].confirm, ops)
  /\ UNCHANGED clients

\* onCleanup.
Cleanup(v) ==
  /\ views' = [views EXCEPT ![v].disposed = TRUE]
  /\ ops' = Abort(views[v].confirm, ops)
  /\ clients' = ShutDown(views[v].session, Unsubscribed(v, clients))

\* #mount, from connectedCallback or configure: a mounted view is disposed of first.
Fresh(v) == v \in Views /\ views[v].load = "none" /\ \A w \in Views : w < v => views[w].load # "none"

Mount(v) ==
  /\ mounted = 0 /\ Fresh(v)
  /\ mounted' = v /\ views' = [views EXCEPT ![v].load = "loading"]
  /\ UNCHANGED <<clients, ops>>

\* disconnectedCallback; configure on a connected element disposes of its view the same way.
Unmount ==
  /\ mounted # 0 /\ mounted' = 0 /\ Cleanup(mounted)

\* loadSession of view v may return client c; after onboarding it may be the one v has.
Offered(v, c) == Shared \/ (~clients[c].closed /\ \A w \in Views \ {v} : c \notin {views[w].session, views[w].next})

\* The first loadSession settled.
Load(v, c, available) ==
  /\ views[v].load = "loading" /\ Offered(v, c)
  /\ IF views[v].disposed
     THEN clients' = ShutDown(c, clients) /\ views' = [views EXCEPT ![v].load = "done"]
     ELSE Installed(v, c, [views EXCEPT ![v].available = available], clients)
  /\ UNCHANGED <<mounted, ops>>

LoadFails(v) ==
  /\ views[v].load = "loading"
  /\ views' = [views EXCEPT ![v].load = "failed"]
  /\ UNCHANGED <<mounted, clients, ops>>

-----------------------------------------------------------------------------
\* Buttons.

\* lifecycleView.
PrimaryAction(s) ==
  CASE s = "awaiting" -> "consent_start" [] s = "ready" -> "start" [] s = "running" -> "pause" [] s = "paused" -> "resume"
    [] OTHER -> "none"
CanCancel(s) == s \in {"awaiting", "ready", "running", "paused"}

\* The session whose terms renderDisclosure shows, 0 without terms.
Terms(v) == views[v].session

\* Fault: the terms and their buttons stay on the page without a compatible Worker.
ShownWithoutWorker(v) == Live(v) /\ ~views[v].dialog /\ Terms(v) # 0

\* updateView: terms need a compatible Worker, and the cancel dialog makes the rest inert.
TermsShown(v) == Live(v) /\ ~views[v].dialog /\ Terms(v) # 0 /\ views[v].available

OnboardShown(v) == Live(v) /\ ~views[v].dialog /\ Terms(v) # 0 /\ ~views[v].available /\ Onboarding

Busy(v, kinds) == \E o \in Ops : ops[o].view = v /\ ops[o].kind \in kinds /\ ~(ops[o].pc = "confirm" /\ ops[o].aborted)
Tap(v, kinds) == Patient => ~Busy(v, kinds)

\* grantConsent up to its first await; it throws outside the wait for consent.
Granting(op) ==
  IF clients[op.client].state = "awaiting"
  THEN [op EXCEPT !.pc = "record", !.gen = clients[op.client].gen] ELSE IdleOp

\* Another press of consent_start aborts the confirmation of the first.
ConsentStart(v, o) ==
  LET op == [IdleOp EXCEPT !.pc = "confirm", !.kind = "consent", !.view = v, !.client = views[v].session] IN
  /\ ops' = [Abort(views[v].confirm, ops) EXCEPT ![o] = IF op.client \in Trusted THEN op ELSE Granting(op)]
  /\ views' = [views EXCEPT ![v].confirm = IF ops'[o] = IdleOp THEN 0 ELSE o]

ClickPrimary(v, o) ==
  /\ TermsShown(v) /\ PrimaryAction(views[v].lifecycle) # "none" /\ Free(o) /\ Tap(v, {"consent", "start", "pause", "resume"})
  /\ IF PrimaryAction(views[v].lifecycle) = "consent_start" THEN ConsentStart(v, o)
     ELSE /\ ops' = [ops EXCEPT ![o] = [IdleOp EXCEPT !.pc = "run", !.kind = PrimaryAction(views[v].lifecycle), !.view = v,
                                                      !.client = views[v].session]]
          /\ UNCHANGED views
  /\ UNCHANGED <<mounted, clients>>

\* Fault: a confirmation that arrives late is used whatever became of the view.
LateReceiptUsed(op) == TRUE

\* disposed || confirmation.signal.aborted.
Wanted(op) == ~views[op.view].disposed /\ ~op.aborted

Forget(o) == [views EXCEPT ![ops[o].view].confirm = IF @ = o THEN 0 ELSE @]

\* The trusted confirmation settled with a receipt, or failed.
Confirm(o, ok) ==
  /\ ops[o].pc = "confirm"
  /\ ops' = [ops EXCEPT ![o] = IF ok /\ Wanted(ops[o]) THEN Granting(ops[o]) ELSE IdleOp]
  /\ views' = IF ops'[o] = IdleOp THEN Forget(o) ELSE views
  /\ UNCHANGED <<mounted, clients>>

\* recordConsent settled: an aborted or superseded consent is cleared again, else Start follows.
Record(o) ==
  LET op == ops[o] c == op.client stored == [clients[c] EXCEPT !.stored = TRUE] IN
  /\ op.pc = "record"
  /\ IF op.aborted \/ op.gen # clients[c].gen
     THEN Emit(c, stored, views, [ops EXCEPT ![o].pc = "clear"])
     ELSE Emit(c, [stored EXCEPT !.state = "ready"], IF Wanted(op) THEN views ELSE Forget(o),
               [ops EXCEPT ![o] = IF Wanted(op) THEN [op EXCEPT !.pc = "run"] ELSE IdleOp])
  /\ UNCHANGED mounted

\* clearConsent of an aborted consent settled.
Clear(o) ==
  /\ ops[o].pc = "clear"
  /\ clients' = [clients EXCEPT ![ops[o].client].stored = FALSE]
  /\ views' = Forget(o) /\ ops' = [ops EXCEPT ![o] = IdleOp]
  /\ UNCHANGED mounted

\* start, pause and resume of the client, by what they leave in its lifecycle.
Effect(op, s) ==
  CASE op.kind \in {"consent", "start"} /\ s \in {"awaiting", "ready"} -> "running"
    [] op.kind = "pause" /\ s = "running" -> "paused"
    [] op.kind = "resume" /\ s = "paused" -> "running"
    [] OTHER -> s

Run(o, ok) ==
  LET op == ops[o] c == op.client IN
  /\ op.pc = "run"
  /\ Emit(c, [clients[c] EXCEPT !.state = IF ok THEN Effect(op, @) ELSE @], Forget(o), [ops EXCEPT ![o] = IdleOp])
  /\ UNCHANGED mounted

\* cancel and keep-working open and close the dialog.
ClickCancel(v) ==
  /\ TermsShown(v) /\ CanCancel(views[v].lifecycle)
  /\ views' = [views EXCEPT ![v].dialog = TRUE]
  /\ UNCHANGED <<mounted, clients, ops>>

KeepWorking(v) ==
  /\ Live(v) /\ views[v].dialog /\ Tap(v, {"cancel"})
  /\ views' = [views EXCEPT ![v].dialog = FALSE]
  /\ UNCHANGED <<mounted, clients, ops>>

\* confirm-cancel up to the client's first await: a generation of consent ends.
BeginCancel(v, o) ==
  LET c == views[v].session IN
  /\ ops' = [Abort(views[v].confirm, ops) EXCEPT ![o] = [IdleOp EXCEPT !.pc = "stop", !.kind = "cancel", !.view = v, !.client = c]]
  /\ clients' = [clients EXCEPT ![c].gen = @ + 1]

ConfirmCancel(v, o) ==
  /\ Live(v) /\ views[v].dialog /\ Free(o) /\ Tap(v, {"cancel"})
  /\ CanCancel(clients[views[v].session].state) /\ clients[views[v].session].gen <= CancelLimit
  /\ BeginCancel(v, o)
  /\ UNCHANGED <<mounted, views>>

\* Cancel on a challenge that ended meanwhile throws before its first await.
CancelRefused(v) ==
  /\ Live(v) /\ views[v].dialog /\ ~CanCancel(clients[views[v].session].state)
  /\ views' = [views EXCEPT ![v].dialog = FALSE]
  /\ ops' = Abort(views[v].confirm, ops)
  /\ UNCHANGED <<mounted, clients>>

\* Fault: the consent is cleared before the Worker and the Authority answered.
CancelledClearsFirst(o, ok) ==
  LET op == ops[o] c == op.client s == clients[c].state IN
  /\ op.pc = "stop"
  /\ Emit(c, [clients[c] EXCEPT !.stored = FALSE, !.state = IF ok /\ CanCancel(s) THEN "cancelled" ELSE s],
          [views EXCEPT ![op.view].dialog = FALSE], [ops EXCEPT ![o] = IdleOp])
  /\ UNCHANGED mounted

\* The Worker and the Authority answered; the dialog closes either way.
Cancelled(o, ok) ==
  LET op == ops[o] c == op.client s == clients[c].state IN
  /\ op.pc = "stop"
  /\ Emit(c, IF ok THEN [clients[c] EXCEPT !.stored = FALSE, !.state = IF CanCancel(s) THEN "cancelled" ELSE s] ELSE clients[c],
          [views EXCEPT ![op.view].dialog = FALSE], [ops EXCEPT ![o] = IdleOp])
  /\ UNCHANGED mounted

-----------------------------------------------------------------------------
\* Onboarding another Worker replaces the session.

ClickOnboard(v) ==
  /\ OnboardShown(v) /\ views[v].onboarding = "idle"
  /\ views' = [views EXCEPT ![v].onboarding = "onboarding", ![v].previous = views[v].session]
  /\ UNCHANGED <<mounted, clients, ops>>

EndOnboarding(v) == [views EXCEPT ![v].onboarding = "idle", ![v].previous = 0, ![v].next = 0]

\* Onboarding, or the load after it, failed.
OnboardFails(v) ==
  /\ views[v].onboarding = "onboarding"
  /\ views' = EndOnboarding(v)
  /\ UNCHANGED <<mounted, clients, ops>>

\* Fault: the flag that a pass was redeemed is reset after the new session was installed.
CommitThenReset(v, c, available) ==
  /\ views' = [EndOnboarding(v) EXCEPT ![v].session = c, ![v].listens = c, ![v].available = available,
                                       ![v].lifecycle = clients[c].state, ![v].redeemed = FALSE]
  /\ clients' = [Unsubscribed(v, clients) EXCEPT ![c].listeners = @ \cup {v}]

\* The commit callback; maybeSession may belong to a view that was disposed of meanwhile.
Commit(v, c, available) ==
  Installed(v, c, [EndOnboarding(v) EXCEPT ![v].redeemed = FALSE, ![v].available = available], Unsubscribed(v, clients))

\* The second loadSession settled with client c: replaceSessionAfterClosingPrevious.
Reload(v, c, available) ==
  /\ views[v].onboarding = "onboarding" /\ Offered(v, c)
  /\ IF views[v].disposed
     THEN clients' = (IF c = views[v].previous THEN clients ELSE ShutDown(c, clients)) /\ views' = EndOnboarding(v)
     ELSE IF c = views[v].previous THEN Commit(v, c, available)
     ELSE /\ clients' = ShutDown(views[v].previous, clients)
          /\ views' = [views EXCEPT ![v].onboarding = IF available THEN "closing" ELSE "closing_unavailable", ![v].next = c]
  /\ UNCHANGED <<mounted, ops>>

\* The close of the previous session settled; when it failed the replacement is closed.
Closed(v, ok) ==
  /\ views[v].onboarding \in {"closing", "closing_unavailable"}
  /\ IF ok THEN Commit(v, views[v].next, views[v].onboarding = "closing")
     ELSE clients' = ShutDown(views[v].next, clients) /\ views' = EndOnboarding(v)
  /\ UNCHANGED <<mounted, ops>>

\* An Authority event, or the loss of the Worker; leaving the wait for consent ends its generation.
Follows(s, t) ==
  \/ CanCancel(s) /\ t = "expired"
  \/ s \in {"running", "paused"} /\ t \in {"satisfied", "pass_issued"}
  \/ s = "satisfied" /\ t = "pass_issued"
  \/ s = "running" /\ t = "paused"

Event(c, s) ==
  /\ ~clients[c].closed /\ Follows(clients[c].state, s)
  /\ Emit(c, [clients[c] EXCEPT !.state = s, !.gen = IF clients[c].state = "awaiting" THEN @ + 1 ELSE @], views, ops)
  /\ UNCHANGED mounted

Next ==
  \/ \E v \in Views : Mount(v) \/ LoadFails(v) \/ ClickCancel(v) \/ KeepWorking(v) \/ CancelRefused(v) \/ ClickOnboard(v) \/ OnboardFails(v)
  \/ Unmount
  \/ \E v \in Views, c \in Clients, b \in BOOLEAN : Load(v, c, b) \/ Reload(v, c, b)
  \/ \E v \in Views, o \in Ops : ClickPrimary(v, o) \/ ConfirmCancel(v, o)
  \/ \E o \in Ops, b \in BOOLEAN : Confirm(o, b) \/ Run(o, b) \/ Cancelled(o, b)
  \/ \E o \in Ops : Record(o) \/ Clear(o)
  \/ \E v \in Views, b \in BOOLEAN : Closed(v, b)
  \/ \E c \in Clients, s \in States : Event(c, s)

Spec == Init /\ [][Next]_vars

-----------------------------------------------------------------------------
\* Properties.

\* Every field has its type, and a client only calls back views that were mounted.
TypeOK ==
  /\ mounted \in {0} \cup Views
  /\ \A v \in Views : /\ views[v].session \in Clients \cup {0} /\ views[v].lifecycle \in States \cup {"none"}
                      /\ views[v].onboarding \in {"idle", "onboarding", "closing", "closing_unavailable"}
                      /\ (views[v].confirm # 0 => ops[views[v].confirm].view = v)
  /\ \A c \in Clients : clients[c].state \in States /\ clients[c].asked \in 0..2 /\ clients[c].listeners \subseteq {v \in Views : views[v].load = "done"}
  /\ \A o \in Ops : ops[o].pc \in {"idle", "confirm", "record", "clear", "run", "stop"}

\* A mounted view of an open client shows the client's own lifecycle, through loads,
\* replacements and closes (installSession, observeClientEvent).
ShownIsCurrent ==
  \A v \in Views : Live(v) /\ views[v].session # 0 /\ ~clients[views[v].session].closed
                     => views[v].lifecycle = clients[views[v].session].state

\* For an issued Gate Pass that a mounted view shows, the host was asked to redeem it (redeem).
IssuedIsRedeemed ==
  \A v \in Views : Live(v) /\ views[v].lifecycle = "pass_issued" => clients[views[v].session].asked > 0

\* The host is asked at most once for the pass of a client.  Onboarding that loads the same
\* client again (redemptionStarted is reset), or a second mount of a shared one, refutes it.
RedeemedOnce == \A c \in Clients : clients[c].asked <= 1

\* A confirmation or consent under way is for the session whose terms the page shows: none
\* survives the replacement of the session it was started for.
ConsentIsForShownTerms ==
  \A o \in Ops : ops[o].pc \in {"confirm", "record"} /\ Live(ops[o].view) => ops[o].client = Terms(ops[o].view)

\* Neither consent nor Start begins for a view that was unmounted, or after its confirmation
\* was aborted, however late the receipt arrives.
NoLateConsentStep ==
  \A o \in Ops : ops'[o].pc \in {"record", "run"} /\ ops'[o].pc # ops[o].pc
    => Live(ops'[o].view) /\ ~ops[o].aborted

\* An ended challenge is never shown as open again by a consent that settles late.
NoRegressionStep == \A c \in Clients : clients[c].state \in Ended => clients'[c].state \in Ended

\* A consent the client acts on is in the store, where a restored page looks for it.
GrantedIsDurable == \A c \in Clients : clients[c].state \in {"ready", "running", "paused"} => clients[c].stored

\* An unmounted view listens to nothing, and every session it was given is closed.
RemovedLeavesNothing ==
  \A v \in Views : views[v].disposed =>
    /\ \A c \in Clients : v \notin clients[c].listeners
    /\ views[v].session # 0 => clients[views[v].session].closed
=============================================================================
