------------------------ MODULE RelyingService_proofs ------------------------
(***************************************************************************)
(* Proofs that the Reference Relying Service keeps its records, attempts   *)
(* and outcomes coherent, and implements the once-only Protected Action,   *)
(* for every number of actions, passes and workers.                        *)
(***************************************************************************)
EXTENDS RelyingService, TLAPS

\* What the intent says of the latest attempt.
AttemptShape ==
  \A a \in Actions :
    /\ intent[a] = "none" => tries[a] = 0
    /\ intent[a] = "pending" /\ tries[a] >= 1 => attempt[a][tries[a]] = "abandoned"
    /\ intent[a] = "processing" =>
         tries[a] >= 1 /\ attempt[a][tries[a]] \in {"processing", "abandoned"}

\* What a worker that has claimed an action knows of it: as long as it is the owner, its
\* attempt is the latest.
WorkerShape ==
  \A w \in Workers :
    /\ wkPc[w] \in {"claimed", "ending"} => wkAct[w] \in Actions
    /\ wkPc[w] \in {"claimed", "ending"} /\ owner[wkAct[w]] = w => tries[wkAct[w]] = wkTry[w]
    /\ wkPc[w] = "ending" => wkEnd[w] # "none"

\* Time and the open claim transactions.
ReadingShape ==
  \A w \in Workers :
    /\ wkNow[w] <= clock
    /\ wkPc[w] = "sweeping" => clock <= wkNow[w] + MaxOpen
    /\ wkPc[w] # "sweeping" => wkSwept[w] = {}

\* A sweep holds running attempts, and no row is held twice.
SweptRows ==
  /\ \A w \in Workers : \A a \in wkSwept[w] :
       /\ intent[a] \in {"processing", "failed"} /\ tries[a] >= 1
       /\ attempt[a][tries[a]] = "processing"
  /\ \A v, w \in Workers : v # w => wkSwept[v] \cap wkSwept[w] = {}

\* A sweep missed no attempt that lapsed by its reading, although claims ran meanwhile:
\* the transaction is shorter than the lease such a claim starts.
SweptAll ==
  \A w \in Workers, a \in Actions :
    (/\ wkPc[w] = "sweeping" /\ intent[a] = "processing"
     /\ attempt[a][tries[a]] = "processing" /\ lease[a] <= wkNow[w]) => a \in wkSwept[w]

\* The inductive invariant.
IInv ==
  /\ TypeOK /\ OutcomeAgrees /\ OneEnding /\ AttemptsInTurn
  /\ AttemptShape /\ WorkerShape /\ ReadingShape /\ SweptRows /\ SweptAll

-----------------------------------------------------------------------------
\* The empty database satisfies the invariant.
LEMMA InitIInv == Init => IInv
<1> SUFFICES ASSUME Init PROVE IInv
  OBVIOUS
<1> USE RelyingAssumption DEF Init
<1>1. TypeOK
  BY DEF TypeOK, AttemptStates
<1>2. OutcomeAgrees /\ OneEnding
  BY DEF OutcomeAgrees, OneEnding
<1>3. AttemptsInTurn /\ AttemptShape
  BY DEF AttemptsInTurn, AttemptShape
<1>4. WorkerShape /\ ReadingShape
  BY DEF WorkerShape, ReadingShape
<1>5. SweptRows /\ SweptAll
  BY DEF SweptRows, SweptAll
<1>6. QED
  BY <1>1, <1>2, <1>3, <1>4, <1>5 DEF IInv

\* Time alone keeps the invariant: an open claim transaction holds the clock back.
LEMMA TickStep ==
  ASSUME IInv, Tick
  PROVE  IInv'
<1> USE DEF Tick, IInv, recordVars, intentVars, workerVars
<1>1. TypeOK'
  BY RelyingAssumption DEF TypeOK
<1>2. OutcomeAgrees' /\ OneEnding' /\ AttemptsInTurn' /\ AttemptShape' /\ WorkerShape'
  BY DEF OutcomeAgrees, OneEnding, AttemptsInTurn, AttemptShape, WorkerShape
<1>3. ReadingShape'
  BY RelyingAssumption DEF TypeOK, ReadingShape
<1>4. SweptRows' /\ SweptAll'
  BY DEF SweptRows, SweptAll
<1>5. QED
  BY <1>1, <1>2, <1>3, <1>4

\* A new action has no rows of its own yet.
LEMMA InsertProtectedActionStep ==
  ASSUME IInv, NEW a \in Actions, InsertProtectedAction(a)
  PROVE  IInv'
<1> USE DEF InsertProtectedAction, IInv, intentVars, workerVars
<1>1. TypeOK'
  BY DEF TypeOK
<1>2. OutcomeAgrees' /\ OneEnding' /\ AttemptsInTurn' /\ AttemptShape' /\ WorkerShape'
  BY DEF OutcomeAgrees, OneEnding, AttemptsInTurn, AttemptShape, WorkerShape
<1>3. ReadingShape' /\ SweptRows' /\ SweptAll'
  BY DEF ReadingShape, SweptRows, SweptAll
<1>4. QED
  BY <1>1, <1>2, <1>3

\* A redemption joins the action's record, or creates it where no worker can be.
LEMMA RedeemStep ==
  ASSUME IInv, NEW p \in Passes, NEW now \in Readings, Redeem(p, now)
  PROVE  IInv'
<1> USE DEF IInv, workerVars
<1> DEFINE a == PassFor[p]
<1>1. a \in Actions /\ now \in Nat /\ now # None
  BY RelyingAssumption DEF Readings
<1>2. /\ consumed' = [consumed EXCEPT ![p] = a]
      /\ UNCHANGED <<clock, known, tries, owner, lease, attempt, account, workerVars>>
      /\ IF accepted[a] = None
         THEN InsertRedemption(a, now)
         ELSE UNCHANGED <<accepted, outcome, intent, nextAt>>
  BY DEF Redeem
<1> HIDE DEF a
<1>3. CASE accepted[a] # None
  <2>1. UNCHANGED <<accepted, outcome, intent, nextAt>>
    BY <1>2, <1>3
  <2>2. TypeOK' /\ OutcomeAgrees'
    BY <1>1, <1>2, <1>3, <2>1 DEF TypeOK, OutcomeAgrees
  <2>3. OneEnding' /\ AttemptsInTurn' /\ AttemptShape' /\ WorkerShape'
    BY <1>2, <2>1 DEF OneEnding, AttemptsInTurn, AttemptShape, WorkerShape
  <2>4. ReadingShape' /\ SweptRows' /\ SweptAll'
    BY <1>2, <2>1 DEF ReadingShape, SweptRows, SweptAll
  <2>5. QED
    BY <2>2, <2>3, <2>4
<1>4. CASE accepted[a] = None
  <2>1. /\ accepted' = [accepted EXCEPT ![a] = now]
        /\ outcome'  = [outcome EXCEPT ![a] = "pending"]
        /\ intent'   = [intent EXCEPT ![a] = "pending"]
        /\ nextAt'   = [nextAt EXCEPT ![a] = now]
    BY <1>2, <1>4 DEF InsertRedemption
  <2>2. intent[a] = "none" /\ outcome[a] = "none" /\ tries[a] = 0
    BY <1>1, <1>4 DEF OutcomeAgrees, AttemptShape
  <2>3. TypeOK'
    BY <1>1, <1>2, <2>1 DEF TypeOK
  <2>4. OutcomeAgrees'
    <3>1. now # None
      BY <1>1, <1>2, RelyingAssumption DEF TypeOK
    <3>2. QED
      BY <1>1, <1>2, <2>1, <2>2, <3>1 DEF TypeOK, OutcomeAgrees
  <2>5. OneEnding' /\ WorkerShape'
    BY <1>1, <1>2, <2>1, <2>2 DEF TypeOK, OneEnding, WorkerShape
  <2>6. AttemptsInTurn' /\ AttemptShape'
    BY <1>1, <1>2, <2>1, <2>2 DEF TypeOK, AttemptsInTurn, AttemptShape
  <2>7. ReadingShape' /\ SweptRows' /\ SweptAll'
    BY <1>1, <1>2, <2>1, <2>2 DEF TypeOK, ReadingShape, SweptRows, SweptAll
  <2>8. QED
    BY <2>3, <2>4, <2>5, <2>6, <2>7
<1>5. QED
  BY <1>3, <1>4

-----------------------------------------------------------------------------
\* The steps of a worker.

\* A sweep takes every lapsed attempt, and none that another sweep holds.
LEMMA SweepAttemptsStep ==
  ASSUME IInv, NEW w \in Workers, NEW now \in Readings, SweepAttempts(w, now)
  PROVE  IInv'
<1> USE DEF IInv
<1> DEFINE lapsed == LapsedAttempts(now)
<1>1. /\ lapsed \in SUBSET Actions
      /\ \A a \in lapsed : intent[a] = "processing" /\ attempt[a][tries[a]] = "processing"
      /\ \A a \in Actions : (intent[a] = "processing" /\ attempt[a][tries[a]] = "processing"
                               /\ lease[a] <= now) => a \in lapsed
  BY DEF LapsedAttempts
<1>2. /\ wkPc[w] = "idle"
      /\ \A a \in lapsed : \A v \in Workers : a \notin wkSwept[v]
      /\ wkPc'    = [wkPc EXCEPT ![w] = "sweeping"]
      /\ wkNow'   = [wkNow EXCEPT ![w] = now]
      /\ wkSwept' = [wkSwept EXCEPT ![w] = lapsed]
      /\ UNCHANGED <<clock, recordVars, outcome, intentVars, attempt, account, wkAct, wkTry, wkEnd>>
  BY DEF SweepAttempts, AttemptLocked
<1>3. now \in Nat /\ now <= clock /\ clock <= now + MaxOpen
  BY RelyingAssumption DEF Readings, TypeOK
<1> HIDE DEF lapsed
<1> USE DEF recordVars, intentVars
<1>4. TypeOK'
  BY <1>1, <1>2, <1>3 DEF TypeOK
<1>5. OutcomeAgrees' /\ AttemptsInTurn' /\ AttemptShape'
  BY <1>2 DEF OutcomeAgrees, AttemptsInTurn, AttemptShape
<1>6. OneEnding' /\ WorkerShape'
  BY <1>2 DEF TypeOK, OneEnding, WorkerShape
<1>7. ReadingShape'
  BY <1>2, <1>3 DEF TypeOK, ReadingShape
<1>8. SweptRows'
  <2>1. \A v \in Workers : wkSwept'[v] = IF v = w THEN lapsed ELSE wkSwept[v]
    BY <1>2 DEF TypeOK
  <2>2. \A a \in lapsed : tries[a] >= 1
    BY <1>1 DEF AttemptShape
  <2>3. \A v \in Workers : \A a \in wkSwept'[v] :
          /\ intent'[a] \in {"processing", "failed"} /\ tries'[a] >= 1
          /\ attempt'[a][tries'[a]] = "processing"
    BY <1>1, <1>2, <2>1, <2>2 DEF SweptRows
  <2>4. \A v, u \in Workers : v # u => wkSwept'[v] \cap wkSwept'[u] = {}
    BY <1>2, <2>1 DEF SweptRows
  <2>5. QED
    BY <2>3, <2>4 DEF SweptRows
<1>9. SweptAll'
  BY <1>1, <1>2 DEF TypeOK, SweptAll
<1>10. QED
  BY <1>4, <1>5, <1>6, <1>7, <1>8, <1>9

\* Exhausted actions were pending or running, and none of them is claimable.
LEMMA ExhaustedFacts ==
  ASSUME IInv, NEW now \in Nat
  PROVE  /\ Exhausted(now) \in SUBSET Actions
         /\ \A a \in Exhausted(now) : intent[a] \in {"pending", "processing"}
         /\ \A a \in Actions : Claimable(a, now) => a \notin Exhausted(now)
<1>1. \A a \in Actions : intent[a] \in {"pending", "processing"} => accepted[a] \in Nat
  BY DEF IInv, TypeOK, OutcomeAgrees
<1>2. \A a \in Actions : tries[a] \in Nat
  BY DEF IInv, TypeOK
<1>3. QED
  BY <1>1, <1>2, RelyingAssumption DEF Exhausted, Claimable, Deadline

\* Nobody else holds the attempt row of an action that a sweeping worker may claim, and
\* its earlier attempt is over once the sweep commits.
LEMMA ClaimableFacts ==
  ASSUME IInv, NEW w \in Workers, wkPc[w] = "sweeping", NEW a \in Actions, Claimable(a, wkNow[w])
  PROVE  /\ tries[a] \in Nat /\ tries[a] + 1 \in 1..MaxAttempts
         /\ intent[a] \in {"pending", "processing"}
         /\ \A v \in Workers : v # w => a \notin wkSwept[v]
         /\ tries[a] >= 1 => a \in wkSwept[w] \/ attempt[a][tries[a]] = "abandoned"
         /\ \A v \in Workers : wkPc[v] = "ending" => wkAct[v] # a
<1> USE DEF IInv
<1>1. tries[a] \in Nat /\ tries[a] + 1 \in 1..MaxAttempts /\ intent[a] \in {"pending", "processing"}
  BY RelyingAssumption DEF TypeOK, Claimable
<1>2. \A v \in Workers : wkPc[v] = "ending" => wkAct[v] # a
  BY DEF Claimable, IntentLocked
<1>3. intent[a] = "processing" /\ attempt[a][tries[a]] = "processing" => a \in wkSwept[w]
  BY DEF Claimable, SweptAll
<1>4. tries[a] >= 1 => a \in wkSwept[w] \/ attempt[a][tries[a]] = "abandoned"
  BY <1>1, <1>3 DEF AttemptShape
<1>5. ASSUME NEW v \in Workers, v # w, a \in wkSwept[v]
      PROVE  FALSE
  <2>1. intent[a] = "processing" /\ attempt[a][tries[a]] = "processing"
    BY <1>1, <1>5 DEF SweptRows
  <2>2. a \in wkSwept[w]
    BY <1>3, <2>1
  <2>3. QED
    BY <1>5, <2>2 DEF SweptRows
<1>6. QED
  BY <1>1, <1>2, <1>4, <1>5

\* The end of a claim transaction, whatever it claims, keeps everything but what the
\* claiming worker remembers.
LEMMA FailAndClaimFacts ==
  ASSUME IInv, NEW w \in Workers, NEW claimed \in SUBSET Actions, FailAndClaim(w, claimed),
         \A a \in claimed : Claimable(a, wkNow[w])
  PROVE  /\ outcome' \in [Actions -> {"none", "pending", "succeeded", "failed"}]
         /\ intent' \in [Actions -> {"none", "pending", "processing", "completed", "failed"}]
         /\ tries' \in [Actions -> 0..MaxAttempts]
         /\ owner' \in [Actions -> Workers \cup {None}]
         /\ lease' \in [Actions -> Nat \cup {None}]
         /\ attempt' \in [Actions -> [1..MaxAttempts -> AttemptStates]]
         /\ wkSwept' = [wkSwept EXCEPT ![w] = {}]
         /\ UNCHANGED <<clock, recordVars, nextAt, account, wkNow, wkEnd>>
         /\ OutcomeAgrees' /\ AttemptsInTurn' /\ AttemptShape' /\ SweptRows'
         /\ \A v \in Workers : wkPc[v] = "ending" =>
              /\ intent'[wkAct[v]] = intent[wkAct[v]] /\ owner'[wkAct[v]] = owner[wkAct[v]]
              /\ tries'[wkAct[v]] = tries[wkAct[v]]
         /\ \A a \in Actions : a \notin claimed => tries'[a] = tries[a] /\ owner'[a] \in {owner[a], None}
         /\ \A a \in claimed : owner'[a] = w /\ tries'[a] = tries[a] + 1
         /\ \A a \in Actions, v \in Workers :
              (/\ v # w /\ wkPc[v] = "sweeping" /\ intent'[a] = "processing"
               /\ attempt'[a][tries'[a]] = "processing" /\ lease'[a] <= wkNow[v]) => a \in wkSwept[v]
<1> USE DEF IInv
<1> DEFINE now  == wkNow[w]
           gone == Exhausted(now)
<1>1. now \in Nat /\ wkPc[w] = "sweeping"
  BY DEF TypeOK, FailAndClaim
<1>2. /\ gone \in SUBSET Actions
      /\ \A a \in gone : intent[a] \in {"pending", "processing"}
      /\ \A a \in claimed : a \notin gone
  BY <1>1, ExhaustedFacts
<1>3. /\ \A a \in gone, v \in Workers : wkPc[v] = "ending" => wkAct[v] # a
      /\ outcome' = [a \in Actions |-> IF a \in gone /\ outcome[a] = "pending"
                                        THEN "failed" ELSE outcome[a]]
      /\ intent'  = [a \in Actions |-> IF a \in claimed THEN "processing"
                                       ELSE IF a \in gone THEN "failed" ELSE intent[a]]
      /\ owner'   = [a \in Actions |-> IF a \in claimed THEN w
                                       ELSE IF a \in gone THEN None ELSE owner[a]]
      /\ lease'   = [a \in Actions |-> IF a \in claimed THEN now + LeaseLength
                                       ELSE IF a \in gone THEN None ELSE lease[a]]
      /\ tries'   = [a \in Actions |-> IF a \in claimed THEN tries[a] + 1 ELSE tries[a]]
      /\ attempt' = [a \in Actions |-> [n \in 1..MaxAttempts |->
           IF a \in wkSwept[w] /\ n = tries[a] THEN "abandoned"
           ELSE IF a \in claimed /\ n = tries[a] + 1 THEN "processing"
           ELSE attempt[a][n]]]
      /\ wkSwept' = [wkSwept EXCEPT ![w] = {}]
      /\ UNCHANGED <<clock, recordVars, nextAt, account, wkNow, wkEnd>>
  BY DEF FailAndClaim, IntentLocked
<1>4. \A a \in claimed :
        /\ tries[a] \in Nat /\ tries[a] + 1 \in 1..MaxAttempts
        /\ intent[a] \in {"pending", "processing"}
        /\ \A v \in Workers : v # w => a \notin wkSwept[v]
        /\ tries[a] >= 1 => a \in wkSwept[w] \/ attempt[a][tries[a]] = "abandoned"
        /\ \A v \in Workers : wkPc[v] = "ending" => wkAct[v] # a
  BY <1>1, ClaimableFacts
<1>5. now + LeaseLength \in Nat /\ now + LeaseLength # None /\ w # None
  BY <1>1, RelyingAssumption
<1> HIDE DEF now, gone
<1>6. \A a \in Actions : tries[a] \in 0..MaxAttempts
  BY DEF TypeOK
<1>7. /\ outcome' \in [Actions -> {"none", "pending", "succeeded", "failed"}]
      /\ intent' \in [Actions -> {"none", "pending", "processing", "completed", "failed"}]
      /\ owner' \in [Actions -> Workers \cup {None}]
      /\ lease' \in [Actions -> Nat \cup {None}]
  BY <1>3, <1>5 DEF TypeOK
<1>8. tries' \in [Actions -> 0..MaxAttempts]
  BY <1>3, <1>4, <1>6, RelyingAssumption
<1>9. attempt' \in [Actions -> [1..MaxAttempts -> AttemptStates]]
  <2>1. \A a \in Actions, n \in 1..MaxAttempts : attempt[a][n] \in AttemptStates
    BY DEF TypeOK
  <2>2. "abandoned" \in AttemptStates /\ "processing" \in AttemptStates
    BY DEF AttemptStates
  <2>3. \A a \in Actions : [n \in 1..MaxAttempts |->
           IF a \in wkSwept[w] /\ n = tries[a] THEN "abandoned"
           ELSE IF a \in claimed /\ n = tries[a] + 1 THEN "processing"
           ELSE attempt[a][n]] \in [1..MaxAttempts -> AttemptStates]
    BY <2>1, <2>2
  <2>4. QED
    BY <1>3, <2>3
<1>10. OutcomeAgrees'
  <2>1. \A a \in Actions :
          /\ outcome'[a] = "none"      <=> accepted'[a] = None
          /\ outcome'[a] = "none"      <=> intent'[a] = "none"
          /\ outcome'[a] = "pending"   <=> intent'[a] \in {"pending", "processing"}
          /\ outcome'[a] = "succeeded" <=> intent'[a] = "completed"
          /\ outcome'[a] = "succeeded" <=> account'[a] # None
          /\ owner'[a] # None <=> intent'[a] = "processing"
          /\ lease'[a] # None <=> intent'[a] = "processing"
    <3> SUFFICES ASSUME NEW a \in Actions
                 PROVE  /\ outcome'[a] = "none"      <=> accepted'[a] = None
                        /\ outcome'[a] = "none"      <=> intent'[a] = "none"
                        /\ outcome'[a] = "pending"   <=> intent'[a] \in {"pending", "processing"}
                        /\ outcome'[a] = "succeeded" <=> intent'[a] = "completed"
                        /\ outcome'[a] = "succeeded" <=> account'[a] # None
                        /\ owner'[a] # None <=> intent'[a] = "processing"
                        /\ lease'[a] # None <=> intent'[a] = "processing"
      OBVIOUS
    <3>1. CASE a \in claimed
      BY <1>2, <1>3, <1>4, <1>5, <3>1 DEF OutcomeAgrees, recordVars
    <3>2. CASE a \in gone
      BY <1>2, <1>3, <3>2 DEF OutcomeAgrees, recordVars
    <3>3. CASE a \notin claimed /\ a \notin gone
      BY <1>3, <3>3 DEF OutcomeAgrees, recordVars
    <3>4. QED
      BY <3>1, <3>2, <3>3
  <2>2. \A p \in Passes : consumed'[p] # None => accepted'[consumed'[p]] # None
    BY <1>3 DEF OutcomeAgrees, recordVars
  <2>3. QED
    BY <2>1, <2>2 DEF OutcomeAgrees
<1>11. \A a \in Actions : \A n \in 1..MaxAttempts :
         attempt'[a][n] = IF a \in wkSwept[w] /\ n = tries[a] THEN "abandoned"
                          ELSE IF a \in claimed /\ n = tries[a] + 1 THEN "processing"
                          ELSE attempt[a][n]
  BY <1>3
<1>12. \A a \in Actions : /\ a \in wkSwept[w] => tries[a] >= 1 /\ intent[a] \in {"processing", "failed"}
                          /\ tries'[a] = IF a \in claimed THEN tries[a] + 1 ELSE tries[a]
                          /\ intent'[a] = IF a \in claimed THEN "processing"
                                          ELSE IF a \in gone THEN "failed" ELSE intent[a]
  BY <1>3 DEF SweptRows
<1>13. AttemptsInTurn'
  <2> SUFFICES ASSUME NEW a \in Actions, NEW n \in 1..MaxAttempts
               PROVE  /\ n < tries'[a] => attempt'[a][n] = "abandoned"
                      /\ n > tries'[a] => attempt'[a][n] = "none"
                      /\ n = tries'[a] /\ intent'[a] \in {"pending", "completed"} =>
                           attempt'[a][n] # "processing"
    BY DEF AttemptsInTurn
  <2>1. tries[a] \in Nat /\ n \in Nat
    BY <1>6, RelyingAssumption
  <2>2. CASE a \in claimed
    BY <1>4, <1>11, <1>12, <2>1, <2>2 DEF AttemptsInTurn
  <2>3. CASE a \notin claimed
    BY <1>11, <1>12, <2>1, <2>3 DEF AttemptsInTurn
  <2>4. QED
    BY <2>2, <2>3
<1>14. AttemptShape'
  <2> SUFFICES ASSUME NEW a \in Actions
               PROVE  /\ intent'[a] = "none" => tries'[a] = 0
                      /\ intent'[a] = "pending" /\ tries'[a] >= 1 => attempt'[a][tries'[a]] = "abandoned"
                      /\ intent'[a] = "processing" =>
                           tries'[a] >= 1 /\ attempt'[a][tries'[a]] \in {"processing", "abandoned"}
    BY DEF AttemptShape
  <2>1. tries[a] \in Nat /\ (tries[a] >= 1 => tries[a] \in 1..MaxAttempts)
    BY <1>6, RelyingAssumption
  <2>2. CASE a \in claimed
    <3>1. tries'[a] = tries[a] + 1 /\ attempt'[a][tries[a] + 1] = "processing"
      BY <1>4, <1>11, <1>12, <2>1, <2>2
    <3>2. QED
      BY <1>12, <2>1, <2>2, <3>1
  <2>3. CASE a \notin claimed
    BY <1>11, <1>12, <2>1, <2>3 DEF AttemptShape
  <2>4. QED
    BY <2>2, <2>3
<1>15. SweptRows'
  <2>1. \A v \in Workers : wkSwept'[v] = IF v = w THEN {} ELSE wkSwept[v]
    BY <1>3 DEF TypeOK
  <2>2. ASSUME NEW v \in Workers, NEW a \in wkSwept'[v]
        PROVE  /\ intent'[a] \in {"processing", "failed"} /\ tries'[a] >= 1
               /\ attempt'[a][tries'[a]] = "processing"
    <3>1. v # w /\ a \in wkSwept[v] /\ a \in Actions
      BY <2>1, <2>2 DEF TypeOK
    <3>2. a \notin claimed /\ a \notin wkSwept[w]
      BY <1>4, <3>1 DEF SweptRows
    <3>3. tries[a] \in 1..MaxAttempts
      BY <1>6, <3>1, RelyingAssumption DEF SweptRows
    <3>4. QED
      BY <1>11, <1>12, <3>1, <3>2, <3>3 DEF SweptRows
  <2>3. \A v, u \in Workers : v # u => wkSwept'[v] \cap wkSwept'[u] = {}
    BY <2>1 DEF SweptRows
  <2>4. QED
    BY <2>2, <2>3 DEF SweptRows
<1>16. \A v \in Workers : wkPc[v] = "ending" =>
         /\ intent'[wkAct[v]] = intent[wkAct[v]] /\ owner'[wkAct[v]] = owner[wkAct[v]]
         /\ tries'[wkAct[v]] = tries[wkAct[v]]
  BY <1>3, <1>4 DEF WorkerShape
<1>17. /\ \A a \in Actions : a \notin claimed => tries'[a] = tries[a] /\ owner'[a] \in {owner[a], None}
       /\ \A a \in claimed : owner'[a] = w /\ tries'[a] = tries[a] + 1
  BY <1>3
<1>18. ASSUME NEW a \in Actions, NEW v \in Workers, v # w, wkPc[v] = "sweeping",
              intent'[a] = "processing", attempt'[a][tries'[a]] = "processing", lease'[a] <= wkNow[v]
       PROVE  a \in wkSwept[v]
  <2>1. CASE a \in claimed
    <3>1. lease'[a] = now + LeaseLength
      BY <1>3, <2>1
    <3>2. clock \in Nat /\ wkNow[v] \in Nat /\ wkNow[v] <= clock /\ clock <= now + MaxOpen
      BY <1>1 DEF TypeOK, ReadingShape, now
    <3>3. QED
      BY <1>1, <1>18, <3>1, <3>2, RelyingAssumption
  <2>2. CASE a \notin claimed
    <3>1. intent[a] = "processing" /\ tries'[a] = tries[a] /\ lease'[a] = lease[a]
      BY <1>3, <1>12, <1>18, <2>2
    <3>2. tries[a] \in 1..MaxAttempts
      BY <1>6, <3>1, RelyingAssumption DEF AttemptShape
    <3>3. attempt[a][tries[a]] = "processing"
      BY <1>11, <1>18, <2>2, <3>1, <3>2
    <3>4. QED
      BY <1>18, <3>1, <3>3 DEF SweptAll
  <2>3. QED
    BY <2>1, <2>2
<1>19. QED
  BY <1>3, <1>7, <1>8, <1>9, <1>10, <1>13, <1>14, <1>15, <1>16, <1>17, <1>18

\* The transaction that claims nothing keeps the invariant.
LEMMA ClaimNothingStep ==
  ASSUME IInv, NEW w \in Workers, ClaimNothing(w)
  PROVE  IInv'
<1> USE DEF IInv
<1>1. /\ FailAndClaim(w, {}) /\ wkPc' = [wkPc EXCEPT ![w] = "idle"] /\ UNCHANGED <<wkAct, wkTry>>
      /\ wkPc[w] = "sweeping"
  BY DEF ClaimNothing, FailAndClaim
<1>2. /\ UNCHANGED <<clock, recordVars, nextAt, account, wkNow, wkEnd>>
      /\ wkSwept' = [wkSwept EXCEPT ![w] = {}]
  BY <1>1 DEF FailAndClaim
<1>3. TypeOK'
  <2>1. /\ outcome' \in [Actions -> {"none", "pending", "succeeded", "failed"}]
        /\ intent' \in [Actions -> {"none", "pending", "processing", "completed", "failed"}]
        /\ tries' \in [Actions -> 0..MaxAttempts]
        /\ owner' \in [Actions -> Workers \cup {None}]
        /\ lease' \in [Actions -> Nat \cup {None}]
        /\ attempt' \in [Actions -> [1..MaxAttempts -> AttemptStates]]
    BY <1>1, FailAndClaimFacts
  <2>2. QED
    BY <1>1, <1>2, <2>1 DEF TypeOK, recordVars
<1>4. OutcomeAgrees' /\ AttemptsInTurn' /\ AttemptShape' /\ SweptRows'
  BY <1>1, FailAndClaimFacts
<1>5. OneEnding'
  <2>1. \A v \in Workers : wkPc[v] = "ending" =>
          /\ intent'[wkAct[v]] = intent[wkAct[v]] /\ owner'[wkAct[v]] = owner[wkAct[v]]
          /\ tries'[wkAct[v]] = tries[wkAct[v]]
    BY <1>1, FailAndClaimFacts
  <2>2. \A v \in Workers : wkPc'[v] = "ending" => wkPc[v] = "ending"
    BY <1>1 DEF TypeOK
  <2>3. wkAct' = wkAct /\ wkTry' = wkTry
    BY <1>1
  <2>4. QED
    BY <2>1, <2>2, <2>3 DEF OneEnding
<1>6. WorkerShape'
  <2>1. \A a \in Actions : tries'[a] = tries[a] /\ owner'[a] \in {owner[a], None}
    BY <1>1, FailAndClaimFacts
  <2>2. QED
    BY <1>1, <1>2, <2>1, RelyingAssumption DEF TypeOK, WorkerShape
<1>7. ReadingShape'
  BY <1>1, <1>2 DEF TypeOK, ReadingShape
<1>8. SweptAll'
  <2>1. \A a \in Actions, v \in Workers :
          (/\ v # w /\ wkPc[v] = "sweeping" /\ intent'[a] = "processing"
           /\ attempt'[a][tries'[a]] = "processing" /\ lease'[a] <= wkNow[v]) => a \in wkSwept[v]
    BY <1>1, FailAndClaimFacts
  <2>2. QED
    BY <1>1, <1>2, <2>1 DEF TypeOK, SweptAll
<1>9. QED
  BY <1>3, <1>4, <1>5, <1>6, <1>7, <1>8

\* A claim, fresh or taken over, keeps the invariant: it ends the earlier attempt and
\* makes the claiming worker the owner of the next.
LEMMA ClaimActionStep ==
  ASSUME IInv, NEW w \in Workers, NEW a \in Actions, ClaimAction(w, a)
  PROVE  IInv'
<1> USE DEF IInv
<1>1. /\ FailAndClaim(w, {a}) /\ Claimable(a, wkNow[w]) /\ wkPc[w] = "sweeping"
      /\ wkPc'  = [wkPc EXCEPT ![w] = "claimed"]
      /\ wkAct' = [wkAct EXCEPT ![w] = a]
      /\ wkTry' = [wkTry EXCEPT ![w] = tries[a] + 1]
  BY DEF ClaimAction, FailAndClaim
<1>2. /\ UNCHANGED <<clock, recordVars, nextAt, account, wkNow, wkEnd>>
      /\ wkSwept' = [wkSwept EXCEPT ![w] = {}]
  BY <1>1 DEF FailAndClaim
<1>3. tries[a] + 1 \in 0..MaxAttempts
  BY <1>1, ClaimableFacts, RelyingAssumption
<1>4. TypeOK'
  <2>1. /\ outcome' \in [Actions -> {"none", "pending", "succeeded", "failed"}]
        /\ intent' \in [Actions -> {"none", "pending", "processing", "completed", "failed"}]
        /\ tries' \in [Actions -> 0..MaxAttempts]
        /\ owner' \in [Actions -> Workers \cup {None}]
        /\ lease' \in [Actions -> Nat \cup {None}]
        /\ attempt' \in [Actions -> [1..MaxAttempts -> AttemptStates]]
    BY <1>1, FailAndClaimFacts
  <2>2. QED
    BY <1>1, <1>2, <1>3, <2>1 DEF TypeOK, recordVars
<1>5. OutcomeAgrees' /\ AttemptsInTurn' /\ AttemptShape' /\ SweptRows'
  BY <1>1, FailAndClaimFacts
<1>6. OneEnding'
  <2> SUFFICES ASSUME NEW v \in Workers, wkPc'[v] = "ending"
               PROVE  /\ intent'[wkAct'[v]] = "processing" /\ owner'[wkAct'[v]] = v
                      /\ tries'[wkAct'[v]] = wkTry'[v]
    BY DEF OneEnding
  <2>1. wkPc[v] = "ending" /\ wkAct'[v] = wkAct[v] /\ wkTry'[v] = wkTry[v]
    BY <1>1 DEF TypeOK
  <2>2. QED
    BY <1>1, <2>1, FailAndClaimFacts DEF OneEnding
<1>7. WorkerShape'
  <2>1. /\ \A b \in Actions : b # a => tries'[b] = tries[b] /\ owner'[b] \in {owner[b], None}
        /\ owner'[a] = w /\ tries'[a] = tries[a] + 1
    BY <1>1, FailAndClaimFacts
  <2>2. QED
    <3> SUFFICES ASSUME NEW v \in Workers
                 PROVE  /\ wkPc'[v] \in {"claimed", "ending"} => wkAct'[v] \in Actions
                        /\ wkPc'[v] \in {"claimed", "ending"} /\ owner'[wkAct'[v]] = v => tries'[wkAct'[v]] = wkTry'[v]
                        /\ wkPc'[v] = "ending" => wkEnd'[v] # "none"
      BY DEF WorkerShape
    <3>1. CASE v = w
      BY <1>1, <2>1, <3>1 DEF TypeOK
    <3>2. CASE v # w
      <4>1. wkPc'[v] = wkPc[v] /\ wkAct'[v] = wkAct[v] /\ wkTry'[v] = wkTry[v] /\ wkEnd'[v] = wkEnd[v]
        BY <1>1, <1>2, <3>2 DEF TypeOK
      <4>2. v # None
        BY RelyingAssumption
      <4>3. QED
        BY <2>1, <3>2, <4>1, <4>2 DEF WorkerShape
    <3>3. QED
      BY <3>1, <3>2
<1>8. ReadingShape'
  BY <1>1, <1>2 DEF TypeOK, ReadingShape
<1>9. SweptAll'
  <2>1. \A b \in Actions, v \in Workers :
          (/\ v # w /\ wkPc[v] = "sweeping" /\ intent'[b] = "processing"
           /\ attempt'[b][tries'[b]] = "processing" /\ lease'[b] <= wkNow[v]) => b \in wkSwept[v]
    BY <1>1, FailAndClaimFacts
  <2>2. QED
    BY <1>1, <1>2, <2>1 DEF TypeOK, SweptAll
<1>10. QED
  BY <1>4, <1>5, <1>6, <1>7, <1>8, <1>9

\* Giving up, being rolled back and crashing move only the worker, out of its transaction.
LEMMA LeaveStep ==
  ASSUME IInv, NEW w \in Workers, ExecutionUnavailable(w) \/ DeadlockVictim(w) \/ CrashWorker(w)
  PROVE  IInv'
<1> USE DEF IInv, recordVars, intentVars
<1>1. /\ wkPc' \in {[wkPc EXCEPT ![w] = "idle"], [wkPc EXCEPT ![w] = "dead"]}
      /\ wkSwept' = [wkSwept EXCEPT ![w] = {}]
      /\ UNCHANGED <<clock, recordVars, outcome, intentVars, attempt, account,
                     wkAct, wkTry, wkNow, wkEnd>>
  <2>1. CASE ExecutionUnavailable(w)
    <3>1. wkSwept[w] = {}
      BY <2>1 DEF ExecutionUnavailable, ReadingShape
    <3>2. wkSwept = [wkSwept EXCEPT ![w] = {}]
      BY <3>1 DEF TypeOK
    <3>3. QED
      BY <2>1, <3>2 DEF ExecutionUnavailable
  <2>2. CASE DeadlockVictim(w) \/ CrashWorker(w)
    BY <2>2 DEF DeadlockVictim, CrashWorker
  <2>3. QED
    BY <2>1, <2>2
<1>2. TypeOK'
  BY <1>1 DEF TypeOK
<1>3. OutcomeAgrees' /\ AttemptsInTurn' /\ AttemptShape'
  BY <1>1 DEF OutcomeAgrees, AttemptsInTurn, AttemptShape
<1>4. OneEnding' /\ WorkerShape'
  BY <1>1 DEF TypeOK, OneEnding, WorkerShape
<1>5. ReadingShape'
  BY <1>1 DEF TypeOK, ReadingShape
<1>6. SweptRows'
  <2>1. \A v \in Workers : wkSwept'[v] = IF v = w THEN {} ELSE wkSwept[v]
    BY <1>1 DEF TypeOK
  <2>2. QED
    BY <1>1, <2>1 DEF SweptRows
<1>7. SweptAll'
  BY <1>1 DEF TypeOK, SweptAll
<1>8. QED
  BY <1>2, <1>3, <1>4, <1>5, <1>6, <1>7

\* The guarded write of the intent row keeps the invariant: only the owner passes it.
LEMMA EndAttemptStep ==
  ASSUME IInv, NEW w \in Workers, NEW end \in {"completed", "failed", "pending"},
         NEW done \in Readings, EndAttempt(w, end, done)
  PROVE  IInv'
<1> USE DEF IInv, EndAttempt, recordVars, intentVars
<1>1. done \in Nat /\ done <= clock
  BY DEF Readings, TypeOK
<1>2. TypeOK'
  BY <1>1 DEF TypeOK
<1>3. OutcomeAgrees' /\ AttemptsInTurn' /\ AttemptShape'
  BY DEF OutcomeAgrees, AttemptsInTurn, AttemptShape
<1>4. OneEnding' /\ WorkerShape'
  BY DEF TypeOK, OneEnding, WorkerShape, HoldsExecutionLease
<1>5. ReadingShape'
  BY <1>1 DEF TypeOK, ReadingShape
<1>6. SweptRows' /\ SweptAll'
  BY DEF TypeOK, SweptRows, SweptAll
<1>7. QED
  BY <1>2, <1>3, <1>4, <1>5, <1>6

\* The commit that ends an attempt keeps the invariant: the worker owns the action, and
\* nobody holds its attempt row.
LEMMA CommitAttemptStep ==
  ASSUME IInv, NEW w \in Workers, CommitAttempt(w)
  PROVE  IInv'
<1> USE DEF IInv
<1> DEFINE a == wkAct[w]
           end == wkEnd[w]
           n == wkTry[w]
           ended == EndedAttempt(attempt[a][n], end)
<1>1. /\ a \in Actions /\ wkPc[w] = "ending" /\ end \in {"completed", "failed", "pending"}
      /\ intent[a] = "processing" /\ owner[a] = w /\ tries[a] = n
      /\ outcome[a] = "pending" /\ account[a] = None /\ accepted[a] # None
  BY DEF CommitAttempt, TypeOK, WorkerShape, OneEnding, OutcomeAgrees
<1>2. n \in 1..MaxAttempts /\ attempt[a][n] \in {"processing", "abandoned"}
  BY <1>1, RelyingAssumption DEF TypeOK, AttemptShape
<1>3. /\ \A v \in Workers : a \notin wkSwept[v]
      /\ intent' = [intent EXCEPT ![a] = end]
      /\ owner'  = [owner EXCEPT ![a] = None]
      /\ lease'  = [lease EXCEPT ![a] = None]
      /\ nextAt' = [nextAt EXCEPT ![a] = IF end = "pending" THEN wkNow[w] + 1 ELSE nextAt[a]]
      /\ account' = [account EXCEPT ![a] = IF end = "completed" THEN w ELSE None]
      /\ attempt' = [attempt EXCEPT ![a][n] = ended]
      /\ wkPc' = [wkPc EXCEPT ![w] = "idle"]
      /\ UNCHANGED <<clock, recordVars, tries, wkAct, wkTry, wkNow, wkSwept, wkEnd>>
  BY <1>1 DEF CommitAttempt, AttemptLocked, AccountFor
<1>4. outcome' = [outcome EXCEPT ![a] = IF end = "completed" THEN "succeeded"
                                        ELSE IF end = "failed" THEN "failed" ELSE "pending"]
  BY <1>1 DEF CommitAttempt
<1>5. ended \in {"succeeded", "abandoned"} /\ (end # "completed" => ended = "abandoned")
  BY <1>1, <1>2 DEF EndedAttempt
<1> HIDE DEF a, end, n, ended
<1>6. \A b \in Actions : \A k \in 1..MaxAttempts :
        attempt'[b][k] = IF b = a /\ k = n THEN ended ELSE attempt[b][k]
  BY <1>1, <1>2, <1>3 DEF TypeOK
<1>7. TypeOK'
  <2>1. attempt' \in [Actions -> [1..MaxAttempts -> AttemptStates]]
    BY <1>1, <1>2, <1>3, <1>5 DEF TypeOK, AttemptStates
  <2>2. wkNow[w] + 1 \in Nat
    BY DEF TypeOK
  <2>3. nextAt' \in [Actions -> Nat]
    BY <1>1, <1>3, <2>2 DEF TypeOK
  <2>4. QED
    BY <1>1, <1>3, <1>4, <2>1, <2>3 DEF TypeOK, recordVars
<1>8. OutcomeAgrees'
  BY <1>1, <1>3, <1>4, RelyingAssumption DEF TypeOK, OutcomeAgrees, recordVars
<1>9. OneEnding' /\ WorkerShape'
  BY <1>1, <1>3, RelyingAssumption DEF TypeOK, OneEnding, WorkerShape
<1>10. AttemptsInTurn'
  BY <1>1, <1>3, <1>5, <1>6, RelyingAssumption DEF TypeOK, AttemptsInTurn
<1>11. AttemptShape'
  <2> SUFFICES ASSUME NEW b \in Actions
               PROVE  /\ intent'[b] = "none" => tries'[b] = 0
                      /\ intent'[b] = "pending" /\ tries'[b] >= 1 => attempt'[b][tries'[b]] = "abandoned"
                      /\ intent'[b] = "processing" =>
                           tries'[b] >= 1 /\ attempt'[b][tries'[b]] \in {"processing", "abandoned"}
    BY DEF AttemptShape
  <2>1. tries[b] \in Nat /\ (tries[b] >= 1 => tries[b] \in 1..MaxAttempts)
    BY RelyingAssumption DEF TypeOK
  <2>2. CASE b = a
    BY <1>1, <1>2, <1>3, <1>5, <1>6, <2>1, <2>2 DEF TypeOK
  <2>3. CASE b # a
    BY <1>1, <1>3, <1>6, <2>1, <2>3 DEF TypeOK, AttemptShape
  <2>4. QED
    BY <2>2, <2>3
<1>12. ReadingShape'
  BY <1>1, <1>3 DEF TypeOK, ReadingShape
<1>13. SweptRows'
  <2>1. ASSUME NEW v \in Workers, NEW b \in wkSwept'[v]
        PROVE  /\ intent'[b] \in {"processing", "failed"} /\ tries'[b] >= 1
               /\ attempt'[b][tries'[b]] = "processing"
    <3>1. b \in wkSwept[v] /\ b \in Actions /\ b # a
      BY <1>3, <2>1 DEF TypeOK
    <3>2. tries[b] \in 1..MaxAttempts
      BY <3>1, RelyingAssumption DEF TypeOK, SweptRows
    <3>3. QED
      BY <1>1, <1>3, <1>6, <3>1, <3>2 DEF TypeOK, SweptRows
  <2>2. QED
    BY <1>3, <2>1 DEF SweptRows
<1>14. SweptAll'
  <2> SUFFICES ASSUME NEW v \in Workers, NEW b \in Actions, wkPc'[v] = "sweeping",
                      intent'[b] = "processing", attempt'[b][tries'[b]] = "processing",
                      lease'[b] <= wkNow'[v]
               PROVE  b \in wkSwept'[v]
    BY DEF SweptAll
  <2>1. b # a /\ v # w
    BY <1>1, <1>3 DEF TypeOK
  <2>2. intent[b] = "processing" /\ lease'[b] = lease[b] /\ wkPc[v] = "sweeping"
    BY <1>1, <1>3, <2>1 DEF TypeOK
  <2>3. tries[b] \in 1..MaxAttempts
    BY <2>2, RelyingAssumption DEF TypeOK, AttemptShape
  <2>4. attempt[b][tries[b]] = "processing"
    BY <1>3, <1>6, <2>1, <2>3
  <2>5. QED
    BY <1>3, <2>2, <2>4 DEF SweptAll
<1>15. QED
  BY <1>7, <1>8, <1>9, <1>10, <1>11, <1>12, <1>13, <1>14

-----------------------------------------------------------------------------
\* The theorems.

\* Every step of the service keeps the inductive invariant.
LEMMA NextIInv ==
  ASSUME IInv, [Next]_vars
  PROVE  IInv'
<1>1. CASE UNCHANGED vars
  BY <1>1 DEF IInv, vars, recordVars, intentVars, workerVars, TypeOK, OutcomeAgrees, OneEnding,
     AttemptsInTurn, AttemptShape, WorkerShape, ReadingShape, SweptRows, SweptAll
<1>2. CASE Tick
  BY <1>2, TickStep
<1>3. ASSUME NEW a \in Actions, InsertProtectedAction(a)
      PROVE  IInv'
  BY <1>3, InsertProtectedActionStep
<1>4. ASSUME NEW p \in Passes, NEW now \in Readings, Redeem(p, now)
      PROVE  IInv'
  BY <1>4, RedeemStep
<1>5. ASSUME NEW w \in Workers, WorkerStep(w) \/ CrashWorker(w)
      PROVE  IInv'
  BY <1>5, SweepAttemptsStep, ClaimNothingStep, ClaimActionStep, LeaveStep, EndAttemptStep,
     CommitAttemptStep DEF WorkerStep
<1>6. QED
  BY <1>1, <1>2, <1>3, <1>4, <1>5 DEF Next

\* The inductive invariant holds in every reachable state, for every number of actions,
\* passes and workers, every attempt limit and every lag that RelyingAssumption admits.
THEOREM Invariance == Spec => []IInv
<1>1. QED
  BY InitIInv, NextIInv, PTL DEF Spec

\* The outcome, the intent, the account and the redemption record of an action always tell
\* one story (redeem, maybe_claim_action, complete_action, fail_action).
THEOREM OutcomeAgreement == Spec => []OutcomeAgrees
<1>1. IInv => OutcomeAgrees
  BY DEF IInv
<1>2. QED
  BY <1>1, Invariance, PTL

\* Attempts are bounded, run one after another and end under their owner, for any number of
\* workers that crash, deadlock and take over (maybe_claim_action, complete_action).
THEOREM AttemptsSoundness == Spec => []AttemptsSound
<1>1. IInv => AttemptsSound
  BY DEF IInv, AttemptsSound
<1>2. QED
  BY <1>1, Invariance, PTL

-----------------------------------------------------------------------------
\* The refinement.

\* The empty database shows the Protected Action its initial state.
LEMMA InitRefines == Init => Once!ActionInit
BY DEF Init, Once!ActionInit

\* A step that keeps the outcomes, the accounts and the spent passes is invisible.
LEMMA InvisibleStep ==
  ASSUME UNCHANGED <<outcome, account, consumed>>
  PROVE  UNCHANGED Once!actionVars
BY DEF Once!actionVars

\* A redemption spends its pass, once, and opens the outcome of an action that had none.
LEMMA RedeemRefines ==
  ASSUME IInv, NEW p \in Passes, NEW now \in Readings, Redeem(p, now)
  PROVE  Once!Accept(p)
<1> USE DEF IInv
<1> DEFINE a == PassFor[p]
<1>1. a \in Actions /\ a # None
  BY RelyingAssumption
<1>2. consumed[p] = None /\ consumed' = [consumed EXCEPT ![p] = a] /\ account' = account
  BY DEF Redeem, Redeemable
<1>3. [q \in Passes |-> consumed'[q] # None]
        = [[q \in Passes |-> consumed[q] # None] EXCEPT ![p] = TRUE]
  BY <1>1, <1>2 DEF TypeOK
<1>4. outcome' = [outcome EXCEPT ![a] = IF outcome[a] = "none" THEN "pending" ELSE outcome[a]]
  BY <1>1 DEF TypeOK, OutcomeAgrees, Redeem, InsertRedemption
<1>5. QED
  BY <1>2, <1>3, <1>4 DEF Once!Accept

\* The end of a claim transaction fails the exhausted actions, all of them pending.
LEMMA FailAndClaimRefines ==
  ASSUME IInv, NEW w \in Workers, NEW claimed \in SUBSET Actions, FailAndClaim(w, claimed)
  PROVE  \E S \in SUBSET Actions : Once!Fail(S)
<1> DEFINE gone == Exhausted(wkNow[w])
<1>1. wkNow[w] \in Nat
  BY DEF IInv, TypeOK
<1>2. gone \in SUBSET Actions /\ \A a \in gone : intent[a] \in {"pending", "processing"}
  BY <1>1, ExhaustedFacts
<1>3. \A a \in gone : outcome[a] = "pending"
  BY <1>2 DEF IInv, OutcomeAgrees
<1>4. /\ outcome' = [a \in Actions |-> IF a \in gone /\ outcome[a] = "pending"
                                        THEN "failed" ELSE outcome[a]]
      /\ account' = account /\ consumed' = consumed
  BY DEF FailAndClaim, recordVars
<1> HIDE DEF gone
<1>5. outcome' = [a \in Actions |-> IF a \in gone THEN "failed" ELSE outcome[a]]
  BY <1>3, <1>4
<1>6. Once!Fail(gone)
  BY <1>3, <1>4, <1>5 DEF Once!Fail
<1>7. QED
  BY <1>2, <1>6

\* A commit succeeds with its account, fails for good, or leaves the action pending.
LEMMA CommitAttemptRefines ==
  ASSUME IInv, NEW w \in Workers, CommitAttempt(w)
  PROVE  Once!ActionNext \/ UNCHANGED Once!actionVars
<1> USE DEF IInv
<1> DEFINE a == wkAct[w]
           end == wkEnd[w]
<1>1. /\ a \in Actions /\ end \in {"completed", "failed", "pending"}
      /\ outcome[a] = "pending" /\ account[a] = None
  BY DEF CommitAttempt, TypeOK, WorkerShape, OneEnding, OutcomeAgrees
<1>2. /\ outcome' = [outcome EXCEPT ![a] =
           IF end = "completed" THEN "succeeded"
           ELSE IF end = "failed" /\ outcome[a] = "pending" THEN "failed" ELSE outcome[a]]
      /\ account' = [account EXCEPT ![a] = AccountFor(a, w, end)]
      /\ consumed' = consumed
  BY DEF CommitAttempt, recordVars
<1> HIDE DEF a, end
<1>3. CASE end = "completed"
  <2>1. Once!Succeed(a, w)
    BY <1>1, <1>2, <1>3 DEF Once!Succeed, AccountFor
  <2>2. QED
    BY <1>1, <2>1 DEF Once!ActionNext
<1>4. CASE end = "failed"
  <2>1. account' = account
    BY <1>1, <1>2, <1>4 DEF AccountFor, TypeOK
  <2>2. outcome' = [b \in Actions |-> IF b \in {a} THEN "failed" ELSE outcome[b]]
    BY <1>1, <1>2, <1>4 DEF TypeOK
  <2>3. Once!Fail({a})
    BY <1>1, <1>2, <2>1, <2>2 DEF Once!Fail
  <2>4. QED
    BY <1>1, <2>3 DEF Once!ActionNext
<1>5. CASE end = "pending"
  <2>1. account' = account /\ outcome' = outcome
    BY <1>1, <1>2, <1>5 DEF AccountFor, TypeOK
  <2>2. QED
    BY <1>2, <2>1, InvisibleStep
<1>6. QED
  BY <1>1, <1>3, <1>4, <1>5

\* Every step of the service is a step of the Protected Action or invisible to it.
LEMMA NextRefines ==
  ASSUME IInv, [Next]_vars
  PROVE  [Once!ActionNext]_(Once!actionVars)
<1>1. CASE UNCHANGED vars \/ Tick
  BY <1>1, InvisibleStep DEF vars, Tick, recordVars
<1>2. ASSUME NEW a \in Actions, InsertProtectedAction(a)
      PROVE  UNCHANGED Once!actionVars
  BY <1>2, InvisibleStep DEF InsertProtectedAction
<1>3. ASSUME NEW p \in Passes, NEW now \in Readings, Redeem(p, now)
      PROVE  Once!ActionNext
  BY <1>3, RedeemRefines DEF Once!ActionNext
<1>4. ASSUME NEW w \in Workers, WorkerStep(w) \/ CrashWorker(w)
      PROVE  Once!ActionNext \/ UNCHANGED Once!actionVars
  <2>1. ASSUME NEW now \in Readings, SweepAttempts(w, now)
        PROVE  UNCHANGED Once!actionVars
    BY <2>1, InvisibleStep DEF SweepAttempts, recordVars
  <2>2. CASE ClaimNothing(w)
    BY <2>2, FailAndClaimRefines DEF ClaimNothing, Once!ActionNext
  <2>3. ASSUME NEW a \in Actions, ClaimAction(w, a)
        PROVE  Once!ActionNext
    BY <2>3, FailAndClaimRefines DEF ClaimAction, Once!ActionNext
  <2>4. CASE ExecutionUnavailable(w) \/ DeadlockVictim(w) \/ CrashWorker(w)
    BY <2>4, InvisibleStep DEF ExecutionUnavailable, DeadlockVictim, CrashWorker, recordVars
  <2>5. ASSUME NEW end, NEW done, EndAttempt(w, end, done)
        PROVE  UNCHANGED Once!actionVars
    BY <2>5, InvisibleStep DEF EndAttempt, recordVars
  <2>6. QED
    BY <1>4, <2>1, <2>2, <2>3, <2>4, <2>5, CommitAttemptRefines DEF WorkerStep
<1>5. QED
  BY <1>1, <1>2, <1>3, <1>4 DEF Next

\* The service implements the once-only Protected Action for any number of redemptions,
\* workers, retries, takeovers, deadlocks and crashes.
THEOREM Refinement == Spec => ImplementsOnce
<1>1. QED
  BY InitRefines, NextRefines, Invariance, PTL DEF Spec, ImplementsOnce, Once!ActionSpec
=============================================================================
