--------------------------- MODULE Runtime_proofs ---------------------------
(***************************************************************************)
(* Proofs about what the runtime of a sovereign app runs beside the        *)
(* pairing: the race of routes, the accept loop of the desktop's Iroh      *)
(* node, and the registry that starts and stops the modules.               *)
(***************************************************************************)
EXTENDS RoutePolicy, IrohSessions, ModuleRegistry, DataLemmas, FiniteSetTheorems, TLAPS

-----------------------------------------------------------------------------
(* RoutePolicy, for any number of overlapping operations and routes and any *)
(* options: a failed authentication ends the operation, a failed operation *)
(* leaves nothing behind, and the health the operations share never opens a *)
(* circuit without the failures for it.                                    *)

Over == {"idle", "failed"}

-----------------------------------------------------------------------------
(* The inductive invariant, route by route and operation by operation.     *)

(* Only the routes of the current batch are at work, or have failed to     *)
(* authenticate; a session is open only where somebody will look at it.    *)
RouteInv(o, r) ==
  /\ status[o] = "idle" => attempt[o][r] = NotTried
  /\ r \notin batch[o] => /\ attempt[o][r].pc \in Over
                          /\ attempt[o][r].failure # "auth_failure"
  /\ attempt[o][r].session = "open" => attempt[o][r].pc \in {"closing", "returned"}
  /\ attempt[o][r].pc = "closing" => status[o] = "decided"
  /\ attempt[o][r].pc = "returned" => winner[o] # NoRoute
  /\ attempt[o][r].pc \in {"trusting", "delaying"} => attempt[o][r].tries < MaxAttempts
  /\ status[o] \in Verdict => attempt[o][r].pc \in Over
  /\ attempt[o][r].pc = "failed" => attempt[o][r].failure # "none"
  /\ status[o] \in Verdict \ {"auth_failure"} =>
       attempt[o][r].failure # "auth_failure"

OperationInv(o) ==
  /\ status[o] = "idle" \/ status[o] \in Verdict => winner[o] = NoRoute
  /\ status[o] = "decided" => winner[o] # NoRoute

IInv ==
  /\ TypeOK
  /\ \A o \in Operation : OperationInv(o)
  /\ \A o \in Operation, r \in Route : RouteInv(o, r)

LEMMA NotTriedIsAttempt == NotTried \in AttemptState
BY PolicyAssumption DEF NotTried, AttemptState, PolicyAssumption

LEMMA InitInvariant == Init => IInv
<1> SUFFICES ASSUME Init PROVE IInv
  OBVIOUS
<1>1. TypeOK
  <2>1. 0 \in 0 .. Threshold
    BY PolicyAssumption DEF PolicyAssumption
  <2> QED BY <2>1, NotTriedIsAttempt DEF Init, TypeOK
<1>2. ASSUME NEW o \in Operation PROVE OperationInv(o)
  BY DEF Init, OperationInv, Verdict, Failure
<1>3. ASSUME NEW o \in Operation, NEW r \in Route PROVE RouteInv(o, r)
  BY DEF Init, RouteInv, NotTried, Over, Verdict, Failure
<1> QED
  BY <1>1, <1>2, <1>3 DEF IInv

-----------------------------------------------------------------------------
(* What a step of an attempt does: it gives one attempt, that was at work, *)
(* a new state.                                                            *)

LEMMA FailShape ==
  ASSUME TypeOK, NEW o \in Operation, NEW r \in Route,
         NEW f \in Failure, Fail(o, r, f)
  PROVE  \E n \in AttemptState :
           /\ attempt' = [attempt EXCEPT ![o][r] = n]
           /\ n.pc = "failed" /\ n.session = attempt[o][r].session /\ n.failure # "none"
<1> DEFINE n == [attempt[o][r] EXCEPT !.pc = "failed", !.failure = f]
<1>1. attempt[o][r] \in AttemptState
  BY DEF TypeOK
<1>2. /\ n \in AttemptState /\ n.pc = "failed" /\ n.session = attempt[o][r].session
      /\ n.failure # "none"
  BY <1>1 DEF AttemptState, Failure
<1>3. attempt' = [attempt EXCEPT ![o][r] = n]
  BY DEF Fail, Set
<1> QED BY <1>2, <1>3

LEMMA TryShape ==
  ASSUME TypeOK, PolicyAssumption, NEW o \in Operation, NEW r \in Route, Try(o, r),
         attempt[o][r].tries < MaxAttempts
  PROVE  \E n \in AttemptState :
           /\ attempt' = [attempt EXCEPT ![o][r] = n]
           /\ n.pc \in {"connecting", "failed"} /\ n.session = attempt[o][r].session
           /\ n.pc = "failed" => n.failure # "none"
<1>1. CASE Aborted(o)
  <2>1. Fail(o, r, "cancelled") /\ "cancelled" \in Failure
    BY <1>1 DEF Try, Failure
  <2> QED BY <2>1, FailShape
<1>2. CASE ~Aborted(o)
  <2> DEFINE n == [attempt[o][r] EXCEPT !.pc = "connecting", !.tries = @ + 1]
  <2>1. attempt[o][r] \in AttemptState
    BY DEF TypeOK
  <2>2. attempt[o][r].tries + 1 \in 0 .. MaxAttempts
    BY <2>1 DEF AttemptState, PolicyAssumption
  <2>3. n \in AttemptState /\ n.pc = "connecting" /\ n.session = attempt[o][r].session
    BY <2>1, <2>2 DEF AttemptState
  <2>4. attempt' = [attempt EXCEPT ![o][r] = n]
    BY <1>2 DEF Try, Set
  <2> QED BY <2>3, <2>4
<1> QED BY <1>1, <1>2

LEMMA CaughtShape ==
  ASSUME TypeOK, NEW o \in Operation, NEW r \in Route,
         NEW f \in Failure,
         NEW s \in {"none", "open", "closed"}, Caught(o, r, f, s)
  PROVE  \E n \in AttemptState :
           /\ attempt' = [attempt EXCEPT ![o][r] = n]
           /\ n.pc \in {"delaying", "failed"} /\ n.session = s
           /\ n.pc = "delaying" => n.tries < MaxAttempts
           /\ n.pc = "failed" => n.failure # "none"
<1> DEFINE retry == f # "auth_failure" /\ attempt[o][r].tries < MaxAttempts
           n == [attempt[o][r] EXCEPT !.pc = IF retry THEN "delaying" ELSE "failed",
                                      !.failure = IF retry THEN "none" ELSE f,
                                      !.session = s]
<1>1. attempt[o][r] \in AttemptState
  BY DEF TypeOK
<1>2. /\ n \in AttemptState /\ n.pc \in {"delaying", "failed"} /\ n.session = s
      /\ n.pc = "delaying" => n.tries < MaxAttempts
      /\ n.pc = "failed" => n.failure # "none"
  BY <1>1 DEF AttemptState, Failure
<1>3. attempt' = [attempt EXCEPT ![o][r] = n]
  BY DEF Caught, Set
<1> QED BY <1>2, <1>3

\* n: the new state of an attempt that was at work
Worked(o, r, n) ==
  /\ attempt' = [attempt EXCEPT ![o][r] = n]
  /\ n.pc # "idle" /\ attempt[o][r].pc \notin Over
  /\ n.pc \in {"trusting", "delaying"} => n.tries < MaxAttempts
  /\ n.pc = "failed" => n.failure # "none"
  /\ n.session = "open" => n.pc \in {"closing", "returned"}
  /\ n.pc = "closing" => status[o] = "decided"
  /\ n.pc = "returned" => winner'[o] # NoRoute

LEMMA AttemptShape ==
  ASSUME IInv, NEW o \in Operation, NEW r \in Route, AttemptStep(o, r)
  PROVE  \E n \in AttemptState : Worked(o, r, n)
<1> USE PolicyAssumption
<1>t. TypeOK /\ RouteInv(o, r) /\ attempt[o][r] \in AttemptState
  BY DEF IInv, TypeOK
<1>s. attempt[o][r].session \in {"none", "open", "closed"}
  BY <1>t DEF AttemptState
<1>1. CASE TrustSettles(o, r) \/ TrustRejects(o, r)
  <2>1. /\ attempt[o][r].session # "open" /\ attempt[o][r].tries < MaxAttempts
        /\ attempt[o][r].pc = "trusting"
        /\ Try(o, r) \/ \E f \in Failure : Fail(o, r, f)
    BY <1>t, <1>1 DEF RouteInv, TrustSettles, TrustRejects, Failure
  <2>2. \E n \in AttemptState :
          /\ attempt' = [attempt EXCEPT ![o][r] = n]
          /\ n.pc \in {"connecting", "failed"} /\ n.session = attempt[o][r].session
          /\ n.pc = "failed" => n.failure # "none"
    BY <1>t, <2>1, TryShape, FailShape
  <2> QED BY <2>1, <2>2 DEF Worked, Over
<1>2. CASE Connected(o, r)
  <2> DEFINE n == [attempt[o][r] EXCEPT !.pc = "returned", !.session = "open"]
  <2>1. n \in AttemptState /\ n.pc = "returned" /\ attempt' = [attempt EXCEPT ![o][r] = n]
    BY <1>t, <1>2 DEF AttemptState, Connected, Set
  <2>2. winner'[o] # NoRoute
    BY <1>t, <1>2 DEF Connected, TypeOK, PolicyAssumption
  <2> QED BY <1>2, <2>1, <2>2 DEF Worked, Connected, Over
<1>3. CASE ConnectedLate(o, r)
  <2> DEFINE n == [attempt[o][r] EXCEPT !.pc = "closing", !.session = "open"]
  <2>1. n \in AttemptState /\ n.pc = "closing" /\ attempt' = [attempt EXCEPT ![o][r] = n]
    BY <1>t, <1>3 DEF AttemptState, ConnectedLate, Set
  <2> QED BY <1>3, <2>1 DEF Worked, ConnectedLate, Over, Aborted
<1>4. CASE LateSessionCloses(o, r)
  <2>1. \E n \in AttemptState :
          /\ attempt' = [attempt EXCEPT ![o][r] = n]
          /\ n.pc \in {"delaying", "failed"} /\ n.session = "closed"
          /\ n.pc = "delaying" => n.tries < MaxAttempts
          /\ n.pc = "failed" => n.failure # "none"
    <3>1. PICK f \in Failure : Caught(o, r, f, "closed")
      BY <1>4 DEF LateSessionCloses
    <3> QED BY <1>t, <3>1, CaughtShape
  <2> QED BY <1>4, <2>1 DEF Worked, LateSessionCloses, Over
<1>5. CASE ConnectFails(o, r)
  <2> DEFINE s == attempt[o][r].session
  <2>1. s # "open"
    BY <1>t, <1>5 DEF RouteInv, ConnectFails
  <2>2. PICK f \in Failure : Caught(o, r, f, s)
    BY <1>5 DEF ConnectFails
  <2>3. \E n \in AttemptState :
          /\ attempt' = [attempt EXCEPT ![o][r] = n]
          /\ n.pc \in {"delaying", "failed"} /\ n.session = s
          /\ n.pc = "delaying" => n.tries < MaxAttempts
          /\ n.pc = "failed" => n.failure # "none"
    <3> HIDE DEF s
    <3>1. s \in {"none", "open", "closed"}
      BY <1>s DEF s
    <3> QED BY <1>t, <2>2, <3>1, CaughtShape
  <2> QED BY <1>5, <2>1, <2>3 DEF Worked, ConnectFails, Over
<1>6. CASE DelayEnds(o, r)
  <2>1. attempt[o][r].session # "open" /\ attempt[o][r].tries < MaxAttempts
    BY <1>t, <1>6 DEF RouteInv, DelayEnds
  <2>2. \E n \in AttemptState :
          /\ attempt' = [attempt EXCEPT ![o][r] = n]
          /\ n.pc \in {"connecting", "failed"} /\ n.session = attempt[o][r].session
          /\ n.pc = "failed" => n.failure # "none"
    BY <1>t, <1>6, <2>1, TryShape DEF DelayEnds
  <2> QED BY <1>6, <2>1, <2>2 DEF Worked, DelayEnds, Over
<1> QED
  BY <1>1, <1>2, <1>3, <1>4, <1>5, <1>6 DEF AttemptStep, AdapterStep

LEMMA AttemptKeeps ==
  ASSUME IInv, NEW o \in Operation, NEW r \in Route, AttemptStep(o, r)
  PROVE  IInv'
<1> USE PolicyAssumption
<1> PICK n \in AttemptState : Worked(o, r, n)
  BY AttemptShape
<1>1. /\ UNCHANGED <<status, remaining, demoted, batch, changed>>
      /\ \/ UNCHANGED <<winner, healthVars>>
         \/ /\ winner' = [winner EXCEPT ![o] = IF @ = NoRoute THEN r ELSE @]
            /\ failures' = [failures EXCEPT ![r] = 0]
            /\ circuit' = [circuit EXCEPT ![r] = FALSE]
  BY DEF AttemptStep, AdapterStep, TrustSettles, TrustRejects, Connected, ConnectedLate, ConnectFails,
         LateSessionCloses, DelayEnds, opVars
<1>2. attempt' \in [Operation -> [Route -> AttemptState]]
  BY DEF IInv, TypeOK, Worked
<1>3. TypeOK'
  <2>1. 0 \in 0 .. Threshold
    BY DEF PolicyAssumption
  <2>2. failures' \in [Route -> 0 .. Threshold] /\ circuit' \in [Route -> BOOLEAN]
    <3>1. failures \in [Route -> 0 .. Threshold] /\ circuit \in [Route -> BOOLEAN]
      BY DEF IInv, TypeOK
    <3>2. CASE UNCHANGED healthVars
      BY <3>1, <3>2 DEF healthVars
    <3>3. CASE /\ failures' = [failures EXCEPT ![r] = 0]
               /\ circuit' = [circuit EXCEPT ![r] = FALSE]
      <4>1. failures' \in [Route -> 0 .. Threshold]
        BY <2>1, <3>1, <3>3
      <4>2. circuit' \in [Route -> BOOLEAN]
        BY <3>1, <3>3, Zenon
      <4> QED BY <4>1, <4>2
    <3> QED BY <1>1, <3>2, <3>3
  <2>3. winner' \in [Operation -> Route \cup {NoRoute}]
    BY <1>1 DEF IInv, TypeOK
  <2> QED BY <1>1, <1>2, <2>2, <2>3 DEF IInv, TypeOK
<1>4. status[o] # "idle" /\ status[o] \notin Verdict /\ r \in batch[o]
  BY DEF IInv, RouteInv, Worked, NotTried, Over
<1>5. ASSUME NEW p \in Operation PROVE OperationInv(p)'
  BY <1>1, <1>4 DEF IInv, TypeOK, OperationInv, PolicyAssumption, Verdict, Failure, healthVars
<1>6. ASSUME NEW p \in Operation, NEW q \in Route PROVE RouteInv(p, q)'
  <2>0. winner[p] # NoRoute => winner'[p] # NoRoute
    BY <1>1 DEF IInv, TypeOK
  <2>1. CASE p = o /\ q = r
    <3>1. attempt'[p][q] = n
      BY <2>1 DEF Worked, IInv, TypeOK
    <3> QED BY <1>1, <1>4, <2>1, <3>1 DEF Worked, RouteInv, Verdict, Failure
  <2>2. CASE p # o \/ q # r
    <3>1. attempt'[p][q] = attempt[p][q]
      BY <2>2 DEF Worked, IInv, TypeOK
    <3> QED BY <1>1, <2>0, <3>1 DEF IInv, RouteInv
  <2> QED BY <2>1, <2>2
<1> QED
  BY <1>3, <1>5, <1>6 DEF IInv

-----------------------------------------------------------------------------
(* The steps of an operation.                                              *)

LEMMA StartBatchShape ==
  ASSUME TypeOK, NEW o \in Operation, NEW left \in SUBSET Route, NEW last,
         StartBatch(o, left, last)
  PROVE  \E B \in SUBSET left :
           /\ batch' = [batch EXCEPT ![o] = B]
           /\ remaining' = [remaining EXCEPT ![o] = left \ B]
           /\ attempt' = [attempt EXCEPT ![o] =
                [r \in Route |-> IF r \in B THEN [NotTried EXCEPT !.pc = "trusting"]
                                            ELSE attempt[o][r]]]
BY DEF StartBatch, NextBatch

(* A batch begins: the invariant of its operation, given that the routes   *)
(* of the last batch are over and none of them failed to authenticate.     *)
LEMMA BatchBegins ==
  ASSUME IInv, NEW o \in Operation, NEW left \in SUBSET Route, NEW last,
         StartBatch(o, left, last),
         status'[o] = "racing", status' \in [Operation -> {"idle", "racing", "decided"} \cup Verdict],
         \A p \in Operation \ {o} : status'[p] = status[p],
         UNCHANGED winner, winner[o] = NoRoute,
         \A r \in batch[o] : /\ attempt[o][r].pc \in Over
                             /\ attempt[o][r].failure # "auth_failure"
  PROVE  /\ attempt' \in [Operation -> [Route -> AttemptState]]
         /\ batch' \in [Operation -> SUBSET Route]
         /\ remaining' \in [Operation -> SUBSET Route]
         /\ \A p \in Operation : OperationInv(p)'
         /\ \A p \in Operation, r \in Route : RouteInv(p, r)'
<1> USE PolicyAssumption
<1> DEFINE begun == [NotTried EXCEPT !.pc = "trusting"]
<1> PICK B \in SUBSET left :
      /\ batch' = [batch EXCEPT ![o] = B]
      /\ remaining' = [remaining EXCEPT ![o] = left \ B]
      /\ attempt' = [attempt EXCEPT ![o] =
           [r \in Route |-> IF r \in B THEN begun ELSE attempt[o][r]]]
  BY StartBatchShape DEF IInv
<1>1. /\ begun \in AttemptState /\ begun.pc = "trusting" /\ begun.tries < MaxAttempts
      /\ begun.session = "none" /\ begun.failure = "none"
  BY DEF NotTried, AttemptState, PolicyAssumption
<1> HIDE DEF begun
<1>2. attempt' \in [Operation -> [Route -> AttemptState]]
  BY <1>1 DEF IInv, TypeOK
<1>3. batch' \in [Operation -> SUBSET Route] /\ remaining' \in [Operation -> SUBSET Route]
  BY DEF IInv, TypeOK
<1>4. ASSUME NEW p \in Operation PROVE OperationInv(p)'
  BY <1>4 DEF IInv, OperationInv, Verdict, Failure
<1>5. ASSUME NEW p \in Operation, NEW r \in Route PROVE RouteInv(p, r)'
  <2>1. CASE p # o
    <3>1. attempt'[p][r] = attempt[p][r] /\ batch'[p] = batch[p]
      BY <2>1 DEF IInv, TypeOK
    <3> QED BY <2>1, <3>1 DEF IInv, RouteInv
  <2>2. CASE p = o /\ r \in B
    <3>1. attempt'[p][r] = begun /\ batch'[p] = B
      BY <2>2 DEF IInv, TypeOK
    <3> QED BY <1>1, <2>2, <3>1 DEF RouteInv, Verdict, Failure
  <2>3. CASE p = o /\ r \notin B
    <3>1. attempt'[p][r] = attempt[p][r] /\ batch'[p] = B
      BY <2>3 DEF IInv, TypeOK
    <3>2. attempt[o][r].pc \in Over /\ attempt[o][r].failure # "auth_failure"
      BY DEF IInv, RouteInv
    <3> QED BY <2>3, <3>1, <3>2 DEF IInv, RouteInv, Over, Verdict, Failure
  <2> QED BY <2>1, <2>2, <2>3
<1> QED
  BY <1>2, <1>3, <1>4, <1>5

LEMMA ConnectKeeps ==
  ASSUME IInv, NEW o \in Operation, Connect(o)
  PROVE  IInv'
<1> PICK candidates \in SUBSET Route :
      LET last == {r \in candidates : circuit[r]}
      IN /\ demoted' = [demoted EXCEPT ![o] = last]
         /\ StartBatch(o, candidates, last)
  BY DEF Connect
<1>1. /\ status'[o] = "racing"
      /\ status' \in [Operation -> {"idle", "racing", "decided"} \cup Verdict]
      /\ \A p \in Operation \ {o} : status'[p] = status[p]
      /\ UNCHANGED <<winner, failures, circuit, changed>>
  BY DEF Connect, IInv, TypeOK, healthVars
<1>2. winner[o] = NoRoute
  BY DEF Connect, IInv, OperationInv
<1>3. \A r \in batch[o] : /\ attempt[o][r].pc \in Over
                          /\ attempt[o][r].failure # "auth_failure"
  BY DEF Connect, IInv, TypeOK, RouteInv, NotTried, Over
<1>4. /\ attempt' \in [Operation -> [Route -> AttemptState]]
      /\ batch' \in [Operation -> SUBSET Route]
      /\ remaining' \in [Operation -> SUBSET Route]
      /\ \A p \in Operation : OperationInv(p)'
      /\ \A p \in Operation, r \in Route : RouteInv(p, r)'
  BY <1>1, <1>2, <1>3, BatchBegins
<1>5. demoted' \in [Operation -> SUBSET Route]
  BY DEF IInv, TypeOK
<1> QED
  BY <1>1, <1>4, <1>5 DEF IInv, TypeOK

LEMMA HealthCounts ==
  ASSUME TypeOK, NEW o \in Operation, RecordFailures(o)
  PROVE  failures' \in [Route -> 0 .. Threshold] /\ circuit' \in [Route -> BOOLEAN]
<1>1. ASSUME NEW r \in Route PROVE Counted(o, r) \in 0 .. Threshold
  BY PolicyAssumption DEF TypeOK, Counted, PolicyAssumption
<1>2. failures' \in [Route -> 0 .. Threshold]
  BY <1>1 DEF RecordFailures
<1>3. circuit' \in [Route -> BOOLEAN]
  BY Zenon DEF RecordFailures, TypeOK
<1> QED BY <1>2, <1>3

LEMMA BatchFailsKeeps ==
  ASSUME IInv, NEW o \in Operation, BatchFails(o)
  PROVE  IInv'
<1>h. failures' \in [Route -> 0 .. Threshold] /\ circuit' \in [Route -> BOOLEAN]
  BY HealthCounts DEF BatchFails, IInv
<1>o. /\ status[o] = "racing" /\ winner[o] = NoRoute
      /\ UNCHANGED <<demoted, winner, changed>>
      /\ \A r \in batch[o] : /\ attempt[o][r].pc \in Over
                              /\ attempt[o][r].failure # "auth_failure"
  BY DEF BatchFails, AllFailed, AuthFailed, FailedWith, Over
<1>1. CASE StartBatch(o, remaining[o], demoted[o]) /\ UNCHANGED status
  <2>1. /\ status'[o] = "racing"
        /\ status' \in [Operation -> {"idle", "racing", "decided"} \cup Verdict]
        /\ \A p \in Operation \ {o} : status'[p] = status[p]
        /\ remaining[o] \in SUBSET Route
    BY <1>1, <1>o DEF IInv, TypeOK
  <2>2. /\ attempt' \in [Operation -> [Route -> AttemptState]]
        /\ batch' \in [Operation -> SUBSET Route]
        /\ remaining' \in [Operation -> SUBSET Route]
        /\ \A p \in Operation : OperationInv(p)'
        /\ \A p \in Operation, r \in Route : RouteInv(p, r)'
    BY <1>1, <1>o, <2>1, BatchBegins
  <2> QED BY <1>h, <1>o, <2>1, <2>2 DEF IInv, TypeOK
<1>2. CASE /\ \E r \in RankedLast(o) :
                status' = [status EXCEPT ![o] =
                  IF o \in changed THEN "transport_failure" ELSE attempt[o][r].failure]
           /\ UNCHANGED <<remaining, batch, attempt>>
  <2>0. PICK v \in Verdict \ {"auth_failure"} : status' = [status EXCEPT ![o] = v]
    <3>1. PICK r \in RankedLast(o) :
            status' = [status EXCEPT ![o] =
              IF o \in changed THEN "transport_failure" ELSE attempt[o][r].failure]
      BY <1>2
    <3>2. r \in batch[o] /\ r \in Route /\ attempt[o][r] \in AttemptState
      BY <3>1 DEF RankedLast, IInv, TypeOK
    <3>3. attempt[o][r].pc = "failed" /\ attempt[o][r].failure # "auth_failure"
      BY <1>o, <3>2 DEF BatchFails, AllFailed
    <3>4. attempt[o][r].failure \in Failure
      BY <3>2, <3>3 DEF IInv, RouteInv, AttemptState
    <3> QED BY <3>1, <3>3, <3>4 DEF Verdict, Failure
  <2>1. TypeOK'
    BY <1>2, <1>h, <1>o, <2>0 DEF IInv, TypeOK, Verdict, Failure
  <2>2. ASSUME NEW p \in Operation PROVE OperationInv(p)'
    BY <1>2, <1>o, <2>0 DEF IInv, TypeOK, OperationInv, Verdict, Failure
  <2>3. ASSUME NEW p \in Operation, NEW r \in Route PROVE RouteInv(p, r)'
    <3>1. CASE p = o
      BY <1>2, <1>o, <2>0, <3>1 DEF IInv, TypeOK, RouteInv, Verdict, Failure, Over
    <3>2. CASE p # o
      BY <1>2, <1>o, <2>0, <3>2 DEF IInv, TypeOK, RouteInv
    <3> QED BY <3>1, <3>2
  <2> QED BY <2>1, <2>2, <2>3 DEF IInv
<1> QED
  BY <1>1, <1>2 DEF BatchFails

(* The steps that change nothing but how an operation stands.              *)
LEMMA VerdictKeeps ==
  ASSUME IInv, NEW o \in Operation,
         Mismatch(o) \/ ConnectNone(o) \/ Decide(o) \/ BatchFailsOnAuth(o)
  PROVE  IInv'
<1> USE PolicyAssumption DEF PolicyAssumption
<1>u. UNCHANGED <<remaining, demoted, batch, winner, attempt, failures, circuit, changed>>
  BY DEF Mismatch, ConnectNone, Decide, BatchFailsOnAuth, healthVars
<1>1. TypeOK'
  BY <1>u DEF Mismatch, ConnectNone, Decide, BatchFailsOnAuth, IInv, TypeOK, Verdict, Failure
<1>2. ASSUME NEW p \in Operation PROVE OperationInv(p)'
  BY <1>u DEF Mismatch, ConnectNone, Decide, BatchFailsOnAuth, AllFailed, IInv, TypeOK,
              OperationInv, Verdict, Failure
<1>3. ASSUME NEW p \in Operation, NEW r \in Route PROVE RouteInv(p, r)'
  <2>1. CASE p # o
    BY <1>u, <2>1 DEF Mismatch, ConnectNone, Decide, BatchFailsOnAuth, IInv, TypeOK, RouteInv
  <2>2. CASE p = o /\ (Mismatch(o) \/ ConnectNone(o))
    BY <1>u, <2>2 DEF Mismatch, ConnectNone, IInv, TypeOK, RouteInv, NotTried, Verdict, Failure, Over
  <2>3. CASE p = o /\ Decide(o)
    BY <1>u, <2>3 DEF Decide, IInv, TypeOK, RouteInv, Verdict, Failure
  <2>4. CASE p = o /\ BatchFailsOnAuth(o)
    BY <1>u, <2>4 DEF BatchFailsOnAuth, AllFailed, IInv, TypeOK, RouteInv, Verdict, Failure, Over
  <2> QED BY <2>1, <2>2, <2>3, <2>4
<1> QED
  BY <1>1, <1>2, <1>3 DEF IInv

LEMMA CloseSessionKeeps ==
  ASSUME IInv, NEW o \in Operation, CloseSession(o)
  PROVE  IInv'
<1> DEFINE w == winner[o]
<1>w. w \in Route
  BY DEF CloseSession, IInv, OperationInv, TypeOK
<1> DEFINE n == [attempt[o][w] EXCEPT !.session = "closed"]
<1>1. /\ n \in AttemptState /\ n.session = "closed" /\ n.pc = attempt[o][w].pc
      /\ n.failure = attempt[o][w].failure /\ n.tries = attempt[o][w].tries
  <2>1. attempt[o][w] \in AttemptState
    BY <1>w DEF IInv, TypeOK
  <2> HIDE DEF w
  <2> QED BY <2>1 DEF AttemptState
<1>2. /\ attempt' = [attempt EXCEPT ![o][w] = n] /\ status[o] = "decided"
      /\ UNCHANGED <<status, remaining, demoted, batch, winner, failures, circuit, changed>>
  BY DEF CloseSession, Set, opVars, healthVars
<1> HIDE DEF w, n
<1>3. TypeOK'
  BY <1>w, <1>1, <1>2 DEF IInv, TypeOK
<1>4. ASSUME NEW p \in Operation PROVE OperationInv(p)'
  BY <1>2 DEF IInv, OperationInv
<1>5. ASSUME NEW p \in Operation, NEW r \in Route PROVE RouteInv(p, r)'
  <2>1. CASE p = o /\ r = w
    <3>1. attempt'[p][r] = n
      BY <1>2, <2>1 DEF IInv, TypeOK
    <3> QED BY <1>1, <1>2, <2>1, <3>1 DEF IInv, RouteInv, Verdict, Failure
  <2>2. CASE p # o \/ r # w
    <3>1. attempt'[p][r] = attempt[p][r]
      BY <1>w, <1>2, <2>2 DEF IInv, TypeOK
    <3> QED BY <1>2, <3>1 DEF IInv, RouteInv
  <2> QED BY <2>1, <2>2
<1> QED
  BY <1>3, <1>4, <1>5 DEF IInv

LEMMA AgainKeeps ==
  ASSUME IInv, NEW o \in Operation, Again(o)
  PROVE  IInv'
<1>1. TypeOK'
  BY NotTriedIsAttempt DEF Again, IInv, TypeOK, healthVars
<1>2. ASSUME NEW p \in Operation PROVE OperationInv(p)'
  BY DEF Again, IInv, TypeOK, OperationInv, Verdict, Failure
<1>3. ASSUME NEW p \in Operation, NEW r \in Route PROVE RouteInv(p, r)'
  <2>1. CASE p = o
    <3>1. attempt'[p][r] = NotTried /\ status'[p] = "idle"
      BY <2>1 DEF Again, IInv, TypeOK
    <3> QED BY <3>1 DEF RouteInv, NotTried, Over, Verdict, Failure
  <2>2. CASE p # o
    BY <2>2 DEF Again, IInv, TypeOK, RouteInv
  <2> QED BY <2>1, <2>2
<1> QED
  BY <1>1, <1>2, <1>3 DEF IInv

LEMMA Invariance == Spec => []IInv
<1>1. IInv /\ [Next]_vars => IInv'
  <2> SUFFICES ASSUME IInv, [Next]_vars PROVE IInv'
    OBVIOUS
  <2>1. ASSUME NEW o \in Operation,
               \/ Mismatch(o) \/ Connect(o) \/ ConnectNone(o) \/ Continue(o)
               \/ CloseSession(o) \/ Again(o)
        PROVE  IInv'
    BY <2>1, ConnectKeeps, BatchFailsKeeps, VerdictKeeps, CloseSessionKeeps, AgainKeeps
       DEF Continue
  <2>2. ASSUME NEW o \in Operation, NEW r \in Route, AttemptStep(o, r) PROVE IInv'
    BY <2>2, AttemptKeeps
  <2>3. CASE NetworkChanges \/ (\E r \in Route : CircuitCloses(r)) \/ UNCHANGED vars
    <3>1. /\ UNCHANGED <<status, remaining, demoted, batch, winner, attempt, failures>>
          /\ changed' \subseteq Operation /\ circuit' \in [Route -> BOOLEAN]
      BY <2>3 DEF NetworkChanges, CircuitCloses, vars, opVars, IInv, TypeOK
    <3> QED BY <3>1 DEF IInv, TypeOK, OperationInv, RouteInv
  <2> QED BY <2>1, <2>2, <2>3 DEF Next
<1> QED
  BY <1>1, InitInvariant, PTL DEF Spec

-----------------------------------------------------------------------------
(* The theorems.                                                           *)

(* The type invariant of the policy; no attempt exceeds its tries.         *)
THEOREM TypeCorrect == Spec => []TypeOK
<1>1. IInv => TypeOK
  BY DEF IInv
<1> QED BY <1>1, Invariance, PTL

(* A failure reported as auth_failure ends the operation                   *)
(* (policy.ts:152-155): no later batch starts and no other verdict is      *)
(* given.  What a trust() that rejects reports is not this:                *)
(* TrustFailureIsTerminal is violated there.                               *)
THEOREM AuthenticationFailureIsTerminal == Spec => []AuthIsTerminal
<1>1. IInv => AuthIsTerminal
  BY DEF IInv, RouteInv, AuthIsTerminal
<1> QED BY <1>1, Invariance, PTL

(* An operation that throws has no attempt under way and no session open.  *)
THEOREM FailedOperationsAreClean == Spec => []FailureLeavesNothing
<1>1. IInv => FailureLeavesNothing
  BY DEF IInv, RouteInv, FailureLeavesNothing, Over
<1> QED BY <1>1, Invariance, PTL

(* However operations overlap and the network changes, a circuit is open   *)
(* only after Threshold failures with no success since.                    *)
THEOREM CircuitsNeedFailures == Spec => []CircuitNeedsFailures
<1>1. Init => CircuitNeedsFailures
  BY DEF Init, CircuitNeedsFailures
<1>2. TypeOK /\ CircuitNeedsFailures /\ [Next]_vars => CircuitNeedsFailures'
  <2> SUFFICES ASSUME TypeOK, CircuitNeedsFailures, [Next]_vars,
                      NEW q \in Route, circuit'[q]
               PROVE  failures'[q] >= Threshold
    BY DEF CircuitNeedsFailures
  <2>1. CASE UNCHANGED healthVars
    BY <2>1 DEF healthVars, CircuitNeedsFailures
  <2>2. ASSUME NEW o \in Operation, NEW r \in Route, Connected(o, r)
        PROVE  failures'[q] >= Threshold
    BY <2>2 DEF Connected, TypeOK, CircuitNeedsFailures
  <2>3. ASSUME NEW o \in Operation, BatchFails(o)
        PROVE  failures'[q] >= Threshold
    <3>1. RecordFailures(o) /\ failures[q] \in Nat
      BY <2>3 DEF BatchFails, TypeOK
    <3>2. CASE circuit[q]
      BY <3>1, <3>2, PolicyAssumption
         DEF RecordFailures, Counted, CircuitNeedsFailures, PolicyAssumption
    <3>3. CASE ~circuit[q]
      BY <3>1, <3>3 DEF RecordFailures
    <3> QED BY <3>2, <3>3
  <2>4. CASE NetworkChanges
    BY <2>4 DEF NetworkChanges
  <2>5. ASSUME NEW r \in Route, CircuitCloses(r)
        PROVE  failures'[q] >= Threshold
    BY <2>5 DEF CircuitCloses, TypeOK, CircuitNeedsFailures
  <2>6. ASSUME NEW o \in Operation,
               \/ Mismatch(o) \/ Connect(o) \/ ConnectNone(o) \/ Decide(o)
               \/ BatchFailsOnAuth(o) \/ CloseSession(o) \/ Again(o)
        PROVE  UNCHANGED healthVars
    BY <2>6 DEF Mismatch, Connect, ConnectNone, Decide, BatchFailsOnAuth, CloseSession, Again
  <2>7. ASSUME NEW o \in Operation, NEW r \in Route, AttemptStep(o, r), ~Connected(o, r)
        PROVE  UNCHANGED healthVars
    BY <2>7 DEF AttemptStep, AdapterStep, TrustSettles, TrustRejects, ConnectedLate, ConnectFails,
                LateSessionCloses, DelayEnds
  <2>8. CASE UNCHANGED vars
    BY <2>8, <2>1 DEF vars, healthVars
  <2> QED
    BY <2>1, <2>2, <2>3, <2>4, <2>5, <2>6, <2>7, <2>8 DEF Next, Continue
<1> QED BY <1>1, <1>2, TypeCorrect, PTL DEF Spec

-----------------------------------------------------------------------------
(* IrohSessions: the limit on sessions is kept, and every open connection  *)
(* counts against it.                                                      *)

-----------------------------------------------------------------------------
(* The inductive invariant.                                                *)

Opening == loop \in {"preparing", "greeting", "constructed"}

(* The limit was tested when the opening of the current session began, and *)
(* nothing has taken a slot since: only the loop does.                     *)
RoomForCurrent ==
  /\ IsFiniteSet(slots)
  /\ Cardinality(slots) <= MaxSessions
  /\ Opening => Cardinality(slots) < MaxSessions

(* A session is yielded once, so the one being opened has not been handed  *)
(* over before; its connection is not yet in anybody's table.              *)
HandedOnce ==
  /\ \A s \in Session : native[s] = "none" => s \notin handed /\ s \notin incoming
  /\ \A s \in incoming : s \notin handed
  /\ Opening => current \notin handed /\ current \notin incoming
                /\ native[current] # "none"
  /\ loop = "handling" => current \in handed

NodeInv == NodeTypeOK /\ RoomForCurrent /\ HandedOnce /\ CountedWhileOpen

-----------------------------------------------------------------------------
(* Slots are only ever taken away by closing connections.                  *)
LEMMA FewerSlots ==
  ASSUME NEW T, T \subseteq slots, RoomForCurrent, SessionsAssumption
  PROVE  /\ IsFiniteSet(T)
         /\ Cardinality(T) <= MaxSessions
         /\ Opening => Cardinality(T) < MaxSessions
<1>1. IsFiniteSet(T) /\ Cardinality(T) <= Cardinality(slots)
  BY FS_Subset DEF RoomForCurrent
<1>2. Cardinality(T) \in Nat /\ Cardinality(slots) \in Nat
  BY <1>1, FS_CardinalityType DEF RoomForCurrent
<1> QED
  BY <1>1, <1>2 DEF RoomForCurrent, SessionsAssumption

(* Register takes the one slot there is still room for.                    *)
LEMMA OneMoreSlot ==
  ASSUME NEW s, RoomForCurrent, Opening, SessionsAssumption
  PROVE  /\ IsFiniteSet(slots \cup {s})
         /\ Cardinality(slots \cup {s}) <= MaxSessions
<1>1. /\ IsFiniteSet(slots \cup {s})
      /\ Cardinality(slots \cup {s}) = IF s \in slots THEN Cardinality(slots)
                                                      ELSE Cardinality(slots) + 1
  BY FS_AddElement DEF RoomForCurrent
<1>2. Cardinality(slots) \in Nat
  BY FS_CardinalityType DEF RoomForCurrent
<1> QED
  BY <1>1, <1>2 DEF RoomForCurrent, SessionsAssumption

LEMMA NodeInitially == NodeInit => NodeInv
<1> SUFFICES ASSUME NodeInit PROVE NodeInv
  OBVIOUS
<1>1. NodeTypeOK
  BY DEF NodeInit, NodeTypeOK
<1>2. RoomForCurrent
  BY SessionsAssumption, FS_EmptySet DEF NodeInit, RoomForCurrent, Opening, SessionsAssumption
<1>3. HandedOnce
  BY DEF NodeInit, HandedOnce, Opening
<1>4. CountedWhileOpen
  BY DEF NodeInit, CountedWhileOpen
<1> QED
  BY <1>1, <1>2, <1>3, <1>4 DEF NodeInv

-----------------------------------------------------------------------------
(* The type invariant.                                                     *)
LEMMA StepNodeTypeOK == NodeTypeOK /\ HandedOnce /\ [NodeNext]_nodeVars => NodeTypeOK'
<1> SUFFICES ASSUME NodeTypeOK, HandedOnce, [NodeNext]_nodeVars PROVE NodeTypeOK'
  OBVIOUS
<1> USE DEF NodeTypeOK, loopVars, tableVars
<1>1. ASSUME NEW s \in Session, SessionStep(s) PROVE NodeTypeOK'
  <2>1. CASE Arrive(s)           BY <2>1 DEF Arrive
  <2>2. CASE SessionEnds(s)      BY <2>2 DEF SessionEnds
  <2>3. CASE ConnectionEnds(s)   BY <2>3 DEF ConnectionEnds, MarkClosed
  <2>4. CASE CloseConnection(s)  BY <2>4 DEF CloseConnection, MarkClosed
  <2>5. CASE ConnectionClosed(s) BY <2>5 DEF ConnectionClosed
  <2>6. CASE Break(s)            BY <2>6 DEF Break
  <2>7. CASE Refuse(s)           BY <2>7 DEF Refuse
  <2>8. CASE Admit(s)            BY <2>8 DEF Admit
  <2> QED BY <1>1, <2>1, <2>2, <2>3, <2>4, <2>5, <2>6, <2>7, <2>8 DEF SessionStep
<1>2. CASE LoopStep
  <2>1. CASE Prepare        BY <2>1 DEF Prepare
  <2>2. CASE OpenFails      BY <2>2 DEF OpenFails
  <2>3. CASE Greet          BY <2>3 DEF Greet
  <2>4. CASE Register       BY <2>4 DEF Register
  <2>5. CASE HandlerReturns BY <2>5 DEF HandlerReturns
  <2>6. CASE HandlerThrows  BY <2>6 DEF HandlerThrows, MarkClosed, HandedOnce
  <2>7. CASE Discarded      BY <2>7 DEF Discarded
  <2>8. CASE IncomingEnds   BY <2>8 DEF IncomingEnds
  <2>9. CASE IncomingFails  BY <2>9 DEF IncomingFails
  <2> QED BY <1>2, <2>1, <2>2, <2>3, <2>4, <2>5, <2>6, <2>7, <2>8, <2>9 DEF LoopStep
<1>3. ASSUME NEW d \in Dial, DialStep(d) PROVE NodeTypeOK'
  <2>1. CASE StartDial(d)   BY <2>1 DEF StartDial
  <2>2. CASE DialTimeout(d) BY <2>2 DEF DialTimeout
  <2>3. CASE DialSettles(d) BY <2>3 DEF DialSettles
  <2>4. CASE DialedEnds(d)  BY <2>4 DEF DialedEnds
  <2> QED BY <1>3, <2>1, <2>2, <2>3, <2>4 DEF DialStep
<1>4. CASE CloseBegins
  BY <1>4 DEF CloseBegins, MarkClosed
<1>5. CASE CloseEnds
  BY <1>5 DEF CloseEnds
<1>6. CASE UNCHANGED nodeVars
  BY <1>6 DEF nodeVars
<1> QED
  BY <1>1, <1>2, <1>3, <1>4, <1>5, <1>6 DEF NodeNext

-----------------------------------------------------------------------------
(* The limit.                                                              *)
LEMMA StepRoomForCurrent ==
  NodeTypeOK /\ RoomForCurrent /\ [NodeNext]_nodeVars => RoomForCurrent'
<1> SUFFICES ASSUME NodeTypeOK, RoomForCurrent, [NodeNext]_nodeVars PROVE RoomForCurrent'
  OBVIOUS
<1> USE SessionsAssumption
<1>a. ASSUME slots' \subseteq slots, Opening' => Opening PROVE RoomForCurrent'
  BY <1>a, FewerSlots DEF RoomForCurrent
<1> USE DEF loopVars, tableVars, Opening
<1>1. ASSUME NEW s \in Session, SessionStep(s) PROVE RoomForCurrent'
  <2>1. CASE Arrive(s)           BY <1>a, <2>1 DEF Arrive
  <2>2. CASE SessionEnds(s)      BY <1>a, <2>2 DEF SessionEnds
  <2>3. CASE ConnectionEnds(s)   BY <1>a, <2>3 DEF ConnectionEnds, MarkClosed
  <2>4. CASE CloseConnection(s)  BY <1>a, <2>4 DEF CloseConnection, MarkClosed
  <2>5. CASE ConnectionClosed(s) BY <1>a, <2>5 DEF ConnectionClosed
  <2>6. CASE Break(s)            BY <1>a, <2>6 DEF Break
  <2>7. CASE Refuse(s)           BY <1>a, <2>7 DEF Refuse
  <2>8. CASE Admit(s)
    <3>1. Cardinality(slots) \in Nat
      BY FS_CardinalityType DEF RoomForCurrent
    <3>2. Cardinality(slots) < MaxSessions
      BY <2>8, <3>1 DEF Admit, Full, SessionsAssumption
    <3> QED BY <2>8, <3>2 DEF Admit, RoomForCurrent
  <2> QED BY <1>1, <2>1, <2>2, <2>3, <2>4, <2>5, <2>6, <2>7, <2>8 DEF SessionStep
<1>2. CASE LoopStep
  <2>1. CASE Prepare        BY <1>a, <2>1 DEF Prepare
  <2>2. CASE OpenFails      BY <1>a, <2>2 DEF OpenFails
  <2>3. CASE Greet          BY <1>a, <2>3 DEF Greet
  <2>4. CASE Register
    <3>1. slots' = slots \cup {current} /\ ~Opening'
      BY <2>4 DEF Register
    <3>2. IsFiniteSet(slots \cup {current}) /\ Cardinality(slots \cup {current}) <= MaxSessions
      BY <2>4, OneMoreSlot DEF Register
    <3> QED BY <3>1, <3>2 DEF RoomForCurrent
  <2>5. CASE HandlerReturns BY <1>a, <2>5 DEF HandlerReturns
  <2>6. CASE HandlerThrows  BY <1>a, <2>6 DEF HandlerThrows, MarkClosed
  <2>7. CASE Discarded      BY <1>a, <2>7 DEF Discarded
  <2>8. CASE IncomingEnds   BY <1>a, <2>8 DEF IncomingEnds
  <2>9. CASE IncomingFails  BY <1>a, <2>9 DEF IncomingFails
  <2> QED BY <1>2, <2>1, <2>2, <2>3, <2>4, <2>5, <2>6, <2>7, <2>8, <2>9 DEF LoopStep
<1>3. ASSUME NEW d \in Dial, DialStep(d) PROVE RoomForCurrent'
  BY <1>a, <1>3 DEF DialStep, StartDial, DialTimeout, DialSettles, DialedEnds
<1>4. CASE CloseBegins
  BY <1>a, <1>4 DEF CloseBegins, MarkClosed
<1>5. CASE CloseEnds
  BY <1>a, <1>5 DEF CloseEnds
<1>6. CASE UNCHANGED nodeVars
  BY <1>a, <1>6 DEF nodeVars
<1> QED
  BY <1>1, <1>2, <1>3, <1>4, <1>5, <1>6 DEF NodeNext

-----------------------------------------------------------------------------
(* A session is handed over once, and counted as long as it is open.       *)
LEMMA StepHandedOnce ==
  NodeTypeOK /\ HandedOnce /\ [NodeNext]_nodeVars => HandedOnce'
<1> SUFFICES ASSUME NodeTypeOK, HandedOnce, [NodeNext]_nodeVars PROVE HandedOnce'
  OBVIOUS
<1> USE DEF NodeTypeOK, HandedOnce, Opening, loopVars, tableVars
<1>1. ASSUME NEW s \in Session, SessionStep(s) PROVE HandedOnce'
  <2>1. CASE Arrive(s)           BY <2>1 DEF Arrive
  <2>2. CASE SessionEnds(s)      BY <2>2 DEF SessionEnds
  <2>3. CASE ConnectionEnds(s)   BY <2>3 DEF ConnectionEnds, MarkClosed
  <2>4. CASE CloseConnection(s)  BY <2>4 DEF CloseConnection, MarkClosed
  <2>5. CASE ConnectionClosed(s) BY <2>5 DEF ConnectionClosed
  <2>6. CASE Break(s)            BY <2>6 DEF Break
  <2>7. CASE Refuse(s)           BY <2>7 DEF Refuse
  <2>8. CASE Admit(s)            BY <2>8 DEF Admit
  <2> QED BY <1>1, <2>1, <2>2, <2>3, <2>4, <2>5, <2>6, <2>7, <2>8 DEF SessionStep
<1>2. CASE LoopStep
  <2>1. CASE Prepare        BY <2>1 DEF Prepare
  <2>2. CASE OpenFails      BY <2>2 DEF OpenFails
  <2>3. CASE Greet          BY <2>3 DEF Greet
  <2>4. CASE Register       BY <2>4 DEF Register
  <2>5. CASE HandlerReturns BY <2>5 DEF HandlerReturns
  <2>6. CASE HandlerThrows  BY <2>6 DEF HandlerThrows
  <2>7. CASE Discarded      BY <2>7 DEF Discarded
  <2>8. CASE IncomingEnds   BY <2>8 DEF IncomingEnds
  <2>9. CASE IncomingFails  BY <2>9 DEF IncomingFails
  <2> QED BY <1>2, <2>1, <2>2, <2>3, <2>4, <2>5, <2>6, <2>7, <2>8, <2>9 DEF LoopStep
<1>3. ASSUME NEW d \in Dial, DialStep(d) PROVE HandedOnce'
  BY <1>3 DEF DialStep, StartDial, DialTimeout, DialSettles, DialedEnds
<1>4. CASE CloseBegins
  BY <1>4 DEF CloseBegins, MarkClosed
<1>5. CASE CloseEnds
  BY <1>5 DEF CloseEnds
<1>6. CASE UNCHANGED nodeVars
  BY <1>6 DEF nodeVars
<1> QED
  BY <1>1, <1>2, <1>3, <1>4, <1>5, <1>6 DEF NodeNext

LEMMA StepCountedWhileOpen ==
  NodeTypeOK /\ HandedOnce /\ CountedWhileOpen /\ [NodeNext]_nodeVars => CountedWhileOpen'
<1> SUFFICES ASSUME NodeTypeOK, HandedOnce, CountedWhileOpen, [NodeNext]_nodeVars
             PROVE  CountedWhileOpen'
  OBVIOUS
<1> USE DEF NodeTypeOK, HandedOnce, CountedWhileOpen, Opening, loopVars, tableVars
<1>1. ASSUME NEW s \in Session, SessionStep(s) PROVE CountedWhileOpen'
  <2>1. CASE Arrive(s)           BY <2>1 DEF Arrive
  <2>2. CASE SessionEnds(s)      BY <2>2 DEF SessionEnds
  <2>3. CASE ConnectionEnds(s)   BY <2>3 DEF ConnectionEnds, MarkClosed
  <2>4. CASE CloseConnection(s)  BY <2>4 DEF CloseConnection, MarkClosed
  <2>5. CASE ConnectionClosed(s) BY <2>5 DEF ConnectionClosed
  <2>6. CASE Break(s)            BY <2>6 DEF Break
  <2>7. CASE Refuse(s)           BY <2>7 DEF Refuse
  <2>8. CASE Admit(s)            BY <2>8 DEF Admit
  <2> QED BY <1>1, <2>1, <2>2, <2>3, <2>4, <2>5, <2>6, <2>7, <2>8 DEF SessionStep
<1>2. CASE LoopStep
  <2>1. CASE Prepare        BY <2>1 DEF Prepare
  <2>2. CASE OpenFails      BY <2>2 DEF OpenFails
  <2>3. CASE Greet          BY <2>3 DEF Greet
  <2>4. CASE Register       BY <2>4 DEF Register
  <2>5. CASE HandlerReturns BY <2>5 DEF HandlerReturns
  <2>6. CASE HandlerThrows  BY <2>6 DEF HandlerThrows, MarkClosed
  <2>7. CASE Discarded      BY <2>7 DEF Discarded
  <2>8. CASE IncomingEnds   BY <2>8 DEF IncomingEnds
  <2>9. CASE IncomingFails  BY <2>9 DEF IncomingFails
  <2> QED BY <1>2, <2>1, <2>2, <2>3, <2>4, <2>5, <2>6, <2>7, <2>8, <2>9 DEF LoopStep
<1>3. ASSUME NEW d \in Dial, DialStep(d) PROVE CountedWhileOpen'
  BY <1>3 DEF DialStep, StartDial, DialTimeout, DialSettles, DialedEnds
<1>4. CASE CloseBegins
  BY <1>4 DEF CloseBegins, MarkClosed
<1>5. CASE CloseEnds
  BY <1>5 DEF CloseEnds
<1>6. CASE UNCHANGED nodeVars
  BY <1>6 DEF nodeVars
<1> QED
  BY <1>1, <1>2, <1>3, <1>4, <1>5, <1>6 DEF NodeNext

-----------------------------------------------------------------------------
(* The theorems.                                                           *)
LEMMA NodeInvariance == NodeSpec => []NodeInv
<1>1. NodeInv /\ [NodeNext]_nodeVars => NodeInv'
  BY StepNodeTypeOK, StepRoomForCurrent, StepHandedOnce, StepCountedWhileOpen DEF NodeInv
<1> QED
  BY <1>1, NodeInitially, PTL DEF NodeSpec

(* The type invariant of the node, for any sessions, dials and limit.      *)
THEOREM NodeTypeCorrect == NodeSpec => []NodeTypeOK
<1>1. NodeInv => NodeTypeOK
  BY DEF NodeInv
<1> QED BY <1>1, NodeInvariance, PTL

(* Although the limit is tested before the awaits of the opening and the   *)
(* slot taken after them (iroh-node.ts:156-168), it is never exceeded.     *)
THEOREM LimitIsKept == NodeSpec => []SlotBound
<1>1. NodeInv => SlotBound
  BY DEF NodeInv, RoomForCurrent, SlotBound
<1> QED BY <1>1, NodeInvariance, PTL

(* No connection that is open escapes the set that the limit counts and    *)
(* that close() of the node goes through (iroh-node.ts:168-169,231-233).   *)
THEOREM OpenConnectionsAreCounted == NodeSpec => []CountedWhileOpen
<1>1. NodeInv => CountedWhileOpen
  BY DEF NodeInv
<1> QED BY <1>1, NodeInvariance, PTL

-----------------------------------------------------------------------------
(* ModuleRegistry, for every dependency graph and every selection. First   *)
(* the depth-first walk of order(): what it returns when it meets no cycle. *)

(* The visits of a list, as a sequence of walks.                           *)
Walks(visit, list, walk, composed, after) ==
  after = [i \in 0 .. Len(list) |->
    IF i = 0 THEN walk
    ELSE IF list[i] \in composed THEN visit[list[i]][after[i - 1]] ELSE after[i - 1]]

(* What visits is, as an equation.                                         *)
Layered(composed, visits) ==
  visits = [n \in Nat |-> VisitBy(IF n = 0 THEN <<>> ELSE visits[n - 1], n = 0, composed)]

Visitor == [Module -> [Walk -> Walk]]

(* VisitEach is the last of such a sequence: the recursion has a solution. *)
LEMMA EachIsLast ==
  ASSUME NEW visit \in Visitor, NEW list \in Seq(Module), NEW walk \in Walk, NEW composed
  PROVE  \E after : /\ Walks(visit, list, walk, composed, after)
                    /\ VisitEach(visit, list, walk, composed) = after[Len(list)]
<1> DEFINE step == [n \in Nat |-> [w \in Walk |->
             IF n + 1 \in 1 .. Len(list) /\ list[n + 1] \in composed
             THEN visit[list[n + 1]][w] ELSE w]]
           E(a) == Walks(visit, list, walk, composed, a)
<1>1. Len(list) \in Nat /\ \A i \in 1 .. Len(list) : list[i] \in Module
  OBVIOUS
<1>2. step \in [Nat -> [Walk -> Walk]]
  BY <1>1 DEF Visitor
<1>3. \E a : E(a)
  <2>1. PICK f : Iterates(f, Walk, walk, step)
    <3> HIDE DEF step
    <3> QED
      BY <1>2, Iteration
  <2> DEFINE a == [i \in 0 .. Len(list) |-> f[i]]
  <2>2. ASSUME NEW i \in 0 .. Len(list)
        PROVE  a[i] = IF i = 0 THEN walk
                      ELSE IF list[i] \in composed THEN visit[list[i]][a[i - 1]] ELSE a[i - 1]
    <3>1. CASE i = 0
      BY <2>1, <3>1 DEF Iterates
    <3>2. CASE i # 0
      <4>1. i - 1 \in Nat /\ (i - 1) + 1 = i /\ i \in 1 .. Len(list) /\ i - 1 \in 0 .. Len(list)
        BY <1>1, <3>2
      <4>2. f[i] = step[i - 1][f[i - 1]] /\ f[i - 1] \in Walk
        BY <2>1, <4>1 DEF Iterates
      <4>3. step[i - 1][f[i - 1]] =
              IF list[i] \in composed THEN visit[list[i]][f[i - 1]] ELSE f[i - 1]
        BY <4>1, <4>2
      <4> QED
        BY <3>2, <4>1, <4>2, <4>3
    <3> QED
      BY <3>1, <3>2
  <2>3. E(a)
    <3>1. a = [i \in 0 .. Len(list) |-> a[i]]
      OBVIOUS
    <3> HIDE DEF a
    <3> QED
      BY <2>2, <3>1 DEF Walks
  <2> QED
    BY <2>3
<1>4. VisitEach(visit, list, walk, composed) = (CHOOSE a : E(a))[Len(list)]
  BY DEF VisitEach, Walks
<1>5. E(CHOOSE a : E(a))
  <2> HIDE DEF E
  <2> QED
    BY <1>3
<1> HIDE DEF E
<1> QED
  BY <1>4, <1>5 DEF E
-----------------------------------------------------------------------------
(* A walk that has met no cycle: what is ordered is ordered once, is       *)
(* composed, is not being visited, and comes after what it needs.          *)
Sound(walk, composed) ==
  ~ walk.cyclic =>
    /\ IsInjective(walk.ordered)
    /\ ToSet(walk.ordered) \subseteq composed
    /\ walk.visiting \cap ToSet(walk.ordered) = {}
    /\ \A i \in DOMAIN walk.ordered : \A d \in ToSet(deps[walk.ordered[i]]) \cap composed :
         \E j \in DOMAIN walk.ordered : j < i /\ walk.ordered[j] = d

(* What a visit of some modules does to a walk: they are in order, what    *)
(* was stays, and the modules being visited are those they were.           *)
Visited(before, after, modules) ==
  ~ after.cyclic =>
    /\ ~ before.cyclic
    /\ after.visiting = before.visiting
    /\ ToSet(before.ordered) \cup modules \subseteq ToSet(after.ordered)

(* A visit is right if it keeps every sound walk sound and leaves the      *)
(* module it is called on in the order.                                    *)
Right(visit, composed) ==
  \A m \in Module, walk \in Walk :
    m \in composed /\ Sound(walk, composed) =>
      Sound(visit[m][walk], composed) /\ Visited(walk, visit[m][walk], {m})

(* Right visits, one after the other, put a whole list in the order.       *)
LEMMA EachIsRight ==
  ASSUME NEW visit \in Visitor, NEW list \in Seq(Module), NEW walk \in Walk, NEW composed
  PROVE  /\ VisitEach(visit, list, walk, composed) \in Walk
         /\ Right(visit, composed) /\ Sound(walk, composed) =>
              /\ Sound(VisitEach(visit, list, walk, composed), composed)
              /\ Visited(walk, VisitEach(visit, list, walk, composed), ToSet(list) \cap composed)
<1>1. PICK after : /\ Walks(visit, list, walk, composed, after)
                   /\ VisitEach(visit, list, walk, composed) = after[Len(list)]
  BY EachIsLast
<1>2. Len(list) \in Nat /\ \A i \in 1 .. Len(list) : list[i] \in Module
  OBVIOUS
<1> DEFINE upTo(i) == {list[k] : k \in 1 .. i} \cap composed
           Fine(i) ==
             /\ after[i] \in Walk
             /\ Right(visit, composed) /\ Sound(walk, composed) =>
                  Sound(after[i], composed) /\ Visited(walk, after[i], upTo(i))
           Bad == {i \in Nat : i <= Len(list) /\ ~ Fine(i)}
<1>3. Fine(0)
  <2>1. after[0] = walk
    BY <1>1, <1>2 DEF Walks
  <2> QED
    BY <2>1 DEF Visited
<1>4. ASSUME NEW i \in 1 .. Len(list), Fine(i - 1) PROVE Fine(i)
  <2>1. PICK w : w = after[i - 1]
    OBVIOUS
  <2>2. after[i] = IF list[i] \in composed THEN visit[list[i]][w] ELSE w
    BY <1>1, <1>2, <2>1 DEF Walks
  <2>3. w \in Walk /\ list[i] \in Module
    BY <1>2, <1>4, <2>1
  <2>4. after[i] \in Walk
    BY <2>2, <2>3 DEF Visitor
  <2>5. upTo(i) = upTo(i - 1) \cup ({list[i]} \cap composed)
    <3>1. 1 .. i = (1 .. i - 1) \cup {i}
      OBVIOUS
    <3> QED
      BY <3>1
  <2>6. ASSUME Right(visit, composed), Sound(walk, composed)
        PROVE  Sound(after[i], composed) /\ Visited(walk, after[i], upTo(i))
    <3>1. Sound(w, composed) /\ Visited(walk, w, upTo(i - 1))
      BY <1>4, <2>1, <2>6
    <3> HIDE DEF upTo
    <3>2. CASE list[i] \notin composed
      BY <2>2, <2>5, <3>1, <3>2
    <3>3. CASE list[i] \in composed
      <4>1. Sound(after[i], composed) /\ Visited(w, after[i], {list[i]})
        BY <2>2, <2>3, <2>6, <3>1, <3>3 DEF Right
      <4> QED
        BY <2>5, <3>1, <4>1 DEF Visited
    <3> QED
      BY <3>2, <3>3
  <2> QED
    BY <2>4, <2>6
<1>5. Fine(Len(list))
  <2> HIDE DEF Fine
  <2> SUFFICES ASSUME Bad # {} PROVE FALSE
    BY <1>2
  <2>1. PICK i \in Bad : \A j \in Bad : i <= j
    <3>1. Bad \subseteq Nat
      OBVIOUS
    <3> HIDE DEF Bad
    <3> QED
      BY <3>1, LeastNatural
  <2>2. i \in 1 .. Len(list) /\ i - 1 \in Nat /\ i - 1 <= Len(list) /\ ~ (i <= i - 1)
    BY <1>2, <1>3
  <2>3. i - 1 \notin Bad
    BY <2>1, <2>2
  <2>4. Fine(i - 1)
    BY <2>2, <2>3
  <2> QED
    BY <1>4, <2>2, <2>4
<1>6. upTo(Len(list)) = ToSet(list) \cap composed
  BY <1>2 DEF ToSet
<1> HIDE DEF upTo
<1> QED
  BY <1>1, <1>5, <1>6

(* A module joins a list.                                                  *)
LEMMA SetOfAppend ==
  ASSUME NEW V, NEW s \in Seq(V), NEW m
  PROVE  ToSet(Append(s, m)) = ToSet(s) \cup {m}
<1>1. /\ Len(s) \in Nat /\ DOMAIN s = 1 .. Len(s) /\ DOMAIN Append(s, m) = 1 .. Len(s) + 1
      /\ Append(s, m)[Len(s) + 1] = m /\ \A i \in 1 .. Len(s) : Append(s, m)[i] = s[i]
  OBVIOUS
<1>2. ASSUME NEW x \in ToSet(Append(s, m)) PROVE x \in ToSet(s) \cup {m}
  <2>1. PICK i \in 1 .. Len(s) + 1 : Append(s, m)[i] = x
    BY <1>1 DEF ToSet
  <2>2. i = Len(s) + 1 \/ i \in 1 .. Len(s)
    BY <1>1
  <2> QED
    BY <1>1, <2>1, <2>2 DEF ToSet
<1>3. ASSUME NEW x \in ToSet(s) PROVE x \in ToSet(Append(s, m))
  <2>1. PICK i \in 1 .. Len(s) : s[i] = x
    BY <1>1 DEF ToSet
  <2>2. i \in 1 .. Len(s) + 1 /\ Append(s, m)[i] = x
    BY <1>1, <2>1
  <2> QED
    BY <1>1, <2>2 DEF ToSet
<1>4. m \in ToSet(Append(s, m))
  <2>1. Len(s) + 1 \in 1 .. Len(s) + 1
    BY <1>1
  <2> QED
    BY <1>1, <2>1 DEF ToSet
<1> QED
  BY <1>2, <1>3, <1>4

(* A list without repetition stays one when a new member joins.            *)
LEMMA StillInjective ==
  ASSUME NEW V, NEW s \in Seq(V), NEW m, IsInjective(s), m \notin ToSet(s)
  PROVE  IsInjective(Append(s, m))
<1> DEFINE t == Append(s, m)
<1>1. /\ Len(s) \in Nat /\ DOMAIN s = 1 .. Len(s) /\ DOMAIN t = 1 .. Len(s) + 1
      /\ t[Len(s) + 1] = m /\ \A i \in 1 .. Len(s) : t[i] = s[i]
  OBVIOUS
<1> HIDE DEF t
<1> SUFFICES ASSUME NEW i \in DOMAIN t, NEW j \in DOMAIN t, t[i] = t[j], i # j PROVE FALSE
  BY DEF IsInjective, t
<1>2. ASSUME NEW k \in DOMAIN t, k # Len(s) + 1 PROVE k \in DOMAIN s /\ t[k] = s[k] /\ t[k] # m
  <2>1. k \in 1 .. Len(s)
    BY <1>1, <1>2
  <2> QED
    BY <1>1, <2>1 DEF ToSet
<1>3. CASE i # Len(s) + 1 /\ j # Len(s) + 1
  BY <1>2, <1>3 DEF IsInjective
<1>4. CASE i = Len(s) + 1 \/ j = Len(s) + 1
  BY <1>1, <1>2, <1>4
<1> QED
  BY <1>3, <1>4

(* A module goes after those it needs: if the visits below are right, this *)
(* one is.                                                                 *)
LEMMA ByIsRight ==
  ASSUME deps \in [Module -> Seq(Module)], NEW composed \in SUBSET Module, NEW visit, NEW last \in BOOLEAN,
         ~ last => visit \in Visitor /\ Right(visit, composed)
  PROVE  VisitBy(visit, last, composed) \in Visitor /\ Right(VisitBy(visit, last, composed), composed)
<1> SUFFICES ASSUME NEW m \in Module, NEW walk \in Walk, NEW v, v = VisitBy(visit, last, composed)[m][walk]
             PROVE  /\ v \in Walk
                    /\ m \in composed /\ Sound(walk, composed) =>
                         Sound(v, composed) /\ Visited(walk, v, {m})
  BY DEF Visitor, Right, VisitBy
<1>0. /\ walk.visiting \in SUBSET Module /\ walk.ordered \in Seq(Module) /\ walk.cyclic \in BOOLEAN
      /\ walk = [visiting |-> walk.visiting, ordered |-> walk.ordered, cyclic |-> walk.cyclic]
  BY DEF Walk
<1>1. CASE m \in ToSet(walk.ordered) \/ walk.cyclic
  <2>1. v = walk
    BY <1>1 DEF VisitBy
  <2> QED
    BY <1>1, <2>1 DEF Visited
<1>2. CASE ~ (m \in ToSet(walk.ordered) \/ walk.cyclic) /\ (m \in walk.visiting \/ last)
  <2>1. v = [walk EXCEPT !.cyclic = TRUE]
    BY <1>2 DEF VisitBy
  <2>2. v \in Walk /\ v.cyclic
    BY <1>0, <2>1 DEF Walk
  <2> QED
    BY <2>2 DEF Sound, Visited
<1>3. CASE ~ (m \in ToSet(walk.ordered) \/ walk.cyclic) /\ ~ (m \in walk.visiting \/ last)
  <2>1. PICK start : start = [walk EXCEPT !.visiting = @ \cup {m}]
    OBVIOUS
  <2>2. PICK below : below = VisitEach(visit, deps[m], start, composed)
    OBVIOUS
  <2>3. v = [below EXCEPT !.visiting = @ \ {m}, !.ordered = Append(@, m)]
    BY <1>3, <2>1, <2>2 DEF VisitBy
  <2>4. /\ start = [visiting |-> walk.visiting \cup {m}, ordered |-> walk.ordered, cyclic |-> walk.cyclic]
        /\ start \in Walk /\ deps[m] \in Seq(Module) /\ visit \in Visitor /\ Right(visit, composed)
    BY <1>0, <1>3, <2>1 DEF Walk
  <2>5. /\ below \in Walk
        /\ Sound(start, composed) =>
             Sound(below, composed) /\ Visited(start, below, ToSet(deps[m]) \cap composed)
    BY <2>2, <2>4, EachIsRight
  <2>6. /\ below.visiting \in SUBSET Module /\ below.ordered \in Seq(Module) /\ below.cyclic \in BOOLEAN
        /\ v = [visiting |-> below.visiting \ {m}, ordered |-> Append(below.ordered, m),
                cyclic |-> below.cyclic]
    BY <2>3, <2>5 DEF Walk
  <2>7. v \in Walk
    BY <2>6 DEF Walk
  <2>8. ASSUME m \in composed, Sound(walk, composed), ~ v.cyclic
        PROVE  /\ Sound(v, composed)
               /\ Visited(walk, v, {m})
    <3>1. Sound(start, composed)
      BY <1>3, <2>4, <2>8 DEF Sound
    <3>2. Sound(below, composed) /\ Visited(start, below, ToSet(deps[m]) \cap composed) /\ ~ below.cyclic
      BY <2>5, <2>6, <2>8, <3>1
    <3>3. /\ below.visiting = walk.visiting \cup {m}
          /\ ToSet(walk.ordered) \subseteq ToSet(below.ordered)
          /\ ToSet(deps[m]) \cap composed \subseteq ToSet(below.ordered)
      BY <2>4, <3>2 DEF Visited
    <3>4. m \notin ToSet(below.ordered)
      BY <3>2, <3>3 DEF Sound
    <3>5. PICK s \in Seq(Module) : s = below.ordered
      BY <2>6
    <3>6. PICK t : t = Append(s, m)
      OBVIOUS
    <3>7. /\ v.ordered = t /\ v.visiting = walk.visiting
      BY <1>3, <2>6, <3>3, <3>5, <3>6
    <3>8. /\ Len(s) \in Nat /\ DOMAIN s = 1 .. Len(s) /\ DOMAIN t = 1 .. Len(s) + 1
          /\ t[Len(s) + 1] = m /\ \A i \in 1 .. Len(s) : t[i] = s[i]
      BY <3>6
    <3>9. ToSet(t) = ToSet(s) \cup {m}
      BY <3>6, SetOfAppend
    <3>10. IsInjective(t)
      BY <3>2, <3>4, <3>5, <3>6, StillInjective DEF Sound
    <3>11. ASSUME NEW i \in DOMAIN t, NEW d \in ToSet(deps[t[i]]) \cap composed
           PROVE  \E j \in DOMAIN t : j < i /\ t[j] = d
      <4>1. CASE i \in DOMAIN s
        <5>1. t[i] = s[i] /\ d \in ToSet(deps[s[i]]) \cap composed
          BY <3>8, <4>1
        <5>2. \A k \in DOMAIN s : \A e \in ToSet(deps[s[k]]) \cap composed :
                \E j \in DOMAIN s : j < k /\ s[j] = e
          BY <3>2, <3>5 DEF Sound
        <5>3. PICK j \in DOMAIN s : j < i /\ s[j] = d
          BY <4>1, <5>1, <5>2
        <5> QED
          BY <3>8, <5>3
      <4>2. CASE i = Len(s) + 1
        <5>1. d \in ToSet(deps[m]) \cap composed
          BY <3>8, <4>2
        <5>2. d \in ToSet(s)
          BY <3>3, <3>5, <5>1
        <5>3. PICK j \in DOMAIN s : s[j] = d
          BY <5>2 DEF ToSet
        <5> QED
          BY <3>8, <4>2, <5>3
      <4> QED
        BY <3>8, <4>1, <4>2
    <3>12. ToSet(t) \subseteq composed /\ walk.visiting \cap ToSet(t) = {}
      BY <1>3, <2>8, <3>2, <3>3, <3>5, <3>9 DEF Sound
    <3>13. Sound(v, composed)
      BY <3>7, <3>10, <3>11, <3>12 DEF Sound
    <3>14. Visited(walk, v, {m})
      BY <1>3, <3>3, <3>5, <3>7, <3>9 DEF Visited
    <3> QED
      BY <3>13, <3>14
  <2> QED
    BY <2>7, <2>8 DEF Sound, Visited
<1> QED
  BY <1>1, <1>2, <1>3

(* So all of them are, whatever number of modules is left.                 *)
LEMMA VisitsAreRight ==
  ASSUME deps \in [Module -> Seq(Module)], NEW composed \in SUBSET Module, NEW n \in Nat
  PROVE  Visits(composed)[n] \in Visitor /\ Right(Visits(composed)[n], composed)
<1> DEFINE X == {v \in Visitor : Right(v, composed)}
           step == [i \in Nat |-> [v \in X |-> VisitBy(v, FALSE, composed)]]
           first == VisitBy(<<>>, TRUE, composed)
           E(f) == Layered(composed, f)
<1>1. first \in X /\ \A v \in X : VisitBy(v, FALSE, composed) \in X
  BY ByIsRight
<1> HIDE DEF X, first
<1>2. step \in [Nat -> [X -> X]]
  BY <1>1
<1>3. \E f : E(f)
  <2>1. PICK f : Iterates(f, X, first, step)
    <3> HIDE DEF step
    <3> QED
      BY <1>1, <1>2, Iteration
  <2>2. ASSUME NEW i \in Nat
        PROVE  f[i] = VisitBy(IF i = 0 THEN <<>> ELSE f[i - 1], i = 0, composed)
    <3>1. CASE i = 0
      BY <2>1, <3>1 DEF Iterates, first
    <3>2. CASE i # 0
      <4>1. i - 1 \in Nat /\ (i - 1) + 1 = i
        BY <3>2
      <4>2. f[i] = step[i - 1][f[i - 1]] /\ f[i - 1] \in X
        BY <2>1, <4>1 DEF Iterates
      <4>3. f[i] = VisitBy(f[i - 1], FALSE, composed)
        BY <4>1, <4>2
      <4> QED
        BY <3>2, <4>3
    <3> QED
      BY <3>1, <3>2
  <2>3. f = [i \in Nat |-> f[i]]
    BY <2>1 DEF Iterates
  <2>4. E(f)
    BY <2>2, <2>3 DEF Layered
  <2> QED
    BY <2>4
<1>4. Visits(composed) = CHOOSE f : E(f)
  BY DEF Visits, Layered
<1>5. E(Visits(composed))
  <2> HIDE DEF E
  <2> QED
    BY <1>3, <1>4
<1> DEFINE Bad == {i \in Nat : Visits(composed)[i] \notin X}
<1>6. ASSUME NEW i \in Nat
      PROVE  Visits(composed)[i] = VisitBy(IF i = 0 THEN <<>> ELSE Visits(composed)[i - 1], i = 0, composed)
  BY <1>5 DEF Layered
<1>7. Bad = {}
  <2> SUFFICES ASSUME Bad # {} PROVE FALSE
    OBVIOUS
  <2>1. PICK i \in Bad : \A j \in Bad : i <= j
    <3>1. Bad \subseteq Nat
      OBVIOUS
    <3> HIDE DEF Bad
    <3> QED
      BY <3>1, LeastNatural
  <2>2. i # 0
    BY <1>1, <1>6 DEF first
  <2>3. i - 1 \in Nat /\ ~ (i <= i - 1)
    BY <2>2
  <2>4. i - 1 \notin Bad
    BY <2>1, <2>3
  <2>5. Visits(composed)[i - 1] \in X
    BY <2>3, <2>4
  <2>6. Visits(composed)[i] = VisitBy(Visits(composed)[i - 1], FALSE, composed)
    BY <1>6, <2>2
  <2> QED
    BY <1>1, <2>5, <2>6
<1> QED
  BY <1>7 DEF X

(* The modules that are composed, each once and after those of them that   *)
(* it needs.                                                               *)
Sorted(list, composed) ==
  /\ list \in Seq(Module) /\ IsInjective(list) /\ ToSet(list) = composed
  /\ \A i \in DOMAIN list : \A d \in ToSet(deps[list[i]]) \cap composed :
       \E j \in DOMAIN list : j < i /\ list[j] = d

(* This is what order() returns if it meets no cycle.                      *)
LEMMA OrderIsRight ==
  ASSUME deps \in [Module -> Seq(Module)], NEW list \in Seq(Module), NEW composed \in SUBSET ToSet(list)
  PROVE  ~ Order(list, composed).cyclic => Sorted(Order(list, composed).ordered, composed)
<1> SUFFICES ASSUME NEW walk, walk = Order(list, composed), ~ walk.cyclic
             PROVE  Sorted(walk.ordered, composed)
  OBVIOUS
<1>1. Cardinality(Module) \in Nat
  BY RegistryAssumption, FS_CardinalityType
<1>2. composed \in SUBSET Module
  BY DEF ToSet
<1>3. PICK visit : visit = Visits(composed)[Cardinality(Module)]
  OBVIOUS
<1>4. visit \in Visitor /\ Right(visit, composed)
  BY <1>1, <1>2, <1>3, VisitsAreRight
<1>5. NewWalk \in Walk /\ Sound(NewWalk, composed)
  BY DEF NewWalk, Walk, Sound, IsInjective, ToSet
<1>6. walk = VisitEach(visit, list, NewWalk, composed)
  BY <1>3 DEF Order
<1>7. /\ walk \in Walk /\ Sound(walk, composed)
      /\ Visited(NewWalk, walk, ToSet(list) \cap composed)
  BY <1>4, <1>5, <1>6, EachIsRight
<1>8. walk.ordered \in Seq(Module)
  BY <1>7 DEF Walk
<1> QED
  BY <1>7, <1>8 DEF Sound, Visited, Sorted

-----------------------------------------------------------------------------
(* ModuleRegistry: from the order to what is up.                           *)

(* Each module of a list comes after those it needs, except for the        *)
(* optional ones that failed.                                              *)
InTurn(list) ==
  \A i \in DOMAIN list : \A d \in ToSet(deps[list[i]]) :
    d \in optionalFailures \/ \E j \in DOMAIN list : j < i /\ list[j] = d

Listed(list) == list \in Seq(Module) /\ IsInjective(list) /\ InTurn(list)

(* The states of a module; those in which it neither runs nor is on its way *)
(* there or back.                                                          *)
RunState == {"down", "starting", "up", "broken", "stopping", "unstopped"}

AtRest(m) == run[m] \in {"down", "broken", "unstopped"}

OthersAtRest == \A m \in Module \ ToSet(started) : AtRest(m)

(* While start runs: what has started is up, and of the modules before the *)
(* next one each has started or is reported as failed.                     *)
Launching ==
  /\ next <= Len(ordered)
  /\ \A m \in ToSet(started) : run[m] = "up"
  /\ \A m \in Module \ ToSet(started) :
       AtRest(m) \/ (next > 0 /\ m = Current /\ run[m] \in {"starting", "stopping"})
  /\ \A i \in DOMAIN ordered : i < next => ordered[i] \in ToSet(started) \cup optionalFailures
  /\ \A i \in DOMAIN ordered : i > next => ordered[i] \notin ToSet(started)
  /\ phase = "starting" /\ next > 0 =>
       run[Current] = "starting" \/ Current \in ToSet(started) \cup optionalFailures
  /\ phase = "discarding" => next > 0 /\ run[Current] = "stopping"
  /\ phase = "starting" /\ next > 0 => run[Current] # "stopping"

Unwinding ==
  OthersAtRest /\ \A m \in Module : run[m] \notin {"starting", "up"}

(* While stop runs, or has rejected: those that are up are the first that  *)
(* have started.                                                           *)
Halting ==
  /\ OthersAtRest
  /\ \A m \in Module : run[m] # "starting"
  /\ \A i, j \in DOMAIN started : i < j /\ run[started[j]] = "up" => run[started[i]] = "up"

(* Those that stop has been through are not up, and only the one it waits  *)
(* for is stopping.                                                        *)
Passed ==
  /\ next <= Len(started)
  /\ \A j \in DOMAIN started : j > Len(started) - next => run[started[j]] # "up"
  /\ \A j \in DOMAIN started :
       run[started[j]] = "stopping" => next > 0 /\ j = Len(started) - next + 1

(* What is known in each phase.                                            *)
PhaseInv ==
  /\ phase \in {"idle", "failed", "cyclic"} => \A m \in Module : AtRest(m)
  /\ phase \in {"starting", "discarding"} => Launching
  /\ phase = "unwinding" => Unwinding
  /\ phase = "running" => OthersAtRest /\ \A m \in ToSet(started) : run[m] = "up"
  /\ phase \in {"stopping", "stuck"} => Halting
  /\ phase = "stopping" => Passed
  /\ phase = "stuck" => \A m \in Module : run[m] # "stopping"

(* The inductive invariant.                                                *)
RegInv ==
  /\ deps \in [Module -> Seq(Module)] /\ run \in [Module -> RunState] /\ next \in Nat
  /\ Listed(ordered) /\ Listed(started)
  /\ PhaseInv

LEMMA RegInitial == RegistryInit => RegInv
<1> SUFFICES ASSUME RegistryInit PROVE RegInv
  OBVIOUS
<1> USE DEF RegistryInit
<1>1. deps \in [Module -> Seq(Module)] /\ run \in [Module -> RunState] /\ next \in Nat
  <2>1. deps \in Dependencies
    OBVIOUS
  <2>2. run \in [Module -> RunState] /\ next \in Nat
    BY DEF RunState
  <2> QED
    BY <2>1, <2>2, RegistryAssumption
<1>2. Listed(ordered) /\ Listed(started)
  BY DEF Listed, IsInjective, InTurn
<1>3. PhaseInv
  BY DEF PhaseInv, AtRest
<1> QED
  BY <1>1, <1>2, <1>3 DEF RegInv

(* A list of modules lists modules.                                        *)
LEMMA ListedModules ==
  ASSUME NEW list, Listed(list)
  PROVE  ToSet(list) \subseteq Module
BY DEF Listed, ToSet

(* The steps of start keep the invariant,                                  *)
LEMMA StartKeeps ==
  ASSUME RegInv, Start
  PROVE  RegInv'
<1>1. PICK sel, composed, walk :
        /\ sel \in Selection
        /\ composed = {m \in ToSet(sel) : kind[m] # "absent"}
        /\ walk = Order(sel, composed)
        /\ Valid(sel)
        /\ optionalFailures' = {m \in ToSet(sel) : kind[m] = "absent"}
        /\ IF walk.cyclic THEN ordered' = <<>> /\ phase' = "cyclic"
           ELSE ordered' = walk.ordered /\ phase' = "starting"
  BY DEF Start
<1>2. /\ started' = <<>> /\ next' = 0 /\ UNCHANGED <<deps, run>>
      /\ \A m \in Module : AtRest(m)
  BY DEF Start, NewCall, manifests, RegInv, PhaseInv
<1>3. sel \in Seq(Module)
  BY <1>1, RegistryAssumption
<1>4. Listed(<<>>)'
  BY DEF Listed, IsInjective, InTurn
<1>5. CASE walk.cyclic
  <2>1. PhaseInv'
    BY <1>1, <1>2, <1>5 DEF PhaseInv, AtRest
  <2> QED
    BY <1>1, <1>2, <1>4, <1>5, <2>1 DEF RegInv
<1>6. CASE ~ walk.cyclic
  <2>1. PICK list : list = walk.ordered
    OBVIOUS
  <2>2. /\ list \in Seq(Module) /\ IsInjective(list) /\ ToSet(list) = composed
        /\ \A i \in DOMAIN list : \A d \in ToSet(deps[list[i]]) \cap composed :
             \E j \in DOMAIN list : j < i /\ list[j] = d
    <3>1. composed \in SUBSET ToSet(sel) /\ deps \in [Module -> Seq(Module)]
      BY <1>1 DEF RegInv
    <3>2. Sorted(Order(sel, composed).ordered, composed)
      BY <1>1, <1>3, <1>6, <3>1, OrderIsRight
    <3>3. Sorted(list, composed)
      BY <1>1, <2>1, <3>2
    <3> QED
      BY <3>3 DEF Sorted
  <2>3. ASSUME NEW i \in DOMAIN list, NEW d \in ToSet(deps[list[i]])
        PROVE  d \in optionalFailures' \/ \E j \in DOMAIN list : j < i /\ list[j] = d
    <3>1. list[i] \in ToSet(sel)
      BY <1>1, <2>2 DEF ToSet
    <3>2. d \in ToSet(sel)
      BY <1>1, <3>1 DEF Valid
    <3>3. CASE kind[d] = "absent"
      BY <1>1, <3>2, <3>3
    <3>4. CASE kind[d] # "absent"
      BY <1>1, <2>2, <3>2, <3>4
    <3> QED
      BY <3>3, <3>4
  <2>4. Listed(list)'
    BY <1>2, <2>2, <2>3 DEF Listed, InTurn
  <2>5. phase' = "starting" /\ ordered' = list
    BY <1>1, <1>6, <2>1
  <2>6. Launching'
    <3>1. Len(list) \in Nat /\ ToSet(<<>>) = {}
      BY <2>2 DEF ToSet
    <3>2. \A i \in DOMAIN list : i > 0
      BY <2>2
    <3> QED
      BY <1>2, <2>5, <3>1, <3>2 DEF Launching, AtRest
  <2> QED
    BY <1>2, <1>4, <2>4, <2>5, <2>6 DEF RegInv, PhaseInv
<1> QED
  BY <1>5, <1>6

(* The module that start waits for.                                        *)
LEMMA CurrentModule ==
  ASSUME RegInv, phase \in {"starting", "discarding"}, next > 0
  PROVE  next \in DOMAIN ordered /\ Current \in Module
BY DEF RegInv, PhaseInv, Launching, Listed, Current

LEMMA StartNextKeeps ==
  ASSUME RegInv, StartNext
  PROVE  RegInv'
<1>1. /\ phase = "starting" /\ Launching /\ UNCHANGED <<deps, ordered, started, optionalFailures>>
      /\ next > 0 => run[Current] # "starting"
  BY DEF StartNext, RegInv, PhaseInv, manifests, call
<1>2. Listed(ordered)' /\ Listed(started)'
  BY <1>1 DEF RegInv, Listed, InTurn
<1>3. ASSUME NEW i \in DOMAIN ordered, i <= next PROVE ordered[i] \in ToSet(started) \cup optionalFailures
  <2>1. CASE i < next
    BY <1>1, <2>1 DEF Launching
  <2>2. CASE i = next
    BY <1>1, <2>2 DEF Launching, Current, RegInv, Listed
  <2> QED
    BY <1>3, <2>1, <2>2 DEF RegInv, Listed
<1>4. \A m \in Module \ ToSet(started) : AtRest(m)
  BY <1>1 DEF Launching
<1>5. CASE next = Len(ordered)
  <2>1. phase' = "running" /\ UNCHANGED <<next, run>>
    BY <1>5 DEF StartNext
  <2>2. PhaseInv'
    BY <1>1, <1>4, <2>1 DEF PhaseInv, Launching, OthersAtRest, AtRest
  <2> QED
    BY <1>1, <1>2, <2>1, <2>2 DEF RegInv
<1>6. CASE next # Len(ordered)
  <2>1. PICK m : m = ordered[next + 1]
    OBVIOUS
  <2>2. /\ phase' = phase /\ next' = next + 1 /\ run' = [run EXCEPT ![m] = "starting"]
        /\ next \in Nat /\ Len(ordered) \in Nat /\ next + 1 <= Len(ordered)
        /\ next + 1 \in DOMAIN ordered /\ m \in Module
    BY <1>1, <1>6, <2>1 DEF StartNext, RegInv, Listed, Launching
  <2>3. m \notin ToSet(started)
    BY <1>1, <2>1, <2>2 DEF Launching
  <2>4. /\ run' \in [Module -> RunState] /\ run'[m] = "starting"
        /\ \A k \in Module \ {m} : run'[k] = run[k]
    BY <2>2 DEF RegInv, RunState
  <2>5. Current' = m
    BY <1>1, <2>1, <2>2 DEF Current
  <2>6. Launching'
    <3>1. \A k \in ToSet(started) : run'[k] = "up"
      BY <1>1, <2>3, <2>4 DEF Launching, RegInv, Listed, ToSet
    <3>2. \A k \in Module \ ToSet(started) : AtRest(k)' \/ k = m
      BY <1>4, <2>4 DEF AtRest
    <3>3. \A i \in DOMAIN ordered : i < next + 1 => ordered[i] \in ToSet(started) \cup optionalFailures
      BY <1>3, <2>2 DEF RegInv, Listed
    <3>4. \A i \in DOMAIN ordered : i > next + 1 => ordered[i] \notin ToSet(started)
      BY <1>1, <2>2 DEF Launching, RegInv, Listed
    <3> QED
      BY <1>1, <2>2, <2>4, <2>5, <3>1, <3>2, <3>3, <3>4 DEF Launching
  <2>7. PhaseInv'
    BY <1>1, <2>2, <2>6 DEF PhaseInv
  <2> QED
    BY <1>1, <1>2, <2>2, <2>4, <2>7 DEF RegInv
<1> QED
  BY <1>5, <1>6

LEMMA ModuleStartsKeeps ==
  ASSUME RegInv, ModuleStarts
  PROVE  RegInv'
<1>1. PICK m : m = Current
  OBVIOUS
<1>2. /\ phase = "starting" /\ Launching /\ next > 0 /\ run[m] = "starting"
      /\ run' = [run EXCEPT ![m] = "up"] /\ started' = Append(started, m)
      /\ UNCHANGED <<deps, ordered, phase, next, optionalFailures>>
      /\ next \in DOMAIN ordered /\ m \in Module /\ m = ordered[next]
  BY <1>1, CurrentModule DEF ModuleStarts, RegInv, PhaseInv, manifests, call, Current
<1>3. m \notin ToSet(started)
  BY <1>2 DEF Launching
<1>4. PICK s, t : s = started /\ t = Append(s, m)
  OBVIOUS
<1>5. /\ s \in Seq(Module) /\ Len(s) \in Nat /\ DOMAIN s = 1 .. Len(s) /\ IsInjective(s) /\ InTurn(s)
      /\ t \in Seq(Module) /\ DOMAIN t = 1 .. Len(s) + 1 /\ t[Len(s) + 1] = m
      /\ \A i \in 1 .. Len(s) : t[i] = s[i]
  BY <1>2, <1>4 DEF RegInv, Listed
<1>6. /\ run' \in [Module -> RunState] /\ run'[m] = "up"
      /\ \A k \in Module \ {m} : run'[k] = run[k]
  BY <1>2 DEF RegInv, RunState
<1>7. ToSet(t) = ToSet(s) \cup {m} /\ ToSet(s) \subseteq Module
  BY <1>4, <1>5, SetOfAppend DEF ToSet
<1>8. IsInjective(t)
  BY <1>3, <1>4, <1>5, StillInjective
<1>9. ASSUME NEW i \in DOMAIN t, NEW d \in ToSet(deps[t[i]])
      PROVE  d \in optionalFailures \/ \E j \in DOMAIN t : j < i /\ t[j] = d
  <2>1. CASE i \in DOMAIN s
    <3>1. t[i] = s[i]
      BY <1>5, <2>1
    <3>2. d \in optionalFailures \/ \E j \in DOMAIN s : j < i /\ s[j] = d
      BY <1>5, <2>1, <3>1 DEF InTurn
    <3> QED
      BY <1>5, <3>2
  <2>2. CASE i = Len(s) + 1
    <3>1. d \in ToSet(deps[ordered[next]])
      BY <1>2, <1>5, <2>2
    <3>2. d \in optionalFailures \/ \E j \in DOMAIN ordered : j < next /\ ordered[j] = d
      BY <1>2, <3>1 DEF RegInv, Listed, InTurn
    <3>3. d \in optionalFailures \/ d \in ToSet(s)
      BY <1>2, <1>4, <3>2 DEF Launching
    <3>4. CASE d \in ToSet(s)
      <4>1. PICK j \in DOMAIN s : s[j] = d
        BY <3>4 DEF ToSet
      <4> QED
        BY <1>5, <2>2, <4>1
    <3> QED
      BY <3>3, <3>4
  <2> QED
    BY <1>5, <2>1, <2>2
<1>10. Listed(started)' /\ Listed(ordered)'
  <2>1. Listed(ordered)'
    BY <1>2 DEF RegInv, Listed, InTurn
  <2>2. started' = t /\ InTurn(t)'
    BY <1>2, <1>4, <1>9 DEF InTurn
  <2> QED
    BY <1>5, <1>8, <2>1, <2>2 DEF Listed
<1>11. Launching'
  <2>1. \A k \in ToSet(t) : run'[k] = "up"
    BY <1>2, <1>4, <1>6, <1>7 DEF Launching
  <2>2. \A k \in Module \ ToSet(t) : AtRest(k)'
    BY <1>1, <1>2, <1>4, <1>6, <1>7 DEF Launching, AtRest
  <2>3. \A i \in DOMAIN ordered : i < next => ordered[i] \in ToSet(t) \cup optionalFailures
    BY <1>2, <1>4, <1>7 DEF Launching
  <2>4. \A i \in DOMAIN ordered : i > next => ordered[i] \notin ToSet(t)
    BY <1>2, <1>4, <1>7 DEF Launching, RegInv, Listed, IsInjective
  <2>5. Current' = m /\ started' = t
    BY <1>1, <1>2, <1>4 DEF Current
  <2> QED
    BY <1>2, <1>6, <1>7, <2>1, <2>2, <2>3, <2>4, <2>5 DEF Launching
<1>12. PhaseInv'
  BY <1>2, <1>11 DEF PhaseInv
<1> QED
  BY <1>2, <1>6, <1>10, <1>12 DEF RegInv

LEMMA ModuleFailsKeeps ==
  ASSUME RegInv, ModuleFails
  PROVE  RegInv'
<1>1. PICK m : m = Current
  OBVIOUS
<1>2. /\ phase = "starting" /\ Launching /\ next > 0 /\ run[m] = "starting"
      /\ UNCHANGED <<deps, ordered, next, started, optionalFailures>>
      /\ next \in DOMAIN ordered /\ m \in Module /\ m = ordered[next]
  BY <1>1, CurrentModule DEF ModuleFails, RegInv, PhaseInv, manifests, call, Current
<1>3. Listed(started)' /\ Listed(ordered)'
  BY <1>2 DEF RegInv, Listed, InTurn
<1>4. m \notin ToSet(started) /\ ToSet(started) \subseteq Module
  <2>1. m \notin ToSet(started)
    BY <1>2 DEF Launching
  <2> QED
    BY <2>1, ListedModules DEF RegInv
<1>5. CASE kind[m] = "optional"
  <2>1. phase' = "discarding" /\ run' = [run EXCEPT ![m] = "stopping"]
    BY <1>1, <1>5 DEF ModuleFails
  <2>2. /\ run' \in [Module -> RunState] /\ run'[m] = "stopping"
        /\ \A k \in Module \ {m} : run'[k] = run[k]
    BY <1>2, <2>1 DEF RegInv, RunState
  <2>3. Current' = m
    BY <1>1, <1>2 DEF Current
  <2>4. Launching'
    BY <1>1, <1>2, <1>4, <2>1, <2>2, <2>3 DEF Launching, AtRest
  <2> QED
    BY <1>2, <1>3, <2>1, <2>2, <2>4 DEF RegInv, PhaseInv
<1>6. CASE kind[m] # "optional"
  <2>1. /\ phase' = "unwinding"
        /\ run' = [k \in Module |-> IF k = m THEN "broken"
                                    ELSE IF k \in ToSet(started) THEN "stopping" ELSE run[k]]
    BY <1>1, <1>6 DEF ModuleFails
  <2>2. \A k \in Module \ ToSet(started) : AtRest(k) \/ k = m
    BY <1>1, <1>2 DEF Launching
  <2>3. run' \in [Module -> RunState]
    BY <2>1 DEF RegInv, RunState
  <2>4. Unwinding'
    BY <1>2, <2>1, <2>2 DEF Unwinding, OthersAtRest, AtRest
  <2> QED
    BY <1>2, <1>3, <2>1, <2>3, <2>4 DEF RegInv, PhaseInv
<1> QED
  BY <1>5, <1>6

LEMMA ModuleDiscardedKeeps ==
  ASSUME RegInv, ModuleDiscarded
  PROVE  RegInv'
<1>1. PICK m : m = Current
  OBVIOUS
<1>2. /\ phase = "discarding" /\ Launching /\ next > 0 /\ run[m] = "stopping"
      /\ phase' = "starting" /\ optionalFailures' = optionalFailures \cup {m}
      /\ UNCHANGED <<deps, ordered, next, started>>
      /\ next \in DOMAIN ordered /\ m \in Module /\ m = ordered[next]
  BY <1>1, CurrentModule DEF ModuleDiscarded, RecordFailure, RegInv, PhaseInv, Launching, manifests, call, Current
<1>3. PICK r \in {"down", "unstopped"} : run' = [run EXCEPT ![m] = r]
  BY <1>1 DEF ModuleDiscarded
<1>4. Listed(started)' /\ Listed(ordered)'
  BY <1>2 DEF RegInv, Listed, InTurn
<1>5. m \notin ToSet(started) /\ ToSet(started) \subseteq Module
  <2>1. m \notin ToSet(started)
    BY <1>2 DEF Launching
  <2> QED
    BY <2>1, ListedModules DEF RegInv
<1>6. /\ run' \in [Module -> RunState] /\ run'[m] = r
      /\ \A k \in Module \ {m} : run'[k] = run[k]
  BY <1>2, <1>3 DEF RegInv, RunState
<1>7. Current' = m
  BY <1>1, <1>2 DEF Current
<1>8. Launching'
  BY <1>1, <1>2, <1>5, <1>6, <1>7 DEF Launching, AtRest
<1> QED
  BY <1>2, <1>4, <1>6, <1>8 DEF RegInv, PhaseInv

(* those of a start that fails,                                            *)
LEMMA UnwindKeeps ==
  ASSUME RegInv, ModuleUnwound \/ StartThrows
  PROVE  RegInv'
<1>1. /\ phase = "unwinding" /\ Unwinding
      /\ UNCHANGED <<deps, ordered, next, started, optionalFailures>>
  BY DEF ModuleUnwound, StartThrows, RegInv, PhaseInv, manifests, call
<1>2. Listed(started)' /\ Listed(ordered)'
  BY <1>1 DEF RegInv, Listed, InTurn
<1>3. CASE ModuleUnwound
  <2>1. PICK m \in Module, r \in {"down", "unstopped"} :
          run[m] = "stopping" /\ run' = [run EXCEPT ![m] = r]
    BY <1>3 DEF ModuleUnwound
  <2>2. /\ run' \in [Module -> RunState] /\ run'[m] = r /\ phase' = phase
        /\ \A k \in Module \ {m} : run'[k] = run[k]
    BY <1>3, <2>1 DEF ModuleUnwound, RegInv, RunState
  <2>3. Unwinding'
    BY <1>1, <2>2 DEF Unwinding, OthersAtRest, AtRest
  <2> QED
    BY <1>1, <1>2, <2>2, <2>3 DEF RegInv, PhaseInv
<1>4. CASE StartThrows
  <2>1. phase' = "failed" /\ run' = run /\ Unwound
    BY <1>4 DEF StartThrows
  <2>2. \A m \in Module : AtRest(m)
    <3>1. \A m \in ToSet(started) : run[m] # "stopping"
      BY <2>1 DEF Unwound
    <3>2. run \in [Module -> RunState]
      BY DEF RegInv
    <3> QED
      BY <1>1, <3>1, <3>2 DEF Unwinding, OthersAtRest, AtRest, RunState
  <2> QED
    BY <1>1, <1>2, <2>1, <2>2 DEF RegInv, PhaseInv, AtRest
<1> QED
  BY <1>3, <1>4

(* and those of stop.                                                      *)
LEMMA StopKeeps ==
  ASSUME RegInv, Stop
  PROVE  RegInv'
<1>1. /\ phase \in {"running", "stuck"} /\ phase' = "stopping" /\ next' = 0
      /\ UNCHANGED <<deps, ordered, started, optionalFailures, run>>
  BY DEF Stop, manifests, call
<1>2. Listed(started)' /\ Listed(ordered)'
  BY <1>1 DEF RegInv, Listed, InTurn
<1>3. /\ Len(started) \in Nat /\ DOMAIN started = 1 .. Len(started)
      /\ \A j \in DOMAIN started : started[j] \in ToSet(started) /\ started[j] \in Module
  BY DEF RegInv, Listed, ToSet
<1>4. Halting
  <2>1. CASE phase = "running"
    BY <1>3, <2>1 DEF RegInv, PhaseInv, Halting, OthersAtRest, AtRest
  <2>2. CASE phase = "stuck"
    BY <2>2 DEF RegInv, PhaseInv
  <2> QED
    BY <1>1, <2>1, <2>2
<1>5. \A j \in DOMAIN started : run[started[j]] # "stopping"
  BY <1>1, <1>3 DEF RegInv, PhaseInv
<1>6. Halting' /\ Passed'
  BY <1>1, <1>3, <1>4, <1>5 DEF Halting, Passed, OthersAtRest, AtRest
<1> QED
  BY <1>1, <1>2, <1>6 DEF RegInv, PhaseInv

(* The order of stop: the last started is the first to go.                 *)
LEMMA LastFirst ==
  ASSUME RegInv, NEW n \in 1 .. Len(started)
  PROVE  StopOrder[n] = started[Len(started) - n + 1] /\ Len(started) - n + 1 \in DOMAIN started
BY DEF StopOrder, Reverse, RegInv, Listed

LEMMA StopNextKeeps ==
  ASSUME RegInv, StopNext
  PROVE  RegInv'
<1>1. /\ phase = "stopping" /\ Halting /\ Passed
      /\ UNCHANGED <<deps, ordered, started, optionalFailures>>
      /\ next > 0 => run[StopOrder[next]] # "stopping"
  BY DEF StopNext, RegInv, PhaseInv, manifests, call
<1>2. Listed(started)' /\ Listed(ordered)'
  BY <1>1 DEF RegInv, Listed, InTurn
<1>3. /\ Len(started) \in Nat /\ DOMAIN started = 1 .. Len(started) /\ next \in Nat /\ next <= Len(started)
      /\ \A j \in DOMAIN started : started[j] \in Module
      /\ \A m \in ToSet(started) : \E j \in DOMAIN started : m = started[j]
  BY <1>1 DEF RegInv, Listed, ToSet, Passed
<1>4. \A j \in DOMAIN started : run[started[j]] # "stopping"
  <2> SUFFICES ASSUME NEW j \in DOMAIN started, run[started[j]] = "stopping" PROVE FALSE
    OBVIOUS
  <2>1. next > 0 /\ j = Len(started) - next + 1
    BY <1>1 DEF Passed
  <2>2. next \in 1 .. Len(started)
    BY <1>3, <2>1
  <2> QED
    BY <1>1, <2>1, <2>2, LastFirst
<1>5. CASE next = Len(started)
  <2>1. phase' = "idle" /\ UNCHANGED <<next, run>>
    BY <1>5 DEF StopNext
  <2>2. \A j \in DOMAIN started : run[started[j]] # "up"
    BY <1>1, <1>3, <1>5 DEF Passed
  <2>3. run \in [Module -> RunState]
    BY DEF RegInv
  <2>4. \A m \in Module : AtRest(m)
    <3>1. ASSUME NEW m \in ToSet(started), m \in Module PROVE AtRest(m)
      <4>1. PICK j \in DOMAIN started : m = started[j]
        BY <1>3
      <4>2. run[m] # "starting" /\ run[m] # "up" /\ run[m] # "stopping" /\ run[m] \in RunState
        BY <1>1, <1>4, <2>2, <2>3, <3>1, <4>1 DEF Halting
      <4> QED
        BY <4>2 DEF AtRest, RunState
    <3> QED
      BY <1>1, <3>1 DEF Halting, OthersAtRest
  <2> QED
    BY <1>1, <1>2, <2>1, <2>4 DEF RegInv, PhaseInv, AtRest
<1>6. CASE next # Len(started)
  <2>1. /\ next + 1 \in 1 .. Len(started)
        /\ next' = next + 1 /\ phase' = phase
        /\ run' = [run EXCEPT ![StopOrder[next + 1]] = "stopping"]
    <3>1. Len(started) \in Nat /\ next \in Nat /\ next <= Len(started)
      BY <1>3
    <3>2. next + 1 \in 1 .. Len(started)
      BY <1>6, <3>1
    <3> QED
      BY <1>6, <3>2 DEF StopNext
  <2>2. PICK k \in DOMAIN started : k = Len(started) - next /\ StopOrder[next + 1] = started[k]
    BY <1>3, <2>1, LastFirst
  <2>3. PICK m \in Module : m = started[k] /\ m \in ToSet(started)
    BY <1>3 DEF ToSet
  <2>4. /\ run' \in [Module -> RunState] /\ run'[m] = "stopping"
        /\ \A x \in Module \ {m} : run'[x] = run[x]
    BY <2>1, <2>2, <2>3 DEF RegInv, RunState
  <2>5. \A j \in DOMAIN started : j # k => started[j] # m
    BY <2>3 DEF RegInv, Listed, IsInjective
  <2>6. \A j \in DOMAIN started : run'[started[j]] = IF j = k THEN "stopping" ELSE run[started[j]]
    BY <1>3, <2>3, <2>4, <2>5
  <2>7. Halting'
    <3>1. OthersAtRest' /\ \A x \in Module : run'[x] # "starting"
      BY <1>1, <2>3, <2>4 DEF Halting, OthersAtRest, AtRest
    <3>2. ASSUME NEW i \in DOMAIN started, NEW j \in DOMAIN started, i < j, run'[started[j]] = "up"
          PROVE  run'[started[i]] = "up"
      <4>1. run[started[j]] = "up" /\ j # k
        BY <2>6, <3>2
      <4>2. ~ (j > Len(started) - next)
        BY <1>1, <4>1 DEF Passed
      <4>3. i # k
        BY <1>3, <2>2, <3>2, <4>2
      <4> QED
        BY <1>1, <2>6, <3>2, <4>1, <4>3 DEF Halting
    <3> QED
      BY <1>1, <3>1, <3>2 DEF Halting
  <2>8. Passed'
    <3>1. next + 1 <= Len(started)
      BY <1>3, <2>1
    <3>2. ASSUME NEW j \in DOMAIN started, j > Len(started) - (next + 1) PROVE run'[started[j]] # "up"
      <4>1. j = k \/ j > Len(started) - next
        BY <1>3, <2>2, <3>2
      <4> QED
        BY <1>1, <2>6, <4>1 DEF Passed
    <3>3. ASSUME NEW j \in DOMAIN started, run'[started[j]] = "stopping"
          PROVE  j = Len(started) - (next + 1) + 1
      <4>1. j = k
        BY <1>4, <2>6, <3>3
      <4> QED
        BY <1>3, <2>2, <4>1
    <3> QED
      BY <1>1, <1>3, <2>1, <3>1, <3>2, <3>3 DEF Passed
  <2> QED
    BY <1>1, <1>2, <1>3, <2>1, <2>4, <2>7, <2>8 DEF RegInv, PhaseInv
<1> QED
  BY <1>5, <1>6

LEMMA ModuleStopsKeeps ==
  ASSUME RegInv, ModuleStops
  PROVE  RegInv'
<1>1. /\ phase = "stopping" /\ Halting /\ Passed /\ next > 0 /\ run[StopOrder[next]] = "stopping"
      /\ UNCHANGED <<deps, ordered, next, started, optionalFailures>>
  BY DEF ModuleStops, RegInv, PhaseInv, manifests, call
<1>2. Listed(started)' /\ Listed(ordered)'
  BY <1>1 DEF RegInv, Listed, InTurn
<1>3. PICK r \in {"down", "unstopped"} :
        /\ run' = [run EXCEPT ![StopOrder[next]] = r]
        /\ phase' = phase \/ phase' = "stuck"
  BY DEF ModuleStops
<1>4. /\ Len(started) \in Nat /\ DOMAIN started = 1 .. Len(started) /\ next \in 1 .. Len(started)
      /\ \A j \in DOMAIN started : started[j] \in Module
  BY <1>1 DEF RegInv, Listed, Passed
<1>5. PICK k \in DOMAIN started : k = Len(started) - next + 1 /\ StopOrder[next] = started[k]
  BY <1>4, LastFirst
<1>6. PICK m \in Module : m = started[k] /\ m \in ToSet(started)
  BY <1>4 DEF ToSet
<1>7. /\ run' \in [Module -> RunState] /\ run'[m] = r
      /\ \A x \in Module \ {m} : run'[x] = run[x]
  BY <1>3, <1>5, <1>6 DEF RegInv, RunState
<1>8. \A j \in DOMAIN started : j # k => started[j] # m
  BY <1>6 DEF RegInv, Listed, IsInjective
<1>9. \A j \in DOMAIN started : run'[started[j]] = IF j = k THEN r ELSE run[started[j]]
  BY <1>4, <1>6, <1>7, <1>8
<1>10. run[started[k]] = "stopping"
  BY <1>1, <1>5
<1>11. Halting'
  <2>1. OthersAtRest' /\ \A x \in Module : run'[x] # "starting"
    BY <1>1, <1>6, <1>7 DEF Halting, OthersAtRest, AtRest
  <2>2. ASSUME NEW i \in DOMAIN started, NEW j \in DOMAIN started, i < j, run'[started[j]] = "up"
        PROVE  run'[started[i]] = "up"
    <3>1. run[started[j]] = "up" /\ j # k
      BY <1>9, <2>2
    <3>2. run[started[i]] = "up"
      BY <1>1, <2>2, <3>1 DEF Halting
    <3> QED
      BY <1>9, <1>10, <3>2
  <2> QED
    BY <1>1, <2>1, <2>2 DEF Halting
<1>12. \A j \in DOMAIN started : run'[started[j]] # "stopping"
  BY <1>1, <1>4, <1>5, <1>9 DEF Passed
<1>13. Passed'
  BY <1>1, <1>9, <1>12 DEF Passed
<1>14. \A x \in Module : run'[x] # "stopping"
  <2> SUFFICES ASSUME NEW x \in Module, run'[x] = "stopping" PROVE FALSE
    OBVIOUS
  <2>1. x \in ToSet(started)
    BY <1>1, <1>11 DEF Halting, OthersAtRest, AtRest
  <2>2. PICK j \in DOMAIN started : started[j] = x
    BY <2>1 DEF ToSet
  <2> QED
    BY <1>12, <2>2
<1> QED
  BY <1>1, <1>2, <1>3, <1>7, <1>11, <1>13, <1>14 DEF RegInv, PhaseInv

(* So does every step.                                                     *)
LEMMA RegStep == RegInv /\ [RegistryNext]_registryVars => RegInv'
<1> SUFFICES ASSUME RegInv, [RegistryNext]_registryVars PROVE RegInv'
  OBVIOUS
<1>1. CASE UNCHANGED registryVars
  BY <1>1 DEF registryVars, RegInv, Listed, InTurn, PhaseInv, AtRest, OthersAtRest, Launching,
              Unwinding, Halting, Passed, Current
<1> QED
  BY <1>1, StartKeeps, StartNextKeeps, ModuleStartsKeeps, ModuleFailsKeeps, ModuleDiscardedKeeps,
     UnwindKeeps, StopKeeps, StopNextKeeps, ModuleStopsKeeps DEF RegistryNext

(* The invariant says in each phase that what a running module needs is up. *)
LEMMA NeededAreUp ==
  ASSUME RegInv
  PROVE  DependenciesUp
<1> SUFFICES ASSUME NEW m \in ToSet(ordered), phase \in {"starting", "running", "stopping", "stuck"},
                    run[m] \in {"starting", "up"}, NEW d \in ToSet(deps[m]), d \notin optionalFailures
             PROVE  run[d] = "up"
  BY DEF DependenciesUp
<1>1. m \in Module
  BY ListedModules DEF RegInv
<1>2. ASSUME m \in ToSet(started) PROVE \E i, j \in DOMAIN started : i < j /\ started[j] = m /\ started[i] = d
  <2>1. PICK j \in DOMAIN started : started[j] = m
    BY <1>2 DEF ToSet
  <2>2. PICK i \in DOMAIN started : i < j /\ started[i] = d
    BY <2>1 DEF RegInv, Listed, InTurn
  <2> QED
    BY <2>1, <2>2
<1>3. CASE phase = "starting"
  <2>1. Launching
    BY <1>3 DEF RegInv, PhaseInv
  <2>2. CASE m \in ToSet(started)
    BY <1>2, <2>1, <2>2 DEF Launching, ToSet
  <2>3. CASE m \notin ToSet(started)
    <3>1. next > 0 /\ m = Current
      BY <1>1, <2>1, <2>3 DEF Launching, AtRest
    <3>2. next \in DOMAIN ordered /\ ordered[next] = m
      BY <1>3, <3>1, CurrentModule DEF Current
    <3>3. PICK j \in DOMAIN ordered : j < next /\ ordered[j] = d
      BY <3>2 DEF RegInv, Listed, InTurn
    <3> QED
      BY <2>1, <3>3 DEF Launching
  <2> QED
    BY <2>2, <2>3
<1>4. CASE phase = "running"
  <2>1. m \in ToSet(started)
    BY <1>1, <1>4 DEF RegInv, PhaseInv, OthersAtRest, AtRest
  <2> QED
    BY <1>2, <1>4, <2>1 DEF RegInv, PhaseInv, ToSet
<1>5. CASE phase \in {"stopping", "stuck"}
  <2>1. Halting
    BY <1>5 DEF RegInv, PhaseInv
  <2>2. m \in ToSet(started) /\ run[m] = "up"
    BY <1>1, <2>1 DEF Halting, OthersAtRest, AtRest
  <2> QED
    BY <1>2, <2>1, <2>2 DEF Halting
<1> QED
  BY <1>3, <1>4, <1>5

LEMMA RegInvariance == RegistrySpec => []RegInv
BY RegInitial, RegStep, PTL DEF RegistrySpec

(* ModuleRegistry.start and stop (registry.ts:108-159), for every          *)
(* dependency graph, every selection and every start or stop that rejects: *)
(* a module that is starting or up has what it needs up.                   *)
THEOREM NothingRunsAlone == RegistrySpec => []DependenciesUp
<1>1. RegInv => DependenciesUp
  BY NeededAreUp
<1> QED
  BY <1>1, RegInvariance, PTL

(* A start that throws (registry.ts:131) has waited for every stop it      *)
(* called: nothing is left up.                                             *)
THEOREM FailedStartsAreUndone == RegistrySpec => []FailureUnwinds
<1>1. RegInv => FailureUnwinds
  BY DEF RegInv, PhaseInv, AtRest, FailureUnwinds
<1> QED
  BY <1>1, RegInvariance, PTL
=============================================================================
