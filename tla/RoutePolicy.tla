----------------------------- MODULE RoutePolicy -----------------------------
(***************************************************************************)
(* LocalFirstRoutePolicy (packages/route-policy/src/policy.ts): an         *)
(* operation races the candidate routes in batches, each with a trust      *)
(* check, retries and a delay between them; the first session wins, the    *)
(* others are cancelled.  Operations share the health of the routes.       *)
(*                                                                         *)
(* The score of a route (locality, cost, latency, ...) is any order, but   *)
(* that a route with an open circuit comes after all without.  When a      *)
(* circuit closes again is left to the clock.                              *)
(***************************************************************************)
EXTENDS Naturals, FiniteSets

CONSTANTS
  Operation,      \* the calls of connect and reconnect that may overlap
  Route,          \* the candidate routes
  MaxRace,        \* options.maxRace
  MaxAttempts,    \* options.maxAttemptsPerCandidate
  Threshold,      \* the failures that open a circuit; no more are counted
  NoRoute

ASSUME PolicyAssumption ==
  /\ MaxRace \in Nat \ {0}
  /\ MaxAttempts \in Nat \ {0}
  /\ Threshold \in Nat \ {0}
  /\ NoRoute \notin Route

VARIABLES
  status,      \* of an operation: idle, racing, decided, or its failure
  remaining,   \* the routes of an operation no batch has held yet
  demoted,     \* those that had an open circuit when it was ranked
  batch,       \* the routes of its current batch
  winner,      \* the first route of the batch to return a session
  attempt,     \* the attempts: where attempt() is, its number of tries, how
               \* it failed and what became of its session
  failures,    \* health.failures
  circuit,     \* health.openUntil lies ahead
  changed      \* operations the network has changed under

opVars     == <<status, remaining, demoted, batch, winner>>
healthVars == <<failures, circuit>>
vars == <<status, remaining, demoted, batch, winner, attempt, failures, circuit,
          changed>>

\* How an attempt may fail: candidate_failure stands for every failure that
\* is neither of the others.  A call that fails may also say that the network
\* has changed under it.
Failure == {"auth_failure", "candidate_failure", "cancelled"}

Verdict == Failure \cup {"transport_failure"}

NotTried == [pc |-> "idle", tries |-> 0, failure |-> "none", session |-> "none"]

AttemptState ==
  [pc : {"idle", "trusting", "connecting", "closing", "delaying", "returned", "failed"},
   tries : 0 .. MaxAttempts,
   failure : {"none"} \cup Failure,
   session : {"none", "open", "closed"}]

TypeOK ==
  /\ status \in [Operation -> {"idle", "racing", "decided"} \cup Verdict]
  /\ remaining \in [Operation -> SUBSET Route]
  /\ demoted \in [Operation -> SUBSET Route]
  /\ batch \in [Operation -> SUBSET Route]
  /\ winner \in [Operation -> Route \cup {NoRoute}]
  /\ attempt \in [Operation -> [Route -> AttemptState]]
  /\ failures \in [Route -> 0 .. Threshold]
  /\ circuit \in [Route -> BOOLEAN]
  /\ changed \subseteq Operation

Init ==
  /\ status = [o \in Operation |-> "idle"]
  /\ remaining = [o \in Operation |-> {}] /\ demoted = [o \in Operation |-> {}]
  /\ batch = [o \in Operation |-> {}]
  /\ winner = [o \in Operation |-> NoRoute]
  /\ attempt = [o \in Operation |-> [r \in Route |-> NotTried]]
  /\ failures = [r \in Route |-> 0] /\ circuit = [r \in Route |-> FALSE]
  /\ changed = {}

-----------------------------------------------------------------------------
(* attempt()                                                               *)

\* The controllers of a batch are aborted when its operation is decided.
Aborted(o) == status[o] = "decided"

Set(o, r, next) == attempt' = [attempt EXCEPT ![o][r] = next]

Fail(o, r, failure) ==
  Set(o, r, [attempt[o][r] EXCEPT !.pc = "failed", !.failure = failure])

Try_ForgetsCount(o, r) ==
  IF Aborted(o) THEN Fail(o, r, "cancelled")
  ELSE Set(o, r, [attempt[o][r] EXCEPT !.pc = "connecting"])

\* The head of the retry loop.
Try(o, r) ==
  IF Aborted(o) THEN Fail(o, r, "cancelled")
  ELSE Set(o, r, [attempt[o][r] EXCEPT !.pc = "connecting", !.tries = @ + 1])

\* The catch of the retry loop.
Caught(o, r, failure, session) ==
  LET retry == failure # "auth_failure" /\ attempt[o][r].tries < MaxAttempts
  IN Set(o, r, [attempt[o][r] EXCEPT !.pc = IF retry THEN "delaying" ELSE "failed",
                                     !.failure = IF retry THEN "none" ELSE failure,
                                     !.session = session])

\* trust() answers yes or no.
TrustSettles(o, r) ==
  /\ attempt[o][r].pc = "trusting"
  /\ Try(o, r) \/ Fail(o, r, "auth_failure")
  /\ UNCHANGED <<opVars, healthVars, changed>>

\* trust() rejects: with any error, so with any failure.
TrustRejects(o, r) ==
  /\ attempt[o][r].pc = "trusting"
  /\ \E failure \in Failure : Fail(o, r, failure)
  /\ UNCHANGED <<opVars, healthVars, changed>>

\* adapter.connect resolves before the race is decided.  Promise.any takes
\* the first of the batch; until connect goes on, another may follow.
Connected(o, r) ==
  /\ attempt[o][r].pc = "connecting" /\ ~Aborted(o)
  /\ Set(o, r, [attempt[o][r] EXCEPT !.pc = "returned", !.session = "open"])
  /\ winner' = [winner EXCEPT ![o] = IF @ = NoRoute THEN r ELSE @]
  /\ failures' = [failures EXCEPT ![r] = 0]
  /\ circuit' = [circuit EXCEPT ![r] = FALSE]
  /\ UNCHANGED <<status, remaining, demoted, batch, changed>>

ConnectedLate_Returns(o, r) ==
  /\ attempt[o][r].pc = "connecting" /\ Aborted(o)
  /\ Set(o, r, [attempt[o][r] EXCEPT !.pc = "failed", !.failure = "cancelled",
                                     !.session = "open"])
  /\ UNCHANGED <<opVars, healthVars, changed>>

\* It resolves when the race is lost.
ConnectedLate(o, r) ==
  /\ attempt[o][r].pc = "connecting" /\ Aborted(o)
  /\ Set(o, r, [attempt[o][r] EXCEPT !.pc = "closing", !.session = "open"])
  /\ UNCHANGED <<opVars, healthVars, changed>>

\* session.close('race_lost') resolves, or rejects with any error: the
\* session counts as closed, its owner has nothing else to ask of it.
LateSessionCloses(o, r) ==
  /\ attempt[o][r].pc = "closing"
  /\ \E failure \in Failure : Caught(o, r, failure, "closed")
  /\ UNCHANGED <<opVars, healthVars, changed>>

\* adapter.connect rejects.
ConnectFails(o, r) ==
  /\ attempt[o][r].pc = "connecting"
  /\ \E failure \in Failure : Caught(o, r, failure, attempt[o][r].session)
  /\ UNCHANGED <<opVars, healthVars, changed>>

\* delay() resolves, or rejects for the abort.
DelayEnds(o, r) ==
  /\ attempt[o][r].pc = "delaying"
  /\ Try(o, r)
  /\ UNCHANGED <<opVars, healthVars, changed>>

-----------------------------------------------------------------------------
(* connect()                                                               *)

\* The next maxRace routes in the order of rank: none with an open circuit
\* while one without is left out.
NextBatch(left, last) ==
  {B \in SUBSET left :
     /\ Cardinality(B) = IF Cardinality(left) < MaxRace THEN Cardinality(left) ELSE MaxRace
     /\ B \cap last # {} => left \ last \subseteq B}

StartBatch(o, left, last) ==
  \E B \in NextBatch(left, last) :
    /\ batch' = [batch EXCEPT ![o] = B]
    /\ remaining' = [remaining EXCEPT ![o] = left \ B]
    /\ attempt' = [attempt EXCEPT ![o] =
         [r \in Route |-> IF r \in B THEN [NotTried EXCEPT !.pc = "trusting"]
                                     ELSE attempt[o][r]]]

\* A candidate whose trust binding names another peer, before anything else.
Mismatch(o) ==
  /\ status[o] = "idle"
  /\ status' = [status EXCEPT ![o] = "auth_failure"]
  /\ UNCHANGED <<remaining, demoted, batch, winner, attempt, healthVars, changed>>

\* rank, and the first batch
Connect(o) ==
  /\ status[o] = "idle"
  /\ \E candidates \in SUBSET Route \ {{}} :
       LET last == {r \in candidates : circuit[r]}
       IN /\ demoted' = [demoted EXCEPT ![o] = last]
          /\ StartBatch(o, candidates, last)
  /\ status' = [status EXCEPT ![o] = "racing"]
  /\ UNCHANGED <<winner, healthVars, changed>>

\* rank leaves no candidate.
ConnectNone(o) ==
  /\ status[o] = "idle"
  /\ status' = [status EXCEPT ![o] = "candidate_failure"]
  /\ UNCHANGED <<remaining, demoted, batch, winner, attempt, healthVars, changed>>

\* Promise.any has resolved: the others of the batch are aborted.
Decide(o) ==
  /\ status[o] = "racing" /\ winner[o] # NoRoute
  /\ status' = [status EXCEPT ![o] = "decided"]
  /\ UNCHANGED <<remaining, demoted, batch, winner, attempt, healthVars, changed>>

FailedWith(o, failure) == {r \in batch[o] : attempt[o][r].failure = failure}

\* As it would be with Promise.race for Promise.any.
AllFailed_AnyFailed(o) ==
  /\ status[o] = "racing" /\ winner[o] = NoRoute
  /\ \E r \in batch[o] : attempt[o][r].pc = "failed"

\* Promise.any rejects once every attempt of the batch has.
AllFailed(o) ==
  /\ status[o] = "racing" /\ winner[o] = NoRoute
  /\ \A r \in batch[o] : attempt[o][r].pc = "failed"

AuthFailed_InAll(o) == FailedWith(o, "auth_failure") = batch[o]

AuthFailed(o) == FailedWith(o, "auth_failure") # {}

BatchFailsOnAuth(o) ==
  /\ AllFailed(o) /\ AuthFailed(o)
  /\ status' = [status EXCEPT ![o] = "auth_failure"]
  /\ UNCHANGED <<remaining, demoted, batch, winner, attempt, healthVars, changed>>

\* recordFailure of the routes of a batch that were not cancelled
Counted(o, r) ==
  IF r \in FailedWith(o, "candidate_failure") /\ failures[r] < Threshold
  THEN failures[r] + 1 ELSE failures[r]

RecordFailures(o) ==
  /\ failures' = [r \in Route |-> Counted(o, r)]
  /\ circuit' = [r \in Route |->
       circuit[r] \/ (r \in FailedWith(o, "candidate_failure") /\ Counted(o, r) >= Threshold)]

\* The routes of a batch that may have been ranked last
RankedLast(o) ==
  {r \in batch[o] : batch[o] \cap demoted[o] # {} => r \in demoted[o]}

\* Then the next batch, or the verdict: how the last of the ranking failed,
\* unless the network has changed.
BatchFails(o) ==
  /\ AllFailed(o) /\ ~AuthFailed(o)
  /\ RecordFailures(o)
  /\ \/ /\ remaining[o] # {}
        /\ StartBatch(o, remaining[o], demoted[o])
        /\ UNCHANGED status
     \/ /\ remaining[o] = {}
        /\ \E r \in RankedLast(o) :
             status' = [status EXCEPT ![o] =
               IF o \in changed THEN "transport_failure" ELSE attempt[o][r].failure]
        /\ UNCHANGED <<remaining, batch, attempt>>
  /\ UNCHANGED <<demoted, winner, changed>>

\* The session of the decision is closed by its owner.
CloseSession(o) ==
  /\ status[o] = "decided" /\ attempt[o][winner[o]].session = "open"
  /\ Set(o, winner[o], [attempt[o][winner[o]] EXCEPT !.session = "closed"])
  /\ UNCHANGED <<opVars, healthVars, changed>>

\* The caller makes another call when everything about one is over.
Again(o) ==
  /\ status[o] \in {"decided"} \cup Verdict
  /\ \A r \in Route : /\ attempt[o][r].pc \in {"idle", "failed", "returned"}
                      /\ r = winner[o] => attempt[o][r].session = "closed"
  /\ status' = [status EXCEPT ![o] = "idle"]
  /\ remaining' = [remaining EXCEPT ![o] = {}]
  /\ demoted' = [demoted EXCEPT ![o] = {}]
  /\ batch' = [batch EXCEPT ![o] = {}]
  /\ winner' = [winner EXCEPT ![o] = NoRoute]
  /\ attempt' = [attempt EXCEPT ![o] = [r \in Route |-> NotTried]]
  /\ changed' = changed \ {o}
  /\ UNCHANGED healthVars

-----------------------------------------------------------------------------
(* Health                                                                  *)

\* invalidateNetwork
NetworkChanges ==
  /\ changed' = {o \in Operation : status[o] # "idle"}
  /\ circuit' = [r \in Route |-> FALSE]
  /\ UNCHANGED <<opVars, attempt, failures>>

\* openUntil has passed.
CircuitCloses(r) ==
  /\ circuit[r]
  /\ circuit' = [circuit EXCEPT ![r] = FALSE]
  /\ UNCHANGED <<opVars, attempt, failures, changed>>

-----------------------------------------------------------------------------
AdapterStep(o, r) == Connected(o, r) \/ ConnectedLate(o, r) \/ ConnectFails(o, r)

AttemptStep(o, r) ==
  \/ TrustSettles(o, r) \/ TrustRejects(o, r) \/ AdapterStep(o, r)
  \/ LateSessionCloses(o, r) \/ DelayEnds(o, r)

Continue(o) == Decide(o) \/ BatchFailsOnAuth(o) \/ BatchFails(o)

Next ==
  \/ \E o \in Operation :
       \/ Mismatch(o) \/ Connect(o) \/ ConnectNone(o) \/ Continue(o)
       \/ CloseSession(o) \/ Again(o)
       \/ \E r \in Route : AttemptStep(o, r)
  \/ NetworkChanges
  \/ \E r \in Route : CircuitCloses(r)

Spec == Init /\ [][Next]_vars

\* Timers, continuations, and the adapter: it is called with a timeout.  The
\* trust verifier is not, so nothing is assumed of it.
FairSpec ==
  /\ Spec
  /\ \A o \in Operation :
       /\ WF_vars(Continue(o))
       /\ \A r \in Route :
            /\ WF_vars(AdapterStep(o, r)) /\ WF_vars(DelayEnds(o, r))
            /\ WF_vars(LateSessionCloses(o, r))

-----------------------------------------------------------------------------
(* What the policy promises.                                               *)

(* After a batch in which an attempt failed with auth_failure (trust() said *)
(* no, or the adapter gave that failure) and none won, no other route is   *)
(* tried and the operation fails with auth_failure (policy.ts:152-155),    *)
(* however and whenever the other attempts of the batch failed.            *)
AuthIsTerminal ==
  \A o \in Operation, r \in Route :
    attempt[o][r].failure = "auth_failure" =>
      r \in batch[o] /\ status[o] \notin Verdict \ {"auth_failure"}

(* "An authentication or trust failure is terminal for the operation and   *)
(* never silently downgrades" (route-policy/README.md:9).  The code keeps  *)
(* it for a trust() that says no, and not for one that rejects: that is a  *)
(* candidate_failure (policy.ts:22, 210), and the next batch is tried.  An *)
(* attempt that failed before its first try failed in its trust check.     *)
TrustFailureIsTerminal ==
  \A o \in Operation, r \in Route :
    attempt[o][r].tries = 0 /\ attempt[o][r].failure \in {"auth_failure", "candidate_failure"} =>
      r \in batch[o] /\ status[o] \notin Verdict \ {"auth_failure"}

(* An operation that fails leaves nothing behind: every attempt it started *)
(* is over and none of their sessions is open.                             *)
FailureLeavesNothing ==
  \A o \in Operation, r \in Route :
    status[o] \in Verdict =>
      attempt[o][r].pc \in {"idle", "failed"} /\ attempt[o][r].session # "open"

(* The health of a route is shared by concurrent operations, reset by a    *)
(* success of any and by a change of the network: a circuit is open only   *)
(* while the route has failed Threshold times without success.             *)
CircuitNeedsFailures ==
  \A r \in Route : circuit[r] => failures[r] >= Threshold

(* A session that opens when the race is lost is closed (policy.ts:227):   *)
(* its close() is called and has settled.                                  *)
LostSessionsAreClosed ==
  \A o \in Operation, r \in Route :
    attempt[o][r].session = "open" /\ attempt[o][r].pc # "returned"
      ~> attempt[o][r].session = "closed"

(* Every operation comes to a decision or a verdict, through any number of *)
(* batches, retries and delays; only a trust verifier that never answers   *)
(* can keep it waiting.                                                    *)
EveryOperationSettles ==
  (\A o \in Operation, r \in Route : []<>(attempt[o][r].pc # "trusting")) =>
    \A o \in Operation : status[o] = "racing" ~> status[o] # "racing"

=============================================================================
