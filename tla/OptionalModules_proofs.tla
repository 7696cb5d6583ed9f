------------------------ MODULE OptionalModules_proofs -----------------------
(***************************************************************************)
(* Theorems about OfflineBootstrap, LanDiscovery, IdentityFiles and        *)
(* BleBootstrap, for any number of handoffs, references, dates, calls,     *)
(* processes and keys, and payloads of any length.                         *)
(***************************************************************************)
EXTENDS OfflineBootstrap, LanDiscovery, IdentityFiles, BleBootstrap, DataLemmas,
        FiniteSetTheorems, TLAPS

(* What the replay store still has to know: each accepted artifact that    *)
(* has not run out is in it, with its date.                                *)
Remembered ==
  \A a \in accepted :
    a.artifact.expires > now =>
      a.artifact.ref \in DOMAIN consumed /\ consumed[a.artifact.ref] = a.artifact.expires

(* It has nothing else in it: every entry was accepted, with its date.     *)
NothingElse ==
  \A ref \in DOMAIN consumed :
    \E a \in accepted : a.artifact.ref = ref /\ a.artifact.expires = consumed[ref]

(* Nothing was accepted at a time still to come, and only finitely much.   *)
Past == IsFiniteSet(accepted) /\ \A a \in accepted : a.at <= now

HandoffInv ==
  /\ TypeOK /\ Remembered /\ NothingElse /\ Past
  /\ AcceptedInTime /\ AcceptedOnce

-----------------------------------------------------------------------------
(* The replay store.                                                       *)

(* Purging forgets what has run out and nothing else.                      *)
LEMMA PurgedIsCurrent ==
  /\ DOMAIN Purged = {ref \in DOMAIN consumed : ~ (consumed[ref] <= now)}
  /\ \A ref \in DOMAIN Purged : Purged[ref] = consumed[ref]
BY DEF Purged, MapDelete

(* A handoff that waits for its user has an artifact.                      *)
LEMMA TypeOfArtifact ==
  ASSUME TypeOK, NEW h \in Handoff, handoff[h].state = "confirming"
  PROVE  /\ handoff[h] \in Asked
         /\ handoff[h].artifact \in Artifact
         /\ handoff[h].artifact.ref \in Ref
         /\ handoff[h].artifact.expires \in Nat
<1>1. handoff[h] \in {Idle, Refused} \cup Asked
  BY DEF TypeOK
<1>2. handoff[h] \in Asked
  BY <1>1 DEF Idle, Refused
<1>3. handoff[h].artifact \in Artifact
  BY <1>2 DEF Asked
<1> QED
  BY <1>2, <1>3, BootstrapAssumption DEF Artifact

-----------------------------------------------------------------------------
(* The type invariant of OfflineBootstrap.                                 *)
LEMMA HandoffInitType == Init => TypeOK
<1> SUFFICES ASSUME Init PROVE TypeOK
  OBVIOUS
<1>1. IsMapOf(consumed, Ref, Nat)
  BY EmptyMapType DEF Init
<1>2. now \in 0 .. MaxTime
  BY BootstrapAssumption DEF Init
<1>3. handoff \in [Handoff -> {Idle, Refused} \cup Asked]
  BY DEF Init
<1> QED
  BY <1>1, <1>2, <1>3 DEF Init, TypeOK

(* A carrier hands over either content of the environment or something     *)
(* that no validation lets through.                                        *)
LEMMA ValidIsContent ==
  ASSUME NEW c \in FromFile \cup FromTag \cup FromLink, Valid(c)
  PROVE  c \in Content
<1>1. c \in Content \/ c = Nothing
  BY DEF FromFile, FromTag, FromLink
<1>2. c # Nothing
  BY BootstrapAssumption DEF Valid, Nothing
<1> QED
  BY <1>1, <1>2

LEMMA HandoffStepType == TypeOK /\ [Next]_vars => TypeOK'
<1> SUFFICES ASSUME TypeOK, [Next]_vars PROVE TypeOK'
  OBVIOUS
<1>1. ASSUME NEW h \in Handoff, Receive(h) PROVE TypeOK'
  <2>1. PICK c \in FromFile \cup FromTag \cup FromLink :
          handoff' = [handoff EXCEPT ![h] =
            IF Valid(c)
            THEN [state |-> "confirming", artifact |-> [ref |-> c.ref, expires |-> c.expires]]
            ELSE Refused]
    BY <1>1 DEF Receive
  <2>2. ASSUME Valid(c)
        PROVE  [state |-> "confirming", artifact |-> [ref |-> c.ref, expires |-> c.expires]] \in Asked
    BY <2>2, ValidIsContent DEF Asked, Artifact
  <2>3. handoff' \in [Handoff -> {Idle, Refused} \cup Asked]
    BY <2>1, <2>2 DEF TypeOK
  <2> QED
    BY <1>1, <2>3 DEF Receive, TypeOK
<1>2. ASSUME NEW h \in Handoff, Declined(h) PROVE TypeOK'
  <2>1. handoff[h] \in Asked
    BY <1>2, TypeOfArtifact DEF Declined
  <2>2. [handoff[h] EXCEPT !.state = "cancelled"] \in Asked
    BY <2>1 DEF Asked
  <2>3. handoff' \in [Handoff -> {Idle, Refused} \cup Asked]
    BY <1>2, <2>2 DEF Declined, TypeOK
  <2> QED
    BY <1>2, <2>3 DEF Declined, TypeOK
<1>3. ASSUME NEW h \in Handoff, Confirmed(h) PROVE TypeOK'
  <2> DEFINE artifact == handoff[h].artifact
  <2>1. handoff[h] \in Asked /\ artifact \in Artifact /\ artifact.ref \in Ref /\ artifact.expires \in Nat
    BY <1>3, TypeOfArtifact DEF Confirmed
  <2>2. IsMapOf(Purged, Ref, Nat)
    BY MapDeleteType DEF Purged, TypeOK
  <2>3. CASE Consumable(artifact)
    <3>1. IsMapOf(consumed', Ref, Nat)
      BY <1>3, <2>1, <2>2, <2>3, MapSetType DEF Confirmed
    <3>2. [handoff[h] EXCEPT !.state = "accepted"] \in Asked
      BY <2>1 DEF Asked
    <3>3. handoff' \in [Handoff -> {Idle, Refused} \cup Asked]
      BY <1>3, <2>3, <3>2 DEF Confirmed, TypeOK
    <3>4. accepted' \subseteq [by : Handoff, artifact : Artifact, at : 0 .. MaxTime]
      BY <1>3, <2>1, <2>3 DEF Confirmed, TypeOK
    <3> QED
      BY <1>3, <3>1, <3>3, <3>4 DEF Confirmed, TypeOK
  <2>4. CASE ~ Consumable(artifact)
    <3>1. IsMapOf(consumed', Ref, Nat)
      BY <1>3, <2>2, <2>4 DEF Confirmed
    <3>2. handoff' \in [Handoff -> {Idle, Refused} \cup Asked]
      BY <1>3, <2>4 DEF Confirmed, TypeOK
    <3> QED
      BY <1>3, <2>4, <3>1, <3>2 DEF Confirmed, TypeOK
  <2> QED
    BY <2>3, <2>4
<1>4. CASE Forget
  BY <1>4, EmptyMapType DEF Forget, TypeOK
<1>5. CASE Tick
  BY <1>5, BootstrapAssumption DEF Tick, TypeOK
<1>6. CASE UNCHANGED vars
  BY <1>6 DEF vars, TypeOK
<1> QED
  BY <1>1, <1>2, <1>3, <1>4, <1>5, <1>6 DEF Next

(* The type invariant of the offline handoff.                              *)
THEOREM HandoffTypeCorrect == Spec => []TypeOK
BY HandoffInitType, HandoffStepType, PTL DEF Spec

-----------------------------------------------------------------------------
(* The invariant of the replay store.                                      *)
LEMMA HandoffInitInv == Init => HandoffInv
<1> SUFFICES ASSUME Init PROVE HandoffInv
  OBVIOUS
<1>1. accepted = {} /\ DOMAIN consumed = {}
  BY EmptyMapType DEF Init
<1>2. Remembered /\ NothingElse /\ AcceptedInTime /\ AcceptedOnce
  BY <1>1 DEF Remembered, NothingElse, AcceptedInTime, AcceptedOnce
<1>3. Past
  BY <1>1, FS_EmptySet DEF Past
<1> QED
  BY <1>2, <1>3, HandoffInitType DEF HandoffInv

(* Of what was accepted, dates are numbers.                                *)
LEMMA TypeOfAccepted ==
  ASSUME TypeOK, NEW a \in accepted
  PROVE  a.artifact.ref \in Ref /\ a.artifact.expires \in Nat /\ a.at \in Nat
<1>1. a.artifact \in Artifact /\ a.at \in 0 .. MaxTime
  BY DEF TypeOK
<1> QED
  BY <1>1, BootstrapAssumption DEF Artifact

(* An answer that lets an artifact through: had an earlier one with its    *)
(* reference not run out, the purged store would still hold it.            *)
LEMMA AcceptPreserves ==
  ASSUME HandoffInv, NEW h \in Handoff, Confirmed(h), Consumable(handoff[h].artifact)
  PROVE  Remembered' /\ NothingElse' /\ Past' /\ AcceptedInTime' /\ AcceptedOnce'
<1> DEFINE artifact == handoff[h].artifact
           new == [by |-> h, artifact |-> artifact, at |-> now]
<1>1. /\ consumed' = MapSet(Purged, artifact.ref, artifact.expires)
      /\ accepted' = accepted \cup {new}
      /\ now' = now
  BY DEF Confirmed
<1>2. artifact.ref \notin DOMAIN Purged /\ artifact.expires > now
  BY DEF Consumable
<1>3. /\ DOMAIN consumed' = DOMAIN Purged \cup {artifact.ref}
      /\ consumed'[artifact.ref] = artifact.expires
      /\ \A ref \in DOMAIN Purged : consumed'[ref] = consumed[ref]
  BY <1>1, <1>2, PurgedIsCurrent DEF MapSet
<1>4. now \in Nat /\ artifact.expires \in Nat
  BY TypeOfArtifact, BootstrapAssumption DEF HandoffInv, Confirmed, TypeOK
<1>5. ASSUME NEW a \in accepted, a.artifact.expires > now
      PROVE  /\ a.artifact.ref \in DOMAIN Purged
             /\ consumed[a.artifact.ref] = a.artifact.expires
  <2>1. a.artifact.ref \in DOMAIN consumed /\ consumed[a.artifact.ref] = a.artifact.expires
    BY <1>5 DEF HandoffInv, Remembered
  <2>2. a.artifact.expires \in Nat
    BY TypeOfAccepted DEF HandoffInv
  <2> QED
    BY <1>4, <1>5, <2>1, <2>2, PurgedIsCurrent
<1>6. new.artifact = artifact /\ new.at = now
  OBVIOUS
<1>7. Remembered'
  BY <1>1, <1>2, <1>3, <1>5, <1>6 DEF Remembered
<1>8. NothingElse'
  <2>1. \A ref \in DOMAIN Purged :
          \E a \in accepted : a.artifact.ref = ref /\ a.artifact.expires = consumed[ref]
    BY PurgedIsCurrent DEF HandoffInv, NothingElse
  <2>2. ASSUME NEW ref \in DOMAIN consumed'
        PROVE  \E a \in accepted' : a.artifact.ref = ref /\ a.artifact.expires = consumed'[ref]
    <3>1. CASE ref = artifact.ref
      BY <1>1, <1>3, <1>6, <3>1
    <3>2. CASE ref \in DOMAIN Purged
      BY <1>1, <1>3, <2>1, <3>2
    <3> QED
      BY <1>3, <2>2, <3>1, <3>2
  <2> QED
    BY <2>2 DEF NothingElse
<1>9. Past'
  <2>1. IsFiniteSet(accepted')
    BY <1>1, FS_AddElement DEF HandoffInv, Past
  <2> QED
    BY <1>1, <1>4, <1>6, <2>1 DEF HandoffInv, Past
<1>10. AcceptedInTime'
  BY <1>1, <1>2, <1>4, <1>6 DEF HandoffInv, AcceptedInTime
<1>11. AcceptedOnce'
  <2>1. ASSUME NEW a \in accepted, a.artifact.ref = artifact.ref
        PROVE  now >= a.artifact.expires
    <3>1. a.artifact.expires \in Nat
      BY TypeOfAccepted DEF HandoffInv
    <3> QED
      BY <1>2, <1>4, <1>5, <2>1, <3>1
  <2>2. ASSUME NEW a \in accepted', NEW b \in accepted', a # b, a.artifact.ref = b.artifact.ref
        PROVE  a.at >= b.artifact.expires \/ b.at >= a.artifact.expires
    <3>1. CASE a \in accepted /\ b \in accepted
      BY <2>2, <3>1 DEF HandoffInv, AcceptedOnce
    <3>2. CASE a = new /\ b \in accepted
      BY <1>6, <2>1, <2>2, <3>2
    <3>3. CASE a \in accepted /\ b = new
      BY <1>6, <2>1, <2>2, <3>3
    <3> QED
      BY <1>1, <2>2, <3>1, <3>2, <3>3
  <2> QED
    BY <2>2 DEF AcceptedOnce
<1> QED
  BY <1>7, <1>8, <1>9, <1>10, <1>11

(* What else happens: the store may be purged or emptied, time passes.     *)
LEMMA HandoffStepInv == HandoffInv /\ [Next]_vars => HandoffInv'
<1> SUFFICES ASSUME HandoffInv, [Next]_vars PROVE HandoffInv'
  OBVIOUS
<1>0. TypeOK'
  BY HandoffStepType DEF HandoffInv
<1>n. now \in Nat
  BY BootstrapAssumption DEF HandoffInv, TypeOK
<1> DEFINE Rest == Remembered /\ NothingElse /\ Past /\ AcceptedInTime /\ AcceptedOnce
<1>1. ASSUME UNCHANGED <<now, consumed, accepted>> PROVE Rest'
  BY <1>1 DEF HandoffInv, Remembered, NothingElse, Past, AcceptedInTime, AcceptedOnce
<1>2. ASSUME NEW h \in Handoff, Confirmed(h) PROVE Rest'
  <2>1. CASE Consumable(handoff[h].artifact)
    BY <1>2, <2>1, AcceptPreserves
  <2>2. CASE ~ Consumable(handoff[h].artifact)
    <3>1. consumed' = Purged /\ UNCHANGED <<now, accepted>>
      BY <1>2, <2>2 DEF Confirmed
    <3>2. Remembered'
      <4>1. ASSUME NEW a \in accepted, a.artifact.expires > now
            PROVE  a.artifact.ref \in DOMAIN Purged /\ Purged[a.artifact.ref] = a.artifact.expires
        <5>1. a.artifact.ref \in DOMAIN consumed /\ consumed[a.artifact.ref] = a.artifact.expires
          BY <4>1 DEF HandoffInv, Remembered
        <5>2. a.artifact.expires \in Nat
          BY TypeOfAccepted DEF HandoffInv
        <5> QED
          BY <1>n, <4>1, <5>1, <5>2, PurgedIsCurrent
      <4> QED
        BY <3>1, <4>1 DEF Remembered
    <3>3. NothingElse'
      BY <3>1, PurgedIsCurrent DEF HandoffInv, NothingElse
    <3> QED
      BY <3>1, <3>2, <3>3 DEF HandoffInv, Past, AcceptedInTime, AcceptedOnce
  <2> QED
    BY <2>1, <2>2
<1>3. ASSUME Forget PROVE Rest'
  <2>1. accepted' = {} /\ DOMAIN consumed' = {}
    BY <1>3, EmptyMapType DEF Forget
  <2>2. IsFiniteSet(accepted')
    BY <2>1, FS_EmptySet
  <2> QED
    BY <2>1, <2>2 DEF Remembered, NothingElse, Past, AcceptedInTime, AcceptedOnce
<1>4. ASSUME Tick PROVE Rest'
  <2>1. now' = now + 1 /\ UNCHANGED <<consumed, accepted>>
    BY <1>4 DEF Tick
  <2>2. \A a \in accepted : a.artifact.expires \in Nat /\ a.at \in Nat
    BY TypeOfAccepted DEF HandoffInv
  <2>3. Remembered' /\ Past'
    BY <1>n, <2>1, <2>2 DEF HandoffInv, Remembered, Past
  <2> QED
    BY <2>1, <2>3 DEF HandoffInv, NothingElse, AcceptedInTime, AcceptedOnce
<1>5. ASSUME NEW h \in Handoff, Receive(h) \/ Declined(h) PROVE Rest'
  BY <1>1, <1>5 DEF Receive, Declined
<1>6. ASSUME UNCHANGED vars PROVE Rest'
  BY <1>1, <1>6 DEF vars
<1>7. Rest'
  BY <1>2, <1>3, <1>4, <1>5, <1>6 DEF Next
<1> QED
  BY <1>0, <1>7 DEF HandoffInv

LEMMA HandoffInvariant == Spec => []HandoffInv
BY HandoffInitInv, HandoffStepInv, PTL DEF Spec

(* While an accepted artifact has not run out, no other with its reference *)
(* is accepted, however many confirmations are open and for how long.      *)
THEOREM ArtifactsAreAcceptedOnce == Spec => []AcceptedOnce
<1>1. HandoffInv => AcceptedOnce
  BY DEF HandoffInv
<1> QED
  BY <1>1, HandoffInvariant, PTL

(* No artifact is accepted after its date, although it was validated       *)
(* before the user was asked.                                              *)
THEOREM ArtifactsAreAcceptedInTime == Spec => []AcceptedInTime
<1>1. HandoffInv => AcceptedInTime
  BY DEF HandoffInv
<1> QED
  BY <1>1, HandoffInvariant, PTL

-----------------------------------------------------------------------------
(* A purged store has an entry for each current acceptance, and none       *)
(* besides: a full one means as many current acceptances.                  *)
LEMMA FullOfCurrent ==
  ASSUME HandoffInv, ~ (Cardinality(DOMAIN Purged) < MaxEntries)
  PROVE  Cardinality({a \in accepted : a.artifact.expires > now}) >= MaxEntries
<1> DEFINE current == {a \in accepted : a.artifact.expires > now}
           kept == DOMAIN Purged
           refOf == [a \in current |-> a.artifact.ref]
<1>1. IsFiniteSet(current)
  BY FS_Subset DEF HandoffInv, Past
<1>2. \A a \in accepted : a.artifact.expires \in Nat
  BY TypeOfAccepted DEF HandoffInv
<1>3. now \in Nat
  BY BootstrapAssumption DEF HandoffInv, TypeOK
<1>4. \A a \in current : a.artifact.ref \in kept
  BY <1>2, <1>3, PurgedIsCurrent DEF HandoffInv, Remembered
<1>5. \A ref \in kept : \E a \in current : a.artifact.ref = ref
  BY <1>2, <1>3, PurgedIsCurrent DEF HandoffInv, NothingElse
<1>6. refOf \in Surjection(current, kept)
  BY <1>4, <1>5 DEF Surjection
<1>7. IsFiniteSet(kept) /\ Cardinality(kept) <= Cardinality(current)
  BY <1>1, <1>6, FS_Surjection
<1>8. Cardinality(kept) \in Nat /\ Cardinality(current) \in Nat
  BY <1>1, <1>7, FS_CardinalityType
<1> QED
  BY <1>7, <1>8, BootstrapAssumption

(* A confirmed artifact is refused only if it has run out, if its          *)
(* reference was accepted with a date still to come, or if as many others  *)
(* as the store holds were.                                                *)
THEOREM RefusalsHaveAReason == Spec => RefusedForAReason
<1> DEFINE current == {a \in accepted : a.artifact.expires > now}
           Reason(h) == \/ handoff[h].artifact.expires <= now
                        \/ \E a \in current : a.artifact.ref = handoff[h].artifact.ref
                        \/ Cardinality(current) >= MaxEntries
           A == \A h \in Handoff :
                  handoff[h].state = "confirming" /\ handoff'[h].state = "refused" => Reason(h)
<1>1. ASSUME HandoffInv, [Next]_vars, NEW h \in Handoff,
             handoff[h].state = "confirming", handoff'[h].state = "refused"
      PROVE  Reason(h)
  <2>1. Confirmed(h) /\ ~ Consumable(handoff[h].artifact)
    <3>0. handoff \in [Handoff -> {Idle, Refused} \cup Asked]
      BY <1>1 DEF HandoffInv, TypeOK
    <3>1. ASSUME NEW g \in Handoff, Receive(g) PROVE FALSE
      <4>1. g # h
        BY <1>1, <3>1 DEF Receive, Idle
      <4> QED
        BY <1>1, <3>0, <3>1, <4>1 DEF Receive
    <3>2. ASSUME NEW g \in Handoff, Declined(g) PROVE FALSE
      <4>1. CASE g = h
        <5>1. handoff'[h] = [handoff[h] EXCEPT !.state = "cancelled"]
          BY <3>0, <3>2, <4>1 DEF Declined
        <5>2. handoff[h] \in Asked
          BY <1>1, TypeOfArtifact DEF HandoffInv
        <5> QED
          BY <1>1, <5>1, <5>2 DEF Asked
      <4>2. CASE g # h
        BY <1>1, <3>0, <3>2, <4>2 DEF Declined
      <4> QED
        BY <4>1, <4>2
    <3>3. ASSUME NEW g \in Handoff, Confirmed(g)
          PROVE  g = h /\ ~ Consumable(handoff[h].artifact)
      <4>1. g = h
        BY <1>1, <3>0, <3>3 DEF Confirmed
      <4>2. ASSUME Consumable(handoff[h].artifact) PROVE FALSE
        <5>1. handoff'[h] = [handoff[h] EXCEPT !.state = "accepted"]
          BY <3>0, <3>3, <4>1, <4>2 DEF Confirmed
        <5>2. handoff[h] \in Asked
          BY <1>1, TypeOfArtifact DEF HandoffInv
        <5> QED
          BY <1>1, <5>1, <5>2 DEF Asked
      <4> QED
        BY <4>1, <4>2
    <3> QED
      BY <1>1, <3>1, <3>2, <3>3 DEF Next, Forget, Tick, vars
  <2> DEFINE artifact == handoff[h].artifact
  <2>2. artifact.expires \in Nat /\ now \in Nat
    BY <1>1, TypeOfArtifact, BootstrapAssumption DEF HandoffInv, TypeOK
  <2>3. CASE artifact.ref \in DOMAIN Purged
    <3>1. artifact.ref \in DOMAIN consumed /\ ~ (consumed[artifact.ref] <= now)
      BY <2>3, PurgedIsCurrent
    <3>2. PICK a \in accepted : a.artifact.ref = artifact.ref
                                /\ a.artifact.expires = consumed[artifact.ref]
      BY <1>1, <3>1 DEF HandoffInv, NothingElse
    <3>3. a.artifact.expires \in Nat
      BY <1>1, TypeOfAccepted DEF HandoffInv
    <3> QED
      BY <2>2, <3>1, <3>2, <3>3
  <2>4. CASE artifact.expires <= now
    BY <2>4
  <2>5. CASE ~ (Cardinality(DOMAIN Purged) < MaxEntries)
    BY <1>1, <2>5, FullOfCurrent
  <2> QED
    BY <2>1, <2>2, <2>3, <2>4, <2>5 DEF Consumable
<1>2. HandoffInv /\ [Next]_vars => [A]_vars
  BY <1>1
<1>3. RefusedForAReason <=> [][A]_vars
  BY DEF RefusedForAReason
<1> QED
  BY <1>2, <1>3, HandoffInvariant, PTL DEF Spec

-----------------------------------------------------------------------------
(* Discovery: the listeners of a phone that is off are the counted ones,   *)
(* and the desktop has one Bonjour up when it is ready, or may have one    *)
(* when a stop() has thrown, beside those that stops have left behind.     *)
LanInv ==
  /\ LanTypeOK
  /\ lost <= listening
  /\ phoneState \in {"idle", "stopped"} =>
       scanning = FALSE /\ listening = stray + lost /\ (listening = 0 => peers = {})
  /\ onAir <= failedStops + (IF advState = "ready" THEN 1 ELSE 0)
  /\ advState \in {"ready", "stopping"} => onAir > 0

LEMMA LanInitInv == LanInit => LanInv
<1> SUFFICES ASSUME LanInit PROVE LanInv
  OBVIOUS
<1>1. scanning = FALSE /\ scanning \in BOOLEAN
  BY Zenon DEF LanInit
<1>2. /\ phoneState = "idle" /\ prompts = {} /\ listening = 0 /\ peers = {}
      /\ stray = 0 /\ lost = 0
      /\ advState = "idle" /\ onAir = 0 /\ refreshes = {} /\ failedStops = 0
  BY DEF LanInit
<1> QED
  BY <1>1, <1>2 DEF LanInv, LanTypeOK

LEMMA LanStepInv == LanInv /\ [LanNext]_lanVars => LanInv'
<1> SUFFICES ASSUME LanInv, [LanNext]_lanVars PROVE LanInv'
  OBVIOUS
<1> USE DEF LanInv, LanTypeOK
<1>1. CASE PhoneStep
  <2>1. ASSUME NEW c \in LanCall, PhoneStarts(c), UNCHANGED advVars PROVE LanInv'
    BY <2>1 DEF PhoneStarts, advVars
  <2>2. ASSUME NEW c \in LanCall, Granted(c), UNCHANGED advVars PROVE LanInv'
    BY <2>2 DEF Granted, advVars
  <2>3. ASSUME NEW c \in LanCall, GrantedThrows(c), UNCHANGED advVars PROVE LanInv'
    <3>1. PICK n \in 0..3 :
            /\ listening' = listening + n
            /\ stray' = IF phoneState \in {"idle", "stopped"} THEN stray + n ELSE stray
      BY <2>3 DEF GrantedThrows
    <3>2. /\ prompts' \subseteq LanCall
          /\ UNCHANGED <<phoneState, scanning, peers, lost, advState, onAir, refreshes, failedStops>>
      BY <2>3 DEF GrantedThrows, advVars
    <3>3. /\ listening' \in Nat /\ stray' \in Nat /\ lost' <= listening'
          /\ listening' = 0 => listening = 0
          /\ phoneState \in {"idle", "stopped"} => listening' = stray' + lost'
      BY <3>1, <3>2
    <3> QED
      BY <3>2, <3>3
  <2>4. ASSUME NEW c \in LanCall, Denied(c), UNCHANGED advVars PROVE LanInv'
    BY <2>4 DEF Denied, advVars
  <2>5. ASSUME PhoneStops, UNCHANGED advVars PROVE LanInv'
    <3>1. /\ phoneState' = "stopped"
          /\ UNCHANGED <<prompts, lost, advState, onAir, refreshes, failedStops>>
      BY <2>5 DEF PhoneStops, advVars
    <3>2. CASE NothingToStop
      <4>1. UNCHANGED <<listening, scanning, peers, stray>>
        BY <2>5, <3>2 DEF PhoneStops
      <4> QED
        BY <3>1, <3>2, <4>1 DEF NothingToStop
    <3>3. CASE ~ NothingToStop
      <4>1. listening' = lost /\ scanning' = FALSE /\ peers' = {} /\ stray' = 0
        BY <2>5, <3>3, Zenon DEF PhoneStops
      <4>2. listening' = lost' /\ listening' = stray' + lost' /\ lost' <= listening'
        BY <3>1, <4>1
      <4>3. LanTypeOK'
        BY <3>1, <4>1
      <4>4. (onAir <= failedStops + (IF advState = "ready" THEN 1 ELSE 0))'
        BY <3>1
      <4>5. (advState \in {"ready", "stopping"} => onAir > 0)'
        BY <3>1
      <4> QED
        BY <4>1, <4>2, <4>3, <4>4, <4>5, Zenon
    <3> QED
      BY <3>2, <3>3
  <2>6. ASSUME PhoneStopThrows, UNCHANGED advVars PROVE LanInv'
    <3>1. /\ phoneState' = "stopping"
          /\ UNCHANGED <<prompts, peers, advState, onAir, refreshes, failedStops>>
      BY <2>6 DEF PhoneStopThrows, advVars
    <3>2. CASE UNCHANGED <<listening, scanning, stray, lost>>
      BY <3>1, <3>2
    <3>3. CASE /\ listening' \in lost + 1..listening
               /\ lost' = listening' /\ scanning' = FALSE /\ stray' = 0
      <4>1. listening' \in Nat /\ lost' \in Nat /\ stray' \in Nat /\ lost' <= listening'
        BY <3>3
      <4>2. scanning' \in BOOLEAN
        BY <3>3, Zenon
      <4> QED
        BY <3>1, <4>1, <4>2
    <3> QED
      BY <2>6, <3>2, <3>3, Zenon DEF PhoneStopThrows
  <2>7. ASSUME NEW node \in Node, ServiceEvent(node), UNCHANGED advVars PROVE LanInv'
    BY <2>7 DEF ServiceEvent, advVars
  <2> QED
    BY <1>1, <2>1, <2>2, <2>3, <2>4, <2>5, <2>6, <2>7 DEF PhoneStep
<1>2. CASE AdvertiserStep
  <2>1. ASSUME AdvertiserStarts, UNCHANGED phoneVars PROVE LanInv'
    BY <2>1 DEF AdvertiserStarts, Publish, Unpublish, StopsHeld, phoneVars
  <2>2. ASSUME AdvertiserStops, UNCHANGED phoneVars PROVE LanInv'
    BY <2>2 DEF AdvertiserStops, Unpublish, StopsHeld, phoneVars
  <2>3. ASSUME NEW c \in LanCall, RefreshBegins(c), UNCHANGED phoneVars PROVE LanInv'
    BY <2>3 DEF RefreshBegins, Unpublish, StopsHeld, phoneVars
  <2>4. ASSUME NEW c \in LanCall, RefreshGoesOn(c), UNCHANGED phoneVars PROVE LanInv'
    BY <2>4 DEF RefreshGoesOn, Publish, Unpublish, StopsHeld, phoneVars
  <2> QED
    BY <1>2, <2>1, <2>2, <2>3, <2>4 DEF AdvertiserStep
<1>3. CASE UNCHANGED lanVars
  BY <1>3 DEF lanVars
<1> QED
  BY <1>1, <1>2, <1>3 DEF LanNext

(* A discovery module that is idle or stopped does not scan, and what it   *)
(* still hears or has on the air is no more than what a start() or a stop()*)
(* that threw has left behind, however calls overlap.                      *)
THEOREM StoppedModulesAreSilent == LanSpec => []StoppedIsSilent
<1>1. LanInv => StoppedIsSilent
  <2>1. scanning = FALSE => ~ scanning
    OBVIOUS
  <2>2. LanInv => (advState \in {"idle", "stopped"} => onAir <= failedStops)
                  /\ onAir <= failedStops + 1
    BY DEF LanInv, LanTypeOK
  <2> QED
    BY <2>1, <2>2, Zenon DEF LanInv, StoppedIsSilent
<1> QED
  BY <1>1, LanInitInv, LanStepInv, PTL DEF LanSpec

-----------------------------------------------------------------------------
(* The key files: where a process is with its key, and how far the file of *)
(* that key is.                                                            *)
FileOfLaunch ==
  \A p \in Launch :
    /\ launch[p].pc \in {"opened", "written", "synced", "up"} => launch[p].key \in Key
    /\ launch[p].pc = "opened" => file[launch[p].key] = "open"
    /\ launch[p].pc = "written" => file[launch[p].key] = "written"
    /\ launch[p].pc = "synced" => file[launch[p].key] = "synced"
    /\ launch[p].pc = "read" => named # NoKey

(* A file is written by the process that made it, and by no other.         *)
FileIsPrivate ==
  \A p, q \in Launch :
    launch[p].pc \in {"opened", "written"} /\ launch[q].pc \in {"opened", "written"}
      /\ launch[p].key = launch[q].key => p = q

KeyInv == KeyTypeOK /\ FileOfLaunch /\ FileIsPrivate /\ NeverCorrupt

LEMMA KeyInitInv == KeyInit => KeyInv
BY KeyAssumption
DEF KeyInit, KeyInv, KeyTypeOK, FileOfLaunch, FileIsPrivate, NeverCorrupt, Off

LEMMA KeyStepInv == KeyInv /\ [KeyNext]_keyVars => KeyInv'
<1> SUFFICES ASSUME KeyInv, [KeyNext]_keyVars PROVE KeyInv'
  OBVIOUS
<1> USE KeyAssumption DEF KeyInv, KeyTypeOK, FileOfLaunch, FileIsPrivate, NeverCorrupt, Off, Goto
<1>1. ASSUME NEW p \in Launch, Look(p) PROVE KeyInv'
  BY <1>1 DEF Look
<1>2. ASSUME NEW p \in Launch, Load(p) PROVE KeyInv'
  <2>1. named \in Key /\ file[named] = "synced"
    BY <1>2 DEF Load
  <2> QED
    BY <1>2, <2>1 DEF Load
<1>3. ASSUME NEW p \in Launch, OpenTemp(p) PROVE KeyInv'
  BY <1>3 DEF OpenTemp
<1>4. ASSUME NEW p \in Launch, WriteTemp(p) PROVE KeyInv'
  BY <1>4 DEF WriteTemp
<1>5. ASSUME NEW p \in Launch, SyncTemp(p) PROVE KeyInv'
  BY <1>5 DEF SyncTemp
<1>6. ASSUME NEW p \in Launch, RenameTemp(p) PROVE KeyInv'
  BY <1>6 DEF RenameTemp
<1>7. ASSUME NEW p \in Launch, Ends(p) PROVE KeyInv'
  BY <1>7 DEF Ends
<1>8. CASE PowerFails
  BY <1>8 DEF PowerFails
<1>9. CASE UNCHANGED keyVars
  BY <1>9 DEF keyVars
<1> QED
  BY <1>1, <1>2, <1>3, <1>4, <1>5, <1>6, <1>7, <1>8, <1>9 DEF KeyNext

(* No start of the application finds a key file that is not whole, however *)
(* many processes start at once and wherever they end or the power fails.  *)
THEOREM KeyFilesAreWhole == KeySpec => []NeverCorrupt
<1>1. KeyInv => NeverCorrupt
  BY DEF KeyInv
<1> QED
  BY <1>1, KeyInitInv, KeyStepInv, PTL DEF KeySpec

-----------------------------------------------------------------------------
(* BleBootstrap: from the fragments written to the payloads received.      *)

(* What the header of a fragment says of the transfer it names: the payload *)
(* that was begun, and a place in it that the sender has written.           *)
Written(f) ==
  /\ f.transfer \in Transfer
  /\ f.sequence \in Nat /\ f.sequence + 1 < sent[f.transfer].next
  /\ f.digest = sent[f.transfer].payload
  /\ f.bytes = Len(f.digest) /\ f.total = Count(Len(f.digest))

(* A transfer has begun with a payload that fits, and has been written up  *)
(* to some fragment of it.                                                 *)
SentType ==
  /\ sent \in [Transfer -> [payload : Payload \cup {<<>>}, next : Nat]]
  /\ \A t \in Transfer :
       /\ Count(Len(sent[t].payload)) \in Nat
       /\ Count(Len(sent[t].payload)) <= MaxFragments
       /\ sent[t].next <= Count(Len(sent[t].payload)) + 1

(* Whatever the link has made of it, what is received has the header of a  *)
(* fragment that was written.                                              *)
OnlyWritten ==
  /\ \A f \in air : Written(f)
  /\ fragments \in Seq(ToSet(fragments))
  /\ \A i \in DOMAIN fragments : Written(fragments[i])
  /\ \A set \in hashing :
       set \in Seq(ToSet(set)) /\ Complete(set) /\ \A i \in DOMAIN set : Written(set[i])

BleInv == SentType /\ OnlyWritten /\ ReceivedWasSent

(* The number of fragments of a payload is a number.                       *)
LEMMA CountType ==
  ASSUME NEW n \in Nat
  PROVE  Count(n) \in Nat
<1>1. ASSUME NEW m \in Nat, NEW d \in Nat \ {0} PROVE m \div d \in Nat
  OBVIOUS
<1>2. ChunkBytes \in Nat \ {0} /\ n + ChunkBytes - 1 \in Nat
  BY BleAssumption
<1> QED
  BY <1>1, <1>2 DEF Count

(* A payload has a length.                                                *)
LEMMA PayloadLen ==
  ASSUME NEW p \in Payload \cup {<<>>}
  PROVE  Len(p) \in Nat
<1>1. CASE p = <<>>
  BY <1>1
<1>2. CASE p \in Payload
  <2>1. p \in Seq(ToSet(p))
    BY <1>2, BleAssumption
  <2> QED
    BY <2>1
<1> QED
  BY <1>1, <1>2

LEMMA BleInitInv == BleInit => BleInv
<1> SUFFICES ASSUME BleInit PROVE BleInv
  OBVIOUS
<1>1. SentType
  <2>1. \A t \in Transfer : sent[t] = [payload |-> <<>>, next |-> 0]
    BY DEF BleInit, NotSent
  <2>2. Count(Len(<<>>)) = 1
    BY DEF Count
  <2>3. sent \in [Transfer -> [payload : Payload \cup {<<>>}, next : Nat]]
    BY DEF BleInit, NotSent
  <2> QED
    BY <2>1, <2>2, <2>3, BleAssumption DEF SentType
<1>2. OnlyWritten
  BY DEF BleInit, OnlyWritten
<1>3. ReceivedWasSent
  BY DEF BleInit, ReceivedWasSent
<1> QED
  BY <1>1, <1>2, <1>3 DEF BleInv

(* A transfer goes on with its payload.  What was written stays written.   *)
LEMMA SenderKeeps ==
  ASSUME BleInv, SentType',
         \A t \in Transfer : sent[t].next # 0 => sent'[t].payload = sent[t].payload,
         \A t \in Transfer : sent[t].next <= sent'[t].next,
         \A f \in air' \ air : Written(f)',
         UNCHANGED <<fragments, hashing, outcome>>
  PROVE  BleInv'
<1>1. ASSUME NEW f, Written(f) PROVE Written(f)'
  <2>1. f.transfer \in Transfer /\ sent[f.transfer].next \in Nat /\ sent'[f.transfer].next \in Nat
        /\ f.sequence \in Nat /\ f.sequence + 1 < sent[f.transfer].next
    BY <1>1 DEF BleInv, SentType, Written
  <2>2. sent[f.transfer].next # 0
    BY <2>1
  <2>3. sent'[f.transfer].payload = sent[f.transfer].payload
    BY <2>1, <2>2
  <2>4. f.sequence + 1 < sent'[f.transfer].next
    BY <2>1
  <2> QED
    BY <1>1, <2>1, <2>3, <2>4 DEF Written
<1>2. OnlyWritten'
  <2>1. \A f \in air' : Written(f)'
    BY <1>1 DEF BleInv, OnlyWritten
  <2>2. \A i \in DOMAIN fragments : \A f : f = fragments[i] => Written(f)'
    BY <1>1 DEF BleInv, OnlyWritten
  <2>3. \A set \in hashing : set \in Seq(ToSet(set)) /\ Complete(set) /\ \A i \in DOMAIN set : Written(set[i])'
    BY <1>1 DEF BleInv, OnlyWritten
  <2>4. (\A i \in DOMAIN fragments : Written(fragments[i]))'
    BY <2>2 DEF Written
  <2>5. fragments \in Seq(ToSet(fragments))
    BY DEF BleInv, OnlyWritten
  <2> QED
    BY <2>1, <2>3, <2>4, <2>5 DEF OnlyWritten
<1>3. ReceivedWasSent'
  <2> SUFFICES ASSUME outcome \notin {Waiting, Rejected}
               PROVE  \E t \in Transfer :
                        /\ outcome.payload = sent'[t].payload
                        /\ sent'[t].next > Count(Len(sent'[t].payload))
    BY DEF ReceivedWasSent, Waiting, Rejected
  <2>1. PICK t \in Transfer : /\ outcome.payload = sent[t].payload
                              /\ sent[t].next > Count(Len(sent[t].payload))
    BY DEF BleInv, ReceivedWasSent
  <2>2. /\ sent[t].next \in Nat /\ sent'[t].next \in Nat /\ Count(Len(sent[t].payload)) \in Nat
        /\ sent[t].next <= sent'[t].next
    BY DEF BleInv, SentType
  <2>3. sent[t].next # 0
    BY <2>1, <2>2
  <2> QED
    BY <2>1, <2>2, <2>3
<1> QED
  BY <1>2, <1>3 DEF BleInv

(* A transfer begins: nothing was written of it before.                    *)
LEMMA BeginKeeps ==
  ASSUME BleInv, NEW t \in Transfer, Begin(t)
  PROVE  BleInv'
<1>1. PICK payload \in Payload :
        Fits(payload) /\ sent' = [sent EXCEPT ![t] = [payload |-> payload, next |-> 1]]
  BY DEF Begin
<1>2. sent[t].next = 0
  BY DEF Begin, NotSent
<1>3. Count(Len(payload)) \in Nat /\ Count(Len(payload)) <= MaxFragments
  BY <1>1, PayloadLen, CountType DEF Fits
<1>4. SentType'
  <2>1. \A u \in Transfer : sent'[u] = IF u = t THEN [payload |-> payload, next |-> 1] ELSE sent[u]
    BY <1>1 DEF BleInv, SentType
  <2>2. sent' \in [Transfer -> [payload : Payload \cup {<<>>}, next : Nat]]
    BY <1>1 DEF BleInv, SentType
  <2> QED
    BY <1>3, <2>1, <2>2 DEF BleInv, SentType
<1>5. \A u \in Transfer : sent[u].next # 0 => sent'[u].payload = sent[u].payload
  BY <1>1, <1>2 DEF BleInv, SentType
<1>6. \A u \in Transfer : sent[u].next <= sent'[u].next
  BY <1>1, <1>2 DEF BleInv, SentType
<1> QED
  BY <1>4, <1>5, <1>6, SenderKeeps DEF Begin

(* The next fragment of a transfer is written.                             *)
LEMMA WriteKeeps ==
  ASSUME BleInv, NEW t \in Transfer, Write(t)
  PROVE  BleInv'
<1>1. PICK n, p : n = sent[t].next /\ p = sent[t].payload
  OBVIOUS
<1>2. /\ n \in 1 .. Count(Len(p)) /\ Count(Len(p)) \in Nat
      /\ air' = air \cup {Fragment(t, p, n - 1)}
      /\ sent' = [sent EXCEPT ![t].next = n + 1]
  BY <1>1 DEF Write, Fragments, BleInv, SentType
<1>3. \A u \in Transfer : sent'[u] = IF u = t THEN [payload |-> p, next |-> n + 1] ELSE sent[u]
  BY <1>1, <1>2 DEF BleInv, SentType
<1>4. sent' \in [Transfer -> [payload : Payload \cup {<<>>}, next : Nat]]
  <2>1. p \in Payload \cup {<<>>} /\ n + 1 \in Nat
    BY <1>1, <1>2 DEF BleInv, SentType
  <2> QED
    BY <1>2, <1>3, <2>1 DEF BleInv, SentType
<1>5. SentType'
  BY <1>1, <1>2, <1>3, <1>4 DEF BleInv, SentType
<1>6. ASSUME NEW f, f = Fragment(t, p, n - 1) PROVE Written(f)'
  BY <1>2, <1>3, <1>6 DEF Written, Fragment
<1>7. /\ \A u \in Transfer : sent[u].next # 0 => sent'[u].payload = sent[u].payload
      /\ \A u \in Transfer : sent[u].next <= sent'[u].next
  BY <1>1, <1>2, <1>3 DEF BleInv, SentType
<1> QED
  BY <1>2, <1>5, <1>6, <1>7, SenderKeeps DEF Write

(* A fragment that joins a list of fragments.                              *)
LEMMA AppendToList ==
  ASSUME NEW s, s \in Seq(ToSet(s)), NEW e
  PROVE  /\ Append(s, e) \in Seq(ToSet(Append(s, e)))
         /\ \A i \in DOMAIN Append(s, e) : Append(s, e)[i] = e \/ (i \in DOMAIN s /\ Append(s, e)[i] = s[i])
<1>1. /\ Len(s) \in Nat /\ DOMAIN s = 1 .. Len(s)
      /\ s \in Seq(ToSet(s) \cup {e})
  OBVIOUS
<1>2. /\ Len(Append(s, e)) = Len(s) + 1 /\ DOMAIN Append(s, e) = 1 .. Len(s) + 1
      /\ Append(s, e)[Len(s) + 1] = e /\ \A i \in 1 .. Len(s) : Append(s, e)[i] = s[i]
      /\ Append(s, e) \in Seq(ToSet(s) \cup {e})
  BY <1>1
<1>3. \A i \in 1 .. Len(s) + 1 : Append(s, e)[i] \in ToSet(Append(s, e))
  BY <1>2 DEF ToSet
<1>4. Append(s, e) \in Seq(ToSet(Append(s, e)))
  BY <1>2, <1>3
<1>5. ASSUME NEW i \in 1 .. Len(s) + 1 PROVE i = Len(s) + 1 \/ i \in 1 .. Len(s)
  BY <1>1
<1> QED
  BY <1>1, <1>2, <1>4, <1>5

(* A notification joins the set; a set that is complete is hashed.         *)
LEMMA NotifyKeeps ==
  ASSUME BleInv, NEW value, value = Garbage \/ Written(value), Notify(value)
  PROVE  BleInv'
<1>1. UNCHANGED <<air, sent>> /\ (outcome' = outcome \/ outcome' = Rejected)
  BY DEF Notify, Refuse, Push, Settle
<1>2. ASSUME NEW f, Written(f) PROVE Written(f)'
  BY <1>1, <1>2 DEF Written
<1>3. SentType' /\ ReceivedWasSent'
  BY <1>1 DEF BleInv, SentType, ReceivedWasSent, Waiting, Rejected
<1>4. OnlyWritten'
  <2>1. CASE Refuse
    <3>1. UNCHANGED <<fragments, hashing>>
      BY <2>1 DEF Refuse
    <3> QED
      BY <1>1, <3>1 DEF BleInv, OnlyWritten, Written
  <2>2. CASE Push(value) /\ value # Garbage
    <3>1. PICK kept : kept = Append(fragments, value)
      OBVIOUS
    <3>2. /\ kept \in Seq(ToSet(kept))
          /\ \A i \in DOMAIN kept : kept[i] = value \/ (i \in DOMAIN fragments /\ kept[i] = fragments[i])
      BY <3>1, AppendToList DEF BleInv, OnlyWritten
    <3>3. \A i \in DOMAIN kept : Written(kept[i])
      BY <2>2, <3>2 DEF BleInv, OnlyWritten
    <3>4. \A i \in DOMAIN kept : Written(kept[i])'
      BY <1>2, <3>3
    <3>5. fragments' = kept /\ hashing' \subseteq hashing \cup {kept} /\ (kept \in hashing' => kept \in hashing \/ Complete(kept))
      BY <2>2, <3>1 DEF Push
    <3>6. (\A f \in air : Written(f))'
      BY <1>1, <1>2 DEF BleInv, OnlyWritten
    <3>7. (fragments \in Seq(ToSet(fragments)) /\ \A i \in DOMAIN fragments : Written(fragments[i]))'
      BY <3>2, <3>4, <3>5 DEF Written
    <3>8. \A set \in hashing' : set \in Seq(ToSet(set)) /\ Complete(set) /\ \A i \in DOMAIN set : Written(set[i])'
      <4> SUFFICES ASSUME NEW set \in hashing'
                   PROVE  set \in Seq(ToSet(set)) /\ Complete(set) /\ \A i \in DOMAIN set : Written(set[i])'
        OBVIOUS
      <4>1. CASE set \in hashing
        BY <1>2, <4>1 DEF BleInv, OnlyWritten
      <4>2. CASE set \notin hashing
        BY <3>2, <3>4, <3>5, <4>2
      <4> QED
        BY <4>1, <4>2
    <3> QED
      BY <3>6, <3>7, <3>8 DEF OnlyWritten
  <2> QED
    BY <2>1, <2>2 DEF Notify
<1> QED
  BY <1>3, <1>4 DEF BleInv

(* A notification that arrives, damaged or not, has a header of a fragment *)
(* that was written, or none.                                              *)
LEMMA NotificationKeeps ==
  ASSUME BleInv, Notification
  PROVE  BleInv'
<1>1. PICK value : Notify(value) /\ (value = Garbage \/ \E f \in air : value = f \/ value = Damaged(f))
  BY DEF Notification
<1>2. ASSUME NEW f \in air PROVE Written(f) /\ Written(Damaged(f))
  BY DEF BleInv, OnlyWritten, Written, Damaged
<1> QED
  BY <1>1, <1>2, NotifyKeeps

(* What passes the comparison of the digests is a payload of which every   *)
(* fragment has been written.                                              *)
LEMMA HashedKeeps ==
  ASSUME BleInv, NEW set \in hashing, Hashed(set)
  PROVE  BleInv'
<1>1. UNCHANGED <<air, sent, fragments>> /\ hashing' \subseteq hashing
  BY DEF Hashed
<1>2. SentType' /\ OnlyWritten'
  BY <1>1 DEF BleInv, SentType, OnlyWritten, Written
<1>3. ReceivedWasSent'
  <2>1. CASE outcome' = outcome
    BY <1>1, <2>1 DEF BleInv, ReceivedWasSent, Waiting, Rejected
  <2>2. CASE outcome' # outcome
    <3>1. Intact(set) /\ outcome' = Resolved(Assembled(set))
      BY <2>2 DEF Hashed, Settle
    <3>2. outcome'.payload = set[1].digest
      BY <3>1 DEF Intact, Resolved
    <3>3. /\ set \in Seq(ToSet(set)) /\ set # <<>>
          /\ \A i \in DOMAIN set : SameTransfer(set[i], set[1]) /\ Written(set[i])
          /\ {set[i].sequence : i \in DOMAIN set} = 0 .. set[1].total - 1
      BY DEF BleInv, OnlyWritten, Complete
    <3>4. 1 \in DOMAIN set
      BY <3>3
    <3>5. PICK t \in Transfer : t = set[1].transfer
      BY <3>3, <3>4 DEF Written
    <3>6. PICK total \in Nat : total = set[1].total /\ total = Count(Len(sent[t].payload))
      BY <3>3, <3>4, <3>5 DEF Written, BleInv, SentType
    <3>7. set[1].sequence \in 0 .. total - 1
      BY <3>3, <3>4, <3>6
    <3>8. total - 1 \in 0 .. total - 1
      BY <3>6, <3>7
    <3>9. PICK i \in DOMAIN set : set[i].sequence = total - 1
      BY <3>3, <3>6, <3>8
    <3>10. total - 1 + 1 < sent[t].next
      BY <3>3, <3>5, <3>9 DEF Written, SameTransfer
    <3>11. outcome'.payload = sent[t].payload
      BY <3>2, <3>3, <3>4, <3>5 DEF Written
    <3>12. sent[t].next > Count(Len(sent[t].payload))
      BY <3>6, <3>10 DEF BleInv, SentType
    <3> QED
      BY <1>1, <3>11, <3>12 DEF ReceivedWasSent
  <2> QED
    BY <2>1, <2>2
<1> QED
  BY <1>2, <1>3 DEF BleInv

LEMMA BleStepInv == BleInv /\ [BleNext]_bleVars => BleInv'
<1> SUFFICES ASSUME BleInv, [BleNext]_bleVars PROVE BleInv'
  OBVIOUS
<1>1. CASE UNCHANGED <<air, sent, fragments, hashing, outcome>>
  BY <1>1 DEF BleInv, SentType, OnlyWritten, Written, ReceivedWasSent, Waiting, Rejected
<1>2. CASE UNCHANGED bleVars
  BY <1>1, <1>2 DEF bleVars
<1>3. ASSUME NEW t \in Transfer, Begin(t) \/ Write(t) PROVE BleInv'
  BY <1>3, BeginKeeps, WriteKeeps
<1>4. CASE Notification
  BY <1>4, NotificationKeeps
<1>5. CASE Hashes
  BY <1>5, HashedKeeps DEF Hashes
<1>6. CASE Deadline
  BY <1>1, <1>6 DEF Deadline
<1>7. CASE Cancel
  <2>1. UNCHANGED <<air, sent, hashing>> /\ fragments' = <<>> /\ outcome' = Rejected
    BY <1>7 DEF Cancel, Settle
  <2> QED
    BY <2>1 DEF BleInv, SentType, OnlyWritten, Written, ReceivedWasSent
<1> QED
  BY <1>2, <1>3, <1>4, <1>5, <1>6, <1>7 DEF BleNext

(* receiveBootstrap resolves with nothing but a payload that a sender has  *)
(* begun and written to its end (fragmentation.ts, service.ts), for any    *)
(* payloads, any size of fragment, and any number of transfers whose       *)
(* notifications are lost, doubled, damaged, mixed or out of order.        *)
THEOREM PayloadsAreThoseSent == BleSpec => []ReceivedWasSent
<1>1. BleInv => ReceivedWasSent
  BY DEF BleInv
<1> QED
  BY <1>1, BleInitInv, BleStepInv, PTL DEF BleSpec

=============================================================================
