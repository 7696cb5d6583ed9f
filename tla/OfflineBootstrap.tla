-------------------------- MODULE OfflineBootstrap --------------------------
(***************************************************************************)
(* The offline handoff of a pairing artifact                               *)
(* (packages/offline-bootstrap/src): a file, an NFC tag or a deep link     *)
(* carries the text of a pairing envelope, it is validated, the user       *)
(* confirms, and the replay store lets it through.                         *)
(*                                                                         *)
(* Everything up to the question to the user is one step, the answer and   *)
(* what consume() does with it another: any time may pass between them,    *)
(* and handoffs overlap.  Nothing but its issuer can tell whether the date *)
(* of an envelope has been changed on the way, so one reference may come   *)
(* with several dates.                                                     *)
(***************************************************************************)
EXTENDS Integers, FiniteSets, JsMap

CONSTANTS
  Handoff,       \* calls of handoffBootstrapFile, handoffNfc, handoffDeepLink
  Ref,           \* session references
  Content,       \* what a carrier may carry: [size, formed, ref, expires]
  MaxBytes,      \* 2048: of an artifact, a file, an envelope
  MaxEntries,    \* BootstrapReplayStore.maxEntries
  MaxTime        \* bound on the clock

ASSUME BootstrapAssumption ==
  /\ MaxEntries \in Nat /\ MaxTime \in Nat /\ MaxBytes \in Nat
  /\ Content \subseteq [size : Nat, formed : BOOLEAN, ref : Ref, expires : Nat]

VARIABLES
  now,        \* Date.now()
  consumed,   \* BootstrapReplayStore.consumed: sessionRef -> expiry
  handoff,    \* each handoff: where it stands and its artifact
  accepted    \* history: what was accepted since the store is there

vars == <<now, consumed, handoff, accepted>>

Artifact == {[ref |-> c.ref, expires |-> c.expires] : c \in Content}

Idle    == [state |-> "idle"]
Refused == [state |-> "refused"]
Asked   == [state : {"confirming", "cancelled", "accepted"}, artifact : Artifact]

TypeOK ==
  /\ now \in 0 .. MaxTime
  /\ IsMapOf(consumed, Ref, Nat)
  /\ handoff \in [Handoff -> {Idle, Refused} \cup Asked]
  /\ accepted \subseteq [by : Handoff, artifact : Artifact, at : 0 .. MaxTime]

Init ==
  /\ now = 0
  /\ consumed = EmptyMap
  /\ handoff = [h \in Handoff |-> Idle]
  /\ accepted = {}

-----------------------------------------------------------------------------
(* What the carriers hand over: content, or Nothing when they throw.       *)

Nothing == [size |-> 0]

\* readBootstrapFile: the name, the MIME type, a regular file, its size
FromFile ==
  {IF named /\ mime /\ regular /\ c.size <= MaxBytes THEN c ELSE Nothing :
     named \in BOOLEAN, mime \in BOOLEAN, regular \in BOOLEAN, c \in Content}

\* handoffNfc: the availability, then the tag
FromTag == {IF available THEN c ELSE Nothing : available \in BOOLEAN, c \in Content}

\* parseDeepLink: the URL against the configuration; the base64 of its data
\* is decoded whatever it is
FromLink ==
  {IF allowed /\ onlyData THEN c ELSE Nothing :
     allowed \in BOOLEAN, onlyData \in BOOLEAN, c \in Content}

\* parsePairingInput(text) returns, and does not throw
Parses(c) == c.size <= MaxBytes /\ c.formed /\ c.expires > now

\* validateBootstrapArtifact(data)
Valid(c) == c.size \in 1 .. MaxBytes /\ Parses(c)

Receive(h) ==
  /\ handoff[h] = Idle
  /\ \E c \in FromFile \cup FromTag \cup FromLink :
       handoff' = [handoff EXCEPT ![h] =
         IF Valid(c)
         THEN [state |-> "confirming", artifact |-> [ref |-> c.ref, expires |-> c.expires]]
         ELSE Refused]
  /\ UNCHANGED <<now, consumed, accepted>>

-----------------------------------------------------------------------------
(* BootstrapReplayStore.consume(artifact)                                  *)

Purged_TooEarly == MapDelete(consumed, {ref \in DOMAIN consumed : consumed[ref] <= now + 1})

\* first, what has run out is forgotten, whatever comes of the call
Purged == MapDelete(consumed, {ref \in DOMAIN consumed : consumed[ref] <= now})

Consumable(artifact) ==
  /\ artifact.ref \notin DOMAIN Purged
  /\ artifact.expires > now
  /\ Cardinality(DOMAIN Purged) < MaxEntries

\* confirmAndAccept(artifact, confirm, replayStore): the user's answer
Declined(h) ==
  /\ handoff[h].state = "confirming"
  /\ handoff' = [handoff EXCEPT ![h].state = "cancelled"]
  /\ UNCHANGED <<now, consumed, accepted>>

Confirmed(h) ==
  LET artifact == handoff[h].artifact
  IN /\ handoff[h].state = "confirming"
     /\ IF Consumable(artifact)
        THEN /\ consumed' = MapSet(Purged, artifact.ref, artifact.expires)
             /\ handoff' = [handoff EXCEPT ![h].state = "accepted"]
             /\ accepted' = accepted \cup {[by |-> h, artifact |-> artifact, at |-> now]}
        ELSE /\ consumed' = Purged
             /\ handoff' = [handoff EXCEPT ![h] = Refused]
             /\ UNCHANGED accepted
     /\ UNCHANGED now

\* clear(), and a restart of the application: the store is in memory only
Forget ==
  /\ consumed' = EmptyMap
  /\ accepted' = {}
  /\ UNCHANGED <<now, handoff>>

Tick ==
  /\ now < MaxTime
  /\ now' = now + 1
  /\ UNCHANGED <<consumed, handoff, accepted>>

Next ==
  \/ \E h \in Handoff : Receive(h) \/ Declined(h) \/ Confirmed(h)
  \/ Forget
  \/ Tick

Spec == Init /\ [][Next]_vars

-----------------------------------------------------------------------------
(* What the handoff promises.                                              *)

(* While an accepted artifact has not run out, no other with its reference *)
(* is accepted, by whatever carrier and with whatever date, however many   *)
(* confirmations are open at a time and however long they stay open        *)
(* ("Bootstrap artifact already replayed").  Two copies with one date are  *)
(* therefore never both accepted.                                          *)
AcceptedOnce ==
  \A a, b \in accepted :
    a # b /\ a.artifact.ref = b.artifact.ref =>
      a.at >= b.artifact.expires \/ b.at >= a.artifact.expires

(* An artifact is accepted before it runs out, although it was validated   *)
(* before the user was asked.                                              *)
AcceptedInTime ==
  \A a \in accepted : a.at < a.artifact.expires

(* A confirmed artifact is refused only if it has run out, if its          *)
(* reference was accepted with a date still to come, or if as many others  *)
(* as the store holds were: what has run out takes no room.                *)
RefusedForAReason ==
  [][\A h \in Handoff :
       handoff[h].state = "confirming" /\ handoff'[h].state = "refused" =>
         LET current == {a \in accepted : a.artifact.expires > now}
         IN \/ handoff[h].artifact.expires <= now
            \/ \E a \in current : a.artifact.ref = handoff[h].artifact.ref
            \/ Cardinality(current) >= MaxEntries]_vars
=============================================================================
