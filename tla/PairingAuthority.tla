-------------------------- MODULE PairingAuthority --------------------------
(***************************************************************************)
(* DesktopPairingAuthority (packages/electron-app/src/secure-pairing.ts)   *)
(* with the PairingSessionStore and the PairingGrantStore it owns          *)
(* (packages/protocol/src/secure-pairing.ts).                              *)
(*                                                                         *)
(* The authority keeps two tables about the invitations it displays:       *)
(* sessions, which says until when a reference may be consumed and whether *)
(* it was, and pending, which keeps the envelope that was displayed and    *)
(* the capabilities it offers.  Both are read and written by every         *)
(* completion; entries leave pending but stay in sessions.                 *)
(*                                                                         *)
(* Every method is synchronous: one step each.  A call that throws before  *)
(* it changes anything is no step at all; the one failure that does change *)
(* state, an expired invitation, is ExpireInvitation.                      *)
(***************************************************************************)
EXTENDS Integers, FiniteSets, JsMap

CONSTANTS
  Peer, Capability, AccessTtl, RefreshTtl, MaxTime, MaxDraws,
  NoPeer,         \* the holder of an invitation nobody redeemed
  Ttl,            \* default lifetime of a session, secure-pairing.ts:259
  MaxAttempts,    \* PairingSessionStore.maxAttempts
  MaxConcurrent,  \* PairingSessionStore.maxConcurrent
  MaxRefs         \* bound on the references drawn by createSessionRef

ASSUME AuthorityAssumption ==
  /\ NoPeer \notin Peer
  /\ AccessTtl \in Nat \ {0}
  /\ RefreshTtl \in Nat
  /\ RefreshTtl > AccessTtl
  /\ MaxTime \in Nat
  /\ MaxDraws \in Nat
  /\ Ttl \in Nat \ {0}
  /\ MaxAttempts \in Nat \ {0}
  /\ MaxConcurrent \in Nat \ {0}
  /\ MaxRefs \in Nat

VARIABLES
  now, drawn, grants, spent,   \* of the grant store
  sessions,      \* PairingSessionStore.sessions: reference -> PairingSession
  pending,       \* DesktopPairingAuthority.pending: reference -> envelope
  refsDrawn,     \* how many references createSessionRef has drawn
  redemptions    \* history: one record for every grant issued

authorityVars == <<sessions, pending, refsDrawn, redemptions>>
storeVars     == <<drawn, grants, spent>>
vars          == <<now, drawn, grants, spent,
                   sessions, pending, refsDrawn, redemptions>>

Grants == INSTANCE GrantStore

Ref  == 1 .. MaxRefs
Draw == 1 .. MaxDraws

PairingSession ==
  [createdAt : Nat, expiresAt : Nat, consumed : BOOLEAN, attempts : Nat]

PendingEntry == [expiresAt : Nat, allowed : SUBSET Capability]

Redemption ==
  [ref : Ref, grant : Draw, peer : Peer, allowed : SUBSET Capability,
   createdAt : Nat, at : Nat]

TypeOK ==
  /\ Grants!TypeOK
  /\ IsMapOf(sessions, Ref, PairingSession)
  /\ IsMapOf(pending, Ref, PendingEntry)
  /\ refsDrawn \in 0 .. MaxRefs
  /\ redemptions \subseteq Redemption

Init ==
  /\ Grants!Init
  /\ sessions = EmptyMap
  /\ pending = EmptyMap
  /\ refsDrawn = 0
  /\ redemptions = {}

-----------------------------------------------------------------------------
(* PairingSessionStore                                                     *)

FreshRef_Repeats == IF refsDrawn = 0 THEN 1 ELSE refsDrawn

\* createSessionRef(): 24 random bytes, never drawn before.
FreshRef == refsDrawn + 1

\* The check create() makes before it makes a session.
HasRoom == Cardinality(DOMAIN sessions) < MaxConcurrent

NewSession ==
  [createdAt |-> now, expiresAt |-> now + Ttl, consumed |-> FALSE, attempts |-> 0]

CreateSession ==
  /\ HasRoom
  /\ refsDrawn < MaxRefs
  /\ sessions' = MapSet(sessions, FreshRef, NewSession)
  /\ refsDrawn' = FreshRef

\* The session consume(ref) does not throw on.
Consumable(ref) ==
  /\ ref \in DOMAIN sessions
  /\ ~sessions[ref].consumed
  /\ sessions[ref].expiresAt > now
  /\ sessions[ref].attempts + 1 <= MaxAttempts

Consume(ref) ==
  /\ Consumable(ref)
  /\ sessions' = [sessions EXCEPT ![ref].consumed = TRUE, ![ref].attempts = @ + 1]

-----------------------------------------------------------------------------
(* createQr({ allowedCapabilities })                                       *)

CreateQr(allowed) ==
  /\ CreateSession
  /\ pending' = MapSet(pending, FreshRef,
                       [expiresAt |-> NewSession.expiresAt, allowed |-> allowed])
  /\ UNCHANGED <<now, storeVars, redemptions>>

\* buildPairingQrEnvelope throws on more than 2048 bytes, when the session
\* has already been created: nothing is displayed and the slot is taken.
CreateQrTooLarge ==
  /\ CreateSession
  /\ UNCHANGED <<now, storeVars, pending, redemptions>>

-----------------------------------------------------------------------------
(* The two ways to redeem an invitation.                                   *)

\* What both do once they have found the invitation in order: consume the
\* session, forget the envelope, issue the grant.
Redeem_KeepsPending(ref, peerKey, nodeId, capabilities) ==
  /\ Consume(ref)
  /\ pending' = pending
  /\ Grants!Issue(peerKey, nodeId, capabilities)
  /\ redemptions' = redemptions \cup
       {[ref |-> ref, grant |-> drawn', peer |-> nodeId,
         allowed |-> pending[ref].allowed,
         createdAt |-> sessions[ref].createdAt, at |-> now]}
  /\ UNCHANGED refsDrawn

Redeem_OnlyLooksUp(ref, peerKey, nodeId, capabilities) ==
  /\ Consumable(ref)
  /\ UNCHANGED <<sessions, pending, refsDrawn>>
  /\ Grants!Issue(peerKey, nodeId, capabilities)
  /\ redemptions' = redemptions \cup
       {[ref |-> ref, grant |-> drawn', peer |-> nodeId,
         allowed |-> pending[ref].allowed,
         createdAt |-> sessions[ref].createdAt, at |-> now]}

Redeem(ref, peerKey, nodeId, capabilities) ==
  /\ Consume(ref)
  /\ pending' = MapDelete(pending, {ref})
  /\ Grants!Issue(peerKey, nodeId, capabilities)
  /\ redemptions' = redemptions \cup
       {[ref |-> ref, grant |-> drawn', peer |-> nodeId,
         allowed |-> pending[ref].allowed,
         createdAt |-> sessions[ref].createdAt, at |-> now]}
  /\ UNCHANGED refsDrawn

\* A proof as completePairing receives it.  boundToQr: protocol, ALPN and the
\* desktop's two identities are those of the displayed envelope.  signed: the
\* signature is the one of mobilePublicKey over this transcript.
Transcript ==
  [sessionRef : Ref, boundToQr : BOOLEAN, expiresAt : 0 .. MaxTime + Ttl,
   mobilePublicKey : Peer, mobileNodeId : Peer,
   requested : SUBSET Capability, granted : SUBSET Capability, signed : BOOLEAN]

\* validatePairingTranscript, the comparison with the envelope, verifyTranscript
ProvesPossession(ref, transcript) ==
  /\ transcript.expiresAt > now
  /\ transcript.sessionRef = ref
  /\ transcript.boundToQr
  /\ transcript.expiresAt = pending[ref].expiresAt
  /\ transcript.signed

\* The capabilities of a grant issued for a proof.
Negotiated(transcript, allowed) ==
  transcript.granted \cap transcript.requested \cap allowed

\* completePairing(sessionRef, { sessionRef, transcript, signature, verify })
CompletePairing(ref, transcript) ==
  /\ ref \in DOMAIN pending
  /\ ProvesPossession(ref, transcript)
  /\ Redeem(ref, transcript.mobilePublicKey, transcript.mobileNodeId,
            Negotiated(transcript, pending[ref].allowed))

\* completeScannedPairing(sessionRef, transportPeerId)
CompleteScannedPairing(ref, peer) ==
  /\ ref \in DOMAIN pending
  /\ pending[ref].expiresAt > now
  /\ Redeem(ref, peer, peer, pending[ref].allowed)

\* completeScannedPairing on an envelope that has run out: it is forgotten
\* before the call throws.
ExpireInvitation(ref) ==
  /\ ref \in DOMAIN pending
  /\ pending[ref].expiresAt <= now
  /\ pending' = MapDelete(pending, {ref})
  /\ UNCHANGED <<now, storeVars, sessions, refsDrawn, redemptions>>

-----------------------------------------------------------------------------
(* What the owner of the authority may call on its two public stores.      *)

\* sessions.revoke(ref) and sessions.clear(): pending is not told.
WithdrawSessions(refs) ==
  /\ sessions' = MapDelete(sessions, refs)
  /\ UNCHANGED <<now, storeVars, pending, refsDrawn, redemptions>>

GrantStoreCall ==
  /\ \/ \E id, token \in Draw : Grants!Rotate(id, token)
     \/ \E id \in DOMAIN grants : Grants!Revoke({id})
     \/ Grants!Revoke(DOMAIN grants)
     \/ Grants!Clear
  /\ UNCHANGED authorityVars

Tick ==
  /\ Grants!Tick
  /\ UNCHANGED authorityVars

\* A peer may present any reference, its own or one it has seen elsewhere.
Next ==
  \/ \E allowed \in SUBSET Capability : CreateQr(allowed)
  \/ CreateQrTooLarge
  \/ \E ref \in Ref, transcript \in Transcript : CompletePairing(ref, transcript)
  \/ \E ref \in Ref, peer \in Peer : CompleteScannedPairing(ref, peer)
  \/ \E ref \in Ref : ExpireInvitation(ref)
  \/ \E ref \in DOMAIN sessions : WithdrawSessions({ref})
  \/ WithdrawSessions(DOMAIN sessions)
  \/ GrantStoreCall
  \/ Tick

Spec == Init /\ [][Next]_vars

-----------------------------------------------------------------------------
(* What the authority promises.                                            *)

(* One invitation yields one grant: no two grants, by whichever of the two *)
(* ways, for one peer or for two, ever trace back to one displayed QR.     *)
RedeemedOnce ==
  \A a, b \in redemptions : a.ref = b.ref => a = b

(* The two tables agree: an invitation that is still answerable has not    *)
(* been consumed, and the deadline on the display is the one the session   *)
(* store enforces.                                                         *)
TablesAgree ==
  \A ref \in DOMAIN pending \cap DOMAIN sessions :
    /\ ~sessions[ref].consumed
    /\ sessions[ref].expiresAt = pending[ref].expiresAt

(* No grant is issued Ttl or more after its invitation was made, whichever *)
(* of the three expiry checks a call runs into.                            *)
NeverLate ==
  \A a \in redemptions : a.at < a.createdAt + Ttl

(* A grant never carries a capability its invitation did not offer, after  *)
(* any number of rotations and whatever the mobile asked for.              *)
GrantWithinOffer ==
  \A a \in redemptions :
    a.grant \in DOMAIN grants => grants[a.grant].capabilities \subseteq a.allowed

\* The invitations that could still be redeemed.
Open(ref) ==
  /\ ref \in DOMAIN pending
  /\ Consumable(ref)

-----------------------------------------------------------------------------
(* The authority implements the abstract invitation.                       *)

fate ==
  [ref \in Ref |->
     IF \E a \in redemptions : a.ref = ref THEN "redeemed"
     ELSE IF Open(ref) THEN "open"
     ELSE IF ref <= refsDrawn THEN "void" ELSE "unused"]

holder ==
  [ref \in Ref |->
     IF \E a \in redemptions : a.ref = ref
     THEN (CHOOSE a \in redemptions : a.ref = ref).peer
     ELSE NoPeer]

Invitation == INSTANCE OneUseInvitation

(* Whatever the authority does is an offer, a redemption or a withdrawal   *)
(* of an abstract one-use invitation.                                      *)
ImplementsInvitation == Invitation!Spec

=============================================================================
