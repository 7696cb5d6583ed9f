----------------------------- MODULE GrantStore -----------------------------
(***************************************************************************)
(* PairingGrantStore of packages/protocol/src/secure-pairing.ts: the       *)
(* desktop's table of application grants.  A grant carries an access token *)
(* that lives for AccessTtl and a refresh token that lives for RefreshTtl; *)
(* rotate() exchanges the refresh token for a new pair, revoke() ends the  *)
(* grant.                                                                  *)
(*                                                                         *)
(* Every method is synchronous, so each is one step.  secureRandom draws   *)
(* 16 or 32 bytes: a draw is modelled as a number never drawn before, and  *)
(* one number names the identifier and the two tokens drawn together by    *)
(* one call (they live in different fields, so they are never confused).   *)
(*                                                                         *)
(* The capabilities of a grant, its peer and its dates are data of the     *)
(* caller; the store keeps them and never reads the first two.             *)
(***************************************************************************)
EXTENDS Integers, JsMap

CONSTANTS
  Peer,          \* identities: public keys and node ids of the mobile peers
  Capability,    \* PeerCapability
  AccessTtl,     \* ACCESS_GRANT_TTL_MS
  RefreshTtl,    \* REFRESH_GRANT_TTL_MS
  MaxTime,       \* bound on the clock
  MaxDraws       \* bound on the calls of secureRandom

ASSUME TtlAssumption ==
  /\ AccessTtl \in Nat \ {0}
  /\ RefreshTtl \in Nat
  /\ RefreshTtl > AccessTtl      \* secure-pairing.ts:316

ASSUME BoundAssumption == MaxTime \in Nat /\ MaxDraws \in Nat

VARIABLES
  now,           \* Date.now()
  drawn,         \* how many times secureRandom has been called
  grants,        \* PairingGrantStore.grants: id -> PairingGrant
  spent          \* history: <<id, token>> pairs that a rotation replaced

vars == <<now, drawn, grants, spent>>

Draw == 1 .. MaxDraws

PairingGrant ==
  [ peerKey : Peer, nodeId : Peer, capabilities : SUBSET Capability,
    accessToken : Draw, refreshToken : Draw,
    issuedAt : Nat, expiresAt : Nat, refreshExpiresAt : Nat,
    rotation : Nat, revoked : BOOLEAN ]

TypeOK ==
  /\ now \in 0 .. MaxTime
  /\ drawn \in 0 .. MaxDraws
  /\ IsMapOf(grants, Draw, PairingGrant)
  /\ spent \subseteq Draw \X Draw

Init ==
  /\ now = 0
  /\ drawn = 0
  /\ grants = EmptyMap
  /\ spent = {}

-----------------------------------------------------------------------------
(* The questions the store answers.                                        *)

\* isAuthorized(id, accessToken)
IsAuthorized(id, token) ==
  /\ id \in DOMAIN grants
  /\ ~grants[id].revoked
  /\ grants[id].accessToken = token
  /\ grants[id].expiresAt > now

\* The condition rotate() does not throw on.
AcceptsRefresh_IgnoresRevocation(id, token) ==
  /\ id \in DOMAIN grants
  /\ grants[id].refreshToken = token
  /\ grants[id].refreshExpiresAt > now

AcceptsRefresh_IgnoresExpiry(id, token) ==
  /\ id \in DOMAIN grants
  /\ ~grants[id].revoked
  /\ grants[id].refreshToken = token

AcceptsRefresh(id, token) ==
  /\ id \in DOMAIN grants
  /\ ~grants[id].revoked
  /\ grants[id].refreshToken = token
  /\ grants[id].refreshExpiresAt > now

-----------------------------------------------------------------------------
(* The operations.                                                         *)

Fresh == drawn + 1

CanDraw == drawn < MaxDraws

\* The grant issue() builds: rotation 0, dates counted from now.
NewGrant(peerKey, nodeId, capabilities) ==
  [ peerKey |-> peerKey, nodeId |-> nodeId, capabilities |-> capabilities,
    accessToken |-> Fresh, refreshToken |-> Fresh,
    issuedAt |-> now, expiresAt |-> now + AccessTtl,
    refreshExpiresAt |-> now + RefreshTtl,
    rotation |-> 0, revoked |-> FALSE ]

\* issue({ peerKey, nodeId, capabilities })
Issue(peerKey, nodeId, capabilities) ==
  /\ CanDraw
  /\ grants' = MapSet(grants, Fresh, NewGrant(peerKey, nodeId, capabilities))
  /\ drawn' = Fresh
  /\ UNCHANGED <<now, spent>>

\* What rotate() makes of a grant: new secrets, a new access period, the
\* refresh period untouched.
Rotated_KeepsAccessToken(grant) ==
  [ grant EXCEPT !.refreshToken = Fresh, !.issuedAt = now,
                 !.expiresAt = now + AccessTtl, !.rotation = @ + 1 ]

Rotated(grant) ==
  [ grant EXCEPT !.accessToken = Fresh, !.refreshToken = Fresh, !.issuedAt = now,
                 !.expiresAt = now + AccessTtl, !.rotation = @ + 1 ]

\* rotate(id, refreshToken), when it does not throw
Rotate(id, token) ==
  /\ AcceptsRefresh(id, token)
  /\ CanDraw
  /\ grants' = [grants EXCEPT ![id] = Rotated(@)]
  /\ drawn' = Fresh
  /\ spent' = spent \cup {<<id, grants[id].accessToken>>, <<id, token>>}
  /\ UNCHANGED now

\* revoke(id) and revokeAll(): the grants of a set are stamped revokedAt.
Revoke(ids) ==
  /\ grants' = [id \in DOMAIN grants |->
                  IF id \in ids THEN [grants[id] EXCEPT !.revoked = TRUE]
                                ELSE grants[id]]
  /\ UNCHANGED <<now, drawn, spent>>

\* clear()
Clear ==
  /\ grants' = EmptyMap
  /\ UNCHANGED <<now, drawn, spent>>

Tick ==
  /\ now < MaxTime
  /\ now' = now + 1
  /\ UNCHANGED <<drawn, grants, spent>>

\* Any caller may present any token it has ever seen.
Next ==
  \/ \E key, node \in Peer, caps \in SUBSET Capability : Issue(key, node, caps)
  \/ \E id, token \in Draw : Rotate(id, token)
  \/ \E id \in DOMAIN grants : Revoke({id})
  \/ Revoke(DOMAIN grants)
  \/ Clear
  \/ Tick

Spec == Init /\ [][Next]_vars

-----------------------------------------------------------------------------
(* What the store promises.                                                *)

(* A secret that a rotation replaced is worth nothing afterwards, however  *)
(* many rotations follow: neither an access check nor a second rotation    *)
(* accepts it ("Invalid or reused refresh grant", secure-pairing.ts:340).  *)
SpentNeverHonoured ==
  \A s \in spent :
    /\ ~IsAuthorized(s[1], s[2])
    /\ ~AcceptsRefresh(s[1], s[2])

(* Rotation cannot keep a grant alive for ever: no access token is honoured *)
(* AccessTtl or more after the end of the refresh period fixed at issue.   *)
BoundedLifetime ==
  \A id \in DOMAIN grants :
    grants[id].expiresAt < grants[id].refreshExpiresAt + AccessTtl

(* The refresh period of a grant is fixed when it is issued: no later step *)
(* moves its end, so the chain of rotations is bounded by REFRESH_GRANT_TTL *)
RefreshPeriodFixed ==
  [][\A id \in DOMAIN grants \cap DOMAIN grants' :
       grants'[id].refreshExpiresAt = grants[id].refreshExpiresAt]_vars

(* Revocation is final ("Revocation must prevent a previously paired device *)
(* from reconnecting", ARCHITECTURE.md:86-87): from a revoked grant no step *)
(* leads to a grant with that identifier that is not revoked, and none      *)
(* gives it new secrets.                                                    *)
RevocationIsFinal ==
  [][\A id \in DOMAIN grants :
       grants[id].revoked /\ id \in DOMAIN grants' =>
         /\ grants'[id].revoked
         /\ grants'[id].accessToken = grants[id].accessToken
         /\ grants'[id].refreshToken = grants[id].refreshToken]_vars

=============================================================================
