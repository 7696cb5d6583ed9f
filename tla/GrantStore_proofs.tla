-------------------------- MODULE GrantStore_proofs --------------------------
(***************************************************************************)
(* What the grant store promises, for any number of peers, draws and ticks *)
(* and any two lifetimes that satisfy TtlAssumption.                       *)
(*                                                                         *)
(* SpentNeverHonoured is not inductive: that an old secret differs from    *)
(* the current one of its grant only holds because secrets are never drawn *)
(* twice.  IInv adds what that means here: every secret in use or replaced *)
(* was drawn before, and a replaced one before the one in use.             *)
(***************************************************************************)
EXTENDS GrantStore, DataLemmas

\* The identifier and the secrets a grant carries now have been drawn.
DrawnBefore ==
  \A id \in DOMAIN grants :
    /\ id <= drawn
    /\ grants[id].accessToken <= drawn
    /\ grants[id].refreshToken <= drawn

\* The secrets a rotation replaced have been drawn, for a grant that exists
\* or existed, and before those that replaced them.
SpentIsOld ==
  \A s \in spent :
    /\ s[1] <= drawn /\ s[2] <= drawn
    /\ s[1] \in DOMAIN grants =>
         s[2] < grants[s[1]].accessToken /\ s[2] < grants[s[1]].refreshToken

IInv == TypeOK /\ DrawnBefore /\ SpentIsOld

-----------------------------------------------------------------------------
(* The grant issue() returns is well formed. *)
LEMMA NewGrantType ==
  ASSUME TypeOK, CanDraw, NEW key \in Peer, NEW node \in Peer,
         NEW caps \in SUBSET Capability
  PROVE  NewGrant(key, node, caps) \in PairingGrant /\ Fresh \in Draw
BY TtlAssumption, BoundAssumption
   DEF TypeOK, CanDraw, NewGrant, PairingGrant, Fresh, Draw

(* The grant rotate() leaves behind is well formed. *)
LEMMA RotatedType ==
  ASSUME TypeOK, CanDraw, NEW grant \in PairingGrant
  PROVE  Rotated(grant) \in PairingGrant
<1>1. /\ Fresh \in Draw /\ now \in Nat /\ now + AccessTtl \in Nat
      /\ grant.rotation + 1 \in Nat
  BY TtlAssumption, BoundAssumption DEF TypeOK, CanDraw, PairingGrant, Fresh, Draw
<1> QED
  BY <1>1 DEF Rotated, PairingGrant

-----------------------------------------------------------------------------
(* TypeOK holds initially and every step keeps it. *)
LEMMA InitTypeOK == Init => TypeOK
BY EmptyMapType, BoundAssumption DEF Init, TypeOK

LEMMA NextTypeOK == TypeOK /\ [Next]_vars => TypeOK'
<1> SUFFICES ASSUME TypeOK, [Next]_vars PROVE TypeOK'
  OBVIOUS
<1> USE DEF TypeOK
<1>1. ASSUME NEW key \in Peer, NEW node \in Peer, NEW caps \in SUBSET Capability,
             Issue(key, node, caps)
      PROVE  TypeOK'
  <2>1. CanDraw /\ drawn' = Fresh /\ now' = now /\ spent' = spent
    BY <1>1 DEF Issue
  <2>2. IsMapOf(grants', Draw, PairingGrant)
    BY <1>1, <2>1, NewGrantType, MapSetType DEF Issue
  <2> QED
    BY <2>1, <2>2, BoundAssumption DEF CanDraw, Fresh
<1>2. ASSUME NEW id \in Draw, NEW token \in Draw, Rotate(id, token)
      PROVE  TypeOK'
  <2>1. /\ CanDraw /\ id \in DOMAIN grants /\ drawn' = Fresh /\ now' = now
        /\ spent' = spent \cup {<<id, grants[id].accessToken>>, <<id, token>>}
        /\ grants' = [grants EXCEPT ![id] = Rotated(grants[id])]
    BY <1>2 DEF Rotate, AcceptsRefresh
  <2>2. grants[id] \in PairingGrant /\ grants[id].accessToken \in Draw
    BY <2>1 DEF IsMapOf, PairingGrant
  <2>3. IsMapOf(grants', Draw, PairingGrant)
    BY <2>1, <2>2, RotatedType DEF IsMapOf
  <2> QED
    BY <2>1, <2>2, <2>3, BoundAssumption DEF CanDraw, Fresh
<1>3. ASSUME NEW ids, Revoke(ids)
      PROVE  TypeOK'
  <2>1. ASSUME NEW id \in DOMAIN grants
        PROVE  [grants[id] EXCEPT !.revoked = TRUE] \in PairingGrant
    BY DEF IsMapOf, PairingGrant
  <2>2. IsMapOf(grants', Draw, PairingGrant)
    BY <1>3, <2>1 DEF Revoke, IsMapOf
  <2> QED
    BY <1>3, <2>2 DEF Revoke
<1>4. CASE Clear
  BY <1>4, EmptyMapType DEF Clear
<1>5. CASE Tick
  BY <1>5, BoundAssumption DEF Tick
<1>6. CASE UNCHANGED vars
  BY <1>6 DEF vars
<1> QED
  BY <1>1, <1>2, <1>3, <1>4, <1>5, <1>6 DEF Next

(* Every reachable state of the store has the declared type. *)
THEOREM TypeCorrect == Spec => []TypeOK
<1> QED
  BY InitTypeOK, NextTypeOK, PTL DEF Spec

-----------------------------------------------------------------------------
(* The strengthened invariant holds initially and every step keeps it. *)
LEMMA InitIInv == Init => IInv
BY InitTypeOK, EmptyMapType DEF Init, IInv, DrawnBefore, SpentIsOld

LEMMA NextIInv == IInv /\ [Next]_vars => IInv'
<1> SUFFICES ASSUME IInv, [Next]_vars PROVE DrawnBefore' /\ SpentIsOld'
  BY NextTypeOK DEF IInv
<1> USE DEF IInv
<1>0. /\ drawn \in Nat
      /\ \A id \in DOMAIN grants :
           /\ id \in Nat /\ grants[id].accessToken \in Nat
           /\ grants[id].refreshToken \in Nat
      /\ \A s \in spent : s[1] \in Nat /\ s[2] \in Nat
  BY DEF TypeOK, IsMapOf, PairingGrant, Draw
<1>1. ASSUME NEW key \in Peer, NEW node \in Peer, NEW caps \in SUBSET Capability,
             Issue(key, node, caps)
      PROVE  DrawnBefore' /\ SpentIsOld'
  <2> DEFINE g == NewGrant(key, node, caps)
  <2>1. /\ drawn' = drawn + 1 /\ spent' = spent
        /\ grants' = MapSet(grants, drawn + 1, g)
    BY <1>1 DEF Issue, Fresh
  <2>2. g.accessToken = drawn + 1 /\ g.refreshToken = drawn + 1
    BY DEF NewGrant, Fresh
  <2>3. /\ DOMAIN grants' = DOMAIN grants \cup {drawn + 1}
        /\ grants'[drawn + 1] = g
        /\ \A id \in DOMAIN grants \ {drawn + 1} : grants'[id] = grants[id]
    BY <2>1 DEF MapSet
  <2>4. DrawnBefore'
    BY <1>0, <2>1, <2>2, <2>3 DEF DrawnBefore
  <2>5. SpentIsOld'
    BY <1>0, <2>1, <2>2, <2>3 DEF SpentIsOld
  <2> QED
    BY <2>4, <2>5
<1>2. ASSUME NEW id \in Draw, NEW token \in Draw, Rotate(id, token)
      PROVE  DrawnBefore' /\ SpentIsOld'
  <2>1. /\ id \in DOMAIN grants /\ token = grants[id].refreshToken
        /\ drawn' = drawn + 1
        /\ spent' = spent \cup {<<id, grants[id].accessToken>>, <<id, token>>}
        /\ grants' = [grants EXCEPT ![id] = Rotated(grants[id])]
    BY <1>2 DEF Rotate, AcceptsRefresh, Fresh
  <2>2. /\ Rotated(grants[id]).accessToken = drawn + 1
        /\ Rotated(grants[id]).refreshToken = drawn + 1
    BY <2>1 DEF Rotated, Fresh, TypeOK, IsMapOf, PairingGrant
  <2>3. /\ DOMAIN grants' = DOMAIN grants
        /\ grants'[id] = Rotated(grants[id])
        /\ \A k \in DOMAIN grants \ {id} : grants'[k] = grants[k]
    BY <2>1 DEF TypeOK, IsMapOf
  <2>4. DrawnBefore'
    BY <1>0, <2>1, <2>2, <2>3 DEF DrawnBefore
  <2>5. id <= drawn
    BY <2>1 DEF DrawnBefore
  <2>6. SpentIsOld'
    BY <1>0, <2>1, <2>2, <2>3, <2>5 DEF SpentIsOld, DrawnBefore
  <2> QED
    BY <2>4, <2>6
<1>3. ASSUME NEW ids, Revoke(ids)
      PROVE  DrawnBefore' /\ SpentIsOld'
  <2>1. /\ drawn' = drawn /\ spent' = spent /\ DOMAIN grants' = DOMAIN grants
        /\ \A id \in DOMAIN grants :
             /\ grants'[id].accessToken = grants[id].accessToken
             /\ grants'[id].refreshToken = grants[id].refreshToken
    BY <1>3 DEF Revoke, TypeOK, IsMapOf, PairingGrant
  <2> QED
    BY <2>1 DEF DrawnBefore, SpentIsOld
<1>4. CASE Clear
  BY <1>4, EmptyMapType DEF Clear, DrawnBefore, SpentIsOld
<1>5. CASE Tick
  BY <1>5 DEF Tick, DrawnBefore, SpentIsOld
<1>6. CASE UNCHANGED vars
  BY <1>6 DEF vars, DrawnBefore, SpentIsOld
<1> QED
  BY <1>1, <1>2, <1>3, <1>4, <1>5, <1>6 DEF Next

(* No access check and no rotation accepts a replaced secret, in any state. *)
LEMMA IInvImpliesSpentNeverHonoured == IInv => SpentNeverHonoured
BY DEF IInv, TypeOK, SpentIsOld, SpentNeverHonoured, IsAuthorized, AcceptsRefresh,
       IsMapOf, PairingGrant, Draw

(* A replaced secret is never honoured again. *)
THEOREM ReplacedSecretsAreDead == Spec => []SpentNeverHonoured
<1> QED
  BY InitIInv, NextIInv, IInvImpliesSpentNeverHonoured, PTL DEF Spec

-----------------------------------------------------------------------------
(* Rotation does not prolong a grant for ever: the bound on the last access *)
(* period is kept by every step. *)
LEMMA NextBoundedLifetime ==
  TypeOK /\ BoundedLifetime /\ [Next]_vars => BoundedLifetime'
<1> SUFFICES ASSUME TypeOK, BoundedLifetime, [Next]_vars PROVE BoundedLifetime'
  OBVIOUS
<1>0. /\ now \in Nat
      /\ \A id \in DOMAIN grants :
           grants[id] \in PairingGrant /\ grants[id].refreshExpiresAt \in Nat
  BY DEF TypeOK, IsMapOf, PairingGrant
<1>1. ASSUME NEW key \in Peer, NEW node \in Peer, NEW caps \in SUBSET Capability,
             Issue(key, node, caps)
      PROVE  BoundedLifetime'
  <2> DEFINE g == NewGrant(key, node, caps)
  <2>1. g.expiresAt = now + AccessTtl /\ g.refreshExpiresAt = now + RefreshTtl
    BY DEF NewGrant
  <2>2. g.expiresAt < g.refreshExpiresAt + AccessTtl
    BY <1>0, <2>1, TtlAssumption
  <2>3. /\ DOMAIN grants' = DOMAIN grants \cup {Fresh}
        /\ grants'[Fresh] = g
        /\ \A id \in DOMAIN grants \ {Fresh} : grants'[id] = grants[id]
    BY <1>1 DEF Issue, MapSet
  <2> QED
    BY <2>2, <2>3 DEF BoundedLifetime
<1>2. ASSUME NEW id \in Draw, NEW token \in Draw, Rotate(id, token)
      PROVE  BoundedLifetime'
  <2>1. /\ id \in DOMAIN grants /\ grants[id].refreshExpiresAt > now
        /\ grants' = [grants EXCEPT ![id] = Rotated(grants[id])]
    BY <1>2 DEF Rotate, AcceptsRefresh
  <2>2. /\ Rotated(grants[id]).expiresAt = now + AccessTtl
        /\ Rotated(grants[id]).refreshExpiresAt = grants[id].refreshExpiresAt
    BY <1>0, <2>1 DEF Rotated, PairingGrant
  <2>3. Rotated(grants[id]).expiresAt < Rotated(grants[id]).refreshExpiresAt + AccessTtl
    BY <1>0, <2>1, <2>2, TtlAssumption
  <2>4. /\ DOMAIN grants' = DOMAIN grants
        /\ grants'[id] = Rotated(grants[id])
        /\ \A k \in DOMAIN grants \ {id} : grants'[k] = grants[k]
    BY <2>1 DEF TypeOK, IsMapOf
  <2> QED
    BY <2>3, <2>4 DEF BoundedLifetime
<1>3. ASSUME NEW ids, Revoke(ids)
      PROVE  BoundedLifetime'
  <2>1. /\ DOMAIN grants' = DOMAIN grants
        /\ \A id \in DOMAIN grants :
             /\ grants'[id].expiresAt = grants[id].expiresAt
             /\ grants'[id].refreshExpiresAt = grants[id].refreshExpiresAt
    BY <1>0, <1>3 DEF Revoke, PairingGrant
  <2> QED
    BY <2>1 DEF BoundedLifetime
<1>4. CASE Clear
  BY <1>4, EmptyMapType DEF Clear, BoundedLifetime
<1>5. CASE Tick
  BY <1>5 DEF Tick, BoundedLifetime
<1>6. CASE UNCHANGED vars
  BY <1>6 DEF vars, BoundedLifetime
<1> QED
  BY <1>1, <1>2, <1>3, <1>4, <1>5, <1>6 DEF Next

(* No chain of rotations keeps a grant alive AccessTtl past the end of the *)
(* refresh period fixed when it was issued. *)
THEOREM LifetimeIsBounded == Spec => []BoundedLifetime
<1>1. Init => BoundedLifetime
  BY EmptyMapType DEF Init, BoundedLifetime
<1> QED
  BY <1>1, InitTypeOK, NextTypeOK, NextBoundedLifetime, PTL DEF Spec

-----------------------------------------------------------------------------
(* A step that leaves the secrets and the revocation of every grant it keeps *)
(* alone, or brings in a grant that was not there, revives nothing. *)
LEMMA NextRevocationIsFinal ==
  IInv /\ [Next]_vars =>
    \A id \in DOMAIN grants :
       grants[id].revoked /\ id \in DOMAIN grants' =>
         /\ grants'[id].revoked
         /\ grants'[id].accessToken = grants[id].accessToken
         /\ grants'[id].refreshToken = grants[id].refreshToken
<1> SUFFICES ASSUME IInv, [Next]_vars, NEW id \in DOMAIN grants,
                    grants[id].revoked, id \in DOMAIN grants'
             PROVE  /\ grants'[id].revoked
                    /\ grants'[id].accessToken = grants[id].accessToken
                    /\ grants'[id].refreshToken = grants[id].refreshToken
  OBVIOUS
<1>0. /\ grants[id] \in PairingGrant /\ id \in Nat /\ id <= drawn /\ drawn \in Nat
  BY DEF IInv, TypeOK, IsMapOf, Draw, DrawnBefore
<1>1. ASSUME NEW key \in Peer, NEW node \in Peer, NEW caps \in SUBSET Capability,
             Issue(key, node, caps)
      PROVE  grants'[id] = grants[id]
  BY <1>0, <1>1 DEF Issue, Fresh, MapSet
<1>2. ASSUME NEW k \in Draw, NEW token \in Draw, Rotate(k, token)
      PROVE  grants'[id] = grants[id]
  <2>1. k # id
    BY <1>2 DEF Rotate, AcceptsRefresh
  <2> QED
    BY <1>2, <2>1 DEF Rotate, IInv, TypeOK, IsMapOf
<1>3. ASSUME NEW ids, Revoke(ids)
      PROVE  /\ grants'[id].revoked
             /\ grants'[id].accessToken = grants[id].accessToken
             /\ grants'[id].refreshToken = grants[id].refreshToken
  BY <1>0, <1>3 DEF Revoke, PairingGrant
<1>4. CASE Clear
  BY <1>4, EmptyMapType DEF Clear
<1>5. CASE Tick \/ UNCHANGED vars
  BY <1>5 DEF Tick, vars
<1> QED
  BY <1>1, <1>2, <1>3, <1>4, <1>5 DEF Next

(* Once revoked, a grant is never honoured again and never gets new secrets, *)
(* whatever is called afterwards. *)
THEOREM RevokedStaysRevoked == Spec => RevocationIsFinal
<1>1. IInv /\ [Next]_vars =>
        [\A id \in DOMAIN grants :
           grants[id].revoked /\ id \in DOMAIN grants' =>
             /\ grants'[id].revoked
             /\ grants'[id].accessToken = grants[id].accessToken
             /\ grants'[id].refreshToken = grants[id].refreshToken]_vars
  BY NextRevocationIsFinal
<1> QED
  BY <1>1, InitIInv, NextIInv, PTL DEF Spec, RevocationIsFinal

-----------------------------------------------------------------------------
(* Rotation and revocation leave the end of the refresh period alone, and a *)
(* grant never comes back under an identifier that was used before. *)
LEMMA NextRefreshPeriodFixed ==
  IInv /\ [Next]_vars =>
    \A id \in DOMAIN grants \cap DOMAIN grants' :
      grants'[id].refreshExpiresAt = grants[id].refreshExpiresAt
<1> SUFFICES ASSUME IInv, [Next]_vars, NEW id \in DOMAIN grants \cap DOMAIN grants'
             PROVE  grants'[id].refreshExpiresAt = grants[id].refreshExpiresAt
  OBVIOUS
<1>0. /\ grants[id] \in PairingGrant /\ id \in Nat /\ id <= drawn /\ drawn \in Nat
  BY DEF IInv, TypeOK, IsMapOf, Draw, DrawnBefore
<1>1. ASSUME NEW key \in Peer, NEW node \in Peer, NEW caps \in SUBSET Capability,
             Issue(key, node, caps)
      PROVE  grants'[id] = grants[id]
  BY <1>0, <1>1 DEF Issue, Fresh, MapSet
<1>2. ASSUME NEW k \in Draw, NEW token \in Draw, Rotate(k, token)
      PROVE  grants'[id].refreshExpiresAt = grants[id].refreshExpiresAt
  <2>1. Rotated(grants[id]).refreshExpiresAt = grants[id].refreshExpiresAt
    BY <1>0 DEF Rotated, PairingGrant
  <2> QED
    BY <1>2, <2>1 DEF Rotate, IInv, TypeOK, IsMapOf
<1>3. ASSUME NEW ids, Revoke(ids)
      PROVE  grants'[id].refreshExpiresAt = grants[id].refreshExpiresAt
  BY <1>0, <1>3 DEF Revoke, PairingGrant
<1>4. CASE Clear
  BY <1>4, EmptyMapType DEF Clear
<1>5. CASE Tick \/ UNCHANGED vars
  BY <1>5 DEF Tick, vars
<1> QED
  BY <1>1, <1>2, <1>3, <1>4, <1>5 DEF Next

(* The end of a refresh period is the one fixed when the grant was issued. *)
THEOREM RefreshPeriodNeverMoves == Spec => RefreshPeriodFixed
<1>1. IInv /\ [Next]_vars =>
        [\A id \in DOMAIN grants \cap DOMAIN grants' :
           grants'[id].refreshExpiresAt = grants[id].refreshExpiresAt]_vars
  BY NextRefreshPeriodFixed
<1> QED
  BY <1>1, InitIInv, NextIInv, PTL DEF Spec, RefreshPeriodFixed

=============================================================================
