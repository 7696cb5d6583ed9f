----------------------- MODULE PairingAuthority_proofs -----------------------
(***************************************************************************)
(* What the authority promises, for any number of peers, capabilities,     *)
(* invitations and grants, and for every lifetime and limit.               *)
(*                                                                         *)
(* No promise here is inductive alone.  That an invitation is redeemed     *)
(* once rests on three facts about the tables: a reference is drawn once   *)
(* (RefsDrawn), a redeemed one has left pending (RedeemedLeave), and what  *)
(* pending and sessions say of the same reference agrees (TablesAgree).    *)
(***************************************************************************)
EXTENDS PairingAuthority, DataLemmas

\* References come from createSessionRef.
RefsDrawn ==
  /\ \A ref \in DOMAIN sessions \cup DOMAIN pending : ref <= refsDrawn
  /\ \A a \in redemptions : a.ref <= refsDrawn

\* A redeemed invitation cannot be answered again.
RedeemedLeave == \A a \in redemptions : a.ref \notin DOMAIN pending

\* create() sets the deadline of a session and nothing moves it.
SessionLifetime ==
  \A ref \in DOMAIN sessions : sessions[ref].expiresAt = sessions[ref].createdAt + Ttl

IInv ==
  /\ TypeOK
  /\ RefsDrawn
  /\ RedeemedLeave
  /\ SessionLifetime
  /\ TablesAgree
  /\ RedeemedOnce
  /\ NeverLate

-----------------------------------------------------------------------------
(* The table of grants is a GrantStore: what is proved of that module       *)
(* carries over.  Store and Grants are two instances of one module, with    *)
(* the same parameters.                                                     *)

Store == INSTANCE GrantStore_proofs

tableVars == <<now, drawn, grants, spent>>

(* The assumptions of GrantStore follow from those of the authority. *)
LEMMA StoreAssumptions == Store!TtlAssumption /\ Store!BoundAssumption
BY AuthorityAssumption DEF Store!TtlAssumption, Store!BoundAssumption

(* The two instances have one type invariant, *)
LEMMA SameType ==
  /\ Store!TypeOK <=> Grants!TypeOK
  /\ Store!TypeOK' <=> Grants!TypeOK'
BY DEF Store!TypeOK, Store!Draw, Store!PairingGrant, Store!IsMapOf,
       Grants!TypeOK, Grants!Draw, Grants!PairingGrant, Grants!IsMapOf

(* one initial state, *)
LEMMA SameInit == Store!Init <=> Grants!Init
BY DEF Store!Init, Store!EmptyMap, Grants!Init, Grants!EmptyMap

(* and one next-state relation. *)
LEMMA SameIssue ==
  ASSUME NEW key, NEW node, NEW caps
  PROVE  Store!Issue(key, node, caps) <=> Grants!Issue(key, node, caps)
BY Zenon DEF Store!Issue, Store!CanDraw, Store!Fresh, Store!NewGrant, Store!MapSet,
             Grants!Issue, Grants!CanDraw, Grants!Fresh, Grants!NewGrant, Grants!MapSet

LEMMA SameRotate ==
  ASSUME NEW id, NEW token
  PROVE  Store!Rotate(id, token) <=> Grants!Rotate(id, token)
BY Zenon DEF Store!Rotate, Store!CanDraw, Store!Fresh, Store!Rotated,
             Store!AcceptsRefresh, Grants!Rotate, Grants!CanDraw, Grants!Fresh,
             Grants!Rotated, Grants!AcceptsRefresh

LEMMA SameNext == Store!Next <=> Grants!Next
BY SameIssue, SameRotate, Zenon
   DEF Store!Next, Store!Revoke, Store!Clear, Store!EmptyMap, Store!Tick, Store!Draw,
       Grants!Next, Grants!Revoke, Grants!Clear, Grants!EmptyMap, Grants!Tick, Grants!Draw

-----------------------------------------------------------------------------
(* Both ways of completing a pairing redeem an invitation that is pending,  *)
(* for capabilities it offers.                                              *)
Redeems(ref) ==
  /\ ref \in DOMAIN pending
  /\ \E key, node \in Peer, caps \in SUBSET pending[ref].allowed :
       Redeem(ref, key, node, caps)

(* Next, with the completions under one head. *)
LEMMA Steps ==
  ASSUME TypeOK, Next
  PROVE  \/ \E allowed \in SUBSET Capability : CreateQr(allowed)
         \/ CreateQrTooLarge
         \/ \E ref \in Ref : Redeems(ref)
         \/ \E ref \in Ref : ExpireInvitation(ref)
         \/ \E refs : WithdrawSessions(refs)
         \/ GrantStoreCall
         \/ Tick
<1>1. ASSUME NEW ref \in Ref, NEW transcript \in Transcript,
             CompletePairing(ref, transcript)
      PROVE  Redeems(ref)
  <2>1. /\ transcript.mobilePublicKey \in Peer /\ transcript.mobileNodeId \in Peer
        /\ Negotiated(transcript, pending[ref].allowed) \in SUBSET pending[ref].allowed
    BY DEF Transcript, Negotiated
  <2> QED
    BY <1>1, <2>1 DEF CompletePairing, Redeems
<1>2. ASSUME NEW ref \in Ref, NEW peer \in Peer, CompleteScannedPairing(ref, peer)
      PROVE  Redeems(ref)
  BY <1>2 DEF CompleteScannedPairing, Redeems
<1> QED
  BY <1>1, <1>2 DEF Next

(* Every step of the authority is a step of the grant store or leaves it. *)
LEMMA NextIsStoreStep ==
  ASSUME TypeOK, [Next]_vars
  PROVE  [Grants!Next]_tableVars
<1>1. CASE UNCHANGED vars
  BY <1>1 DEF vars, tableVars
<1>2. ASSUME NEW ref \in Ref, Redeems(ref)
      PROVE  Grants!Next
  <2>1. PICK key \in Peer, node \in Peer, caps \in SUBSET pending[ref].allowed :
          Redeem(ref, key, node, caps)
    BY <1>2 DEF Redeems
  <2>2. caps \in SUBSET Capability
    BY <1>2 DEF Redeems, TypeOK, IsMapOf, PendingEntry
  <2> QED
    BY <2>1, <2>2 DEF Redeem, Grants!Next
<1>3. CASE GrantStoreCall
  BY <1>3, Zenon DEF GrantStoreCall, Grants!Next, Draw, Grants!Draw
<1>4. CASE Next
  BY <1>2, <1>3, <1>4, Steps
     DEF CreateQr, CreateQrTooLarge, ExpireInvitation, WithdrawSessions, Tick,
         Grants!Next, storeVars, tableVars
<1> QED
  BY <1>1, <1>4

(* The authority implements the grant store: what GrantStore_proofs proves  *)
(* of every behaviour of GrantStore holds of its table of grants.           *)
LEMMA StoreTypeKept ==
  ASSUME TypeOK, [Next]_vars
  PROVE  Grants!TypeOK'
<1>1. Store!TypeOK /\ [Store!Next]_(Store!vars)
  BY NextIsStoreStep, SameNext, SameType DEF TypeOK, tableVars, Store!vars
<1> QED
  BY <1>1, Store!NextTypeOK, StoreAssumptions, SameType

-----------------------------------------------------------------------------
(* What a redemption does. *)
LEMMA RedeemFacts ==
  ASSUME TypeOK, NEW ref \in Ref, Redeems(ref)
  PROVE  /\ ref \in DOMAIN pending /\ ref \in DOMAIN sessions
         /\ Consumable(ref)
         /\ now' = now /\ refsDrawn' = refsDrawn
         /\ DOMAIN pending' = DOMAIN pending \ {ref}
         /\ \A r \in DOMAIN pending \ {ref} : pending'[r] = pending[r]
         /\ DOMAIN sessions' = DOMAIN sessions
         /\ \A r \in DOMAIN sessions \ {ref} : sessions'[r] = sessions[r]
         /\ sessions'[ref] = [sessions[ref] EXCEPT !.consumed = TRUE,
                                                  !.attempts = sessions[ref].attempts + 1]
         /\ drawn' \in Draw
         /\ \E peer \in Peer : redemptions' = redemptions \cup
              {[ref |-> ref, grant |-> drawn', peer |-> peer,
                allowed |-> pending[ref].allowed,
                createdAt |-> sessions[ref].createdAt, at |-> now]}
<1>1. PICK key \in Peer, node \in Peer, caps \in SUBSET pending[ref].allowed :
        Redeem(ref, key, node, caps)
  BY DEF Redeems
<1>2. /\ ref \in DOMAIN pending /\ ref \in DOMAIN sessions /\ Consumable(ref)
      /\ sessions' = [sessions EXCEPT ![ref].consumed = TRUE,
                                      ![ref].attempts = sessions[ref].attempts + 1]
      /\ pending' = MapDelete(pending, {ref})
      /\ refsDrawn' = refsDrawn
  BY <1>1 DEF Redeems, Redeem, Consume, Consumable
<1>3. /\ drawn' \in Draw /\ now' = now
  BY <1>1, AuthorityAssumption
     DEF Redeem, Grants!Issue, Grants!CanDraw, Grants!Fresh, Draw, TypeOK, Grants!TypeOK
<1>4. /\ DOMAIN pending' = DOMAIN pending \ {ref}
      /\ \A r \in DOMAIN pending \ {ref} : pending'[r] = pending[r]
  BY <1>2 DEF MapDelete
<1>5. /\ DOMAIN sessions' = DOMAIN sessions
      /\ \A r \in DOMAIN sessions \ {ref} : sessions'[r] = sessions[r]
      /\ sessions'[ref] = [sessions[ref] EXCEPT !.consumed = TRUE,
                                               !.attempts = sessions[ref].attempts + 1]
  BY <1>2 DEF TypeOK, IsMapOf
<1>6. redemptions' = redemptions \cup
        {[ref |-> ref, grant |-> drawn', peer |-> node,
          allowed |-> pending[ref].allowed,
          createdAt |-> sessions[ref].createdAt, at |-> now]}
  BY <1>1 DEF Redeem
<1> QED
  BY <1>2, <1>3, <1>4, <1>5, <1>6

(* The session create() makes is well formed. *)
LEMMA NewSessionType ==
  ASSUME TypeOK, CreateSession
  PROVE  /\ NewSession \in PairingSession
         /\ FreshRef \in Ref
         /\ refsDrawn' \in 0 .. MaxRefs
         /\ IsMapOf(sessions', Ref, PairingSession)
<1>1. now \in Nat /\ refsDrawn \in 0 .. MaxRefs /\ refsDrawn < MaxRefs
  BY DEF TypeOK, Grants!TypeOK, CreateSession
<1>2. NewSession \in PairingSession /\ FreshRef \in Ref /\ refsDrawn' \in 0 .. MaxRefs
  BY <1>1, AuthorityAssumption DEF NewSession, PairingSession, FreshRef, Ref, CreateSession
<1> QED
  BY <1>2, MapSetType DEF CreateSession, TypeOK

-----------------------------------------------------------------------------
(* TypeOK holds initially and every step keeps it. *)
LEMMA InitTypeOK == Init => TypeOK
<1> SUFFICES ASSUME Init PROVE TypeOK
  OBVIOUS
<1>1. Grants!TypeOK
  BY SameInit, SameType, Store!InitTypeOK, StoreAssumptions DEF Init
<1> QED
  BY <1>1, EmptyMapType, AuthorityAssumption DEF Init, TypeOK

LEMMA NextTypeOK == TypeOK /\ [Next]_vars => TypeOK'
<1> SUFFICES ASSUME TypeOK, [Next]_vars PROVE TypeOK'
  OBVIOUS
<1>0. Grants!TypeOK'
  BY StoreTypeKept
<1>1. ASSUME NEW allowed \in SUBSET Capability, CreateQr(allowed)
      PROVE  TypeOK'
  <2>1. CreateSession /\ redemptions' = redemptions
    BY <1>1 DEF CreateQr
  <2>2. [expiresAt |-> NewSession.expiresAt, allowed |-> allowed] \in PendingEntry
    BY <2>1, NewSessionType DEF PendingEntry, PairingSession
  <2>3. IsMapOf(pending', Ref, PendingEntry)
    BY <1>1, <2>1, <2>2, NewSessionType, MapSetType DEF CreateQr, TypeOK
  <2> QED
    BY <1>0, <2>1, <2>3, NewSessionType DEF TypeOK
<1>2. CASE CreateQrTooLarge
  BY <1>0, <1>2, NewSessionType DEF CreateQrTooLarge, TypeOK
<1>3. ASSUME NEW ref \in Ref, Redeems(ref)
      PROVE  TypeOK'
  <2>0. ref \in DOMAIN sessions /\ ref \in DOMAIN pending
    BY <1>3, RedeemFacts
  <2>1. sessions[ref] \in PairingSession /\ pending[ref] \in PendingEntry /\ now \in Nat
    BY <2>0 DEF TypeOK, IsMapOf, Grants!TypeOK
  <2>2. sessions'[ref] \in PairingSession
    <3>1. sessions'[ref] = [sessions[ref] EXCEPT !.consumed = TRUE,
                                               !.attempts = sessions[ref].attempts + 1]
      BY <1>3, RedeemFacts
    <3>2. /\ sessions[ref] = [createdAt |-> sessions[ref].createdAt,
                              expiresAt |-> sessions[ref].expiresAt,
                              consumed |-> sessions[ref].consumed,
                              attempts |-> sessions[ref].attempts]
          /\ sessions[ref].createdAt \in Nat /\ sessions[ref].expiresAt \in Nat
          /\ sessions[ref].attempts + 1 \in Nat
      BY <2>1 DEF PairingSession
    <3>3. sessions'[ref] = [createdAt |-> sessions[ref].createdAt,
                            expiresAt |-> sessions[ref].expiresAt,
                            consumed |-> TRUE,
                            attempts |-> sessions[ref].attempts + 1]
      BY <2>1, <3>1 DEF PairingSession
    <3> QED
      BY <3>2, <3>3 DEF PairingSession
  <2>3. IsMapOf(sessions', Ref, PairingSession)
    <3>1. sessions' = [r \in DOMAIN sessions |-> sessions'[r]]
      BY <1>3 DEF Redeems, Redeem, Consume, TypeOK, IsMapOf
    <3> QED
      BY <1>3, <2>2, <3>1, RedeemFacts DEF TypeOK, IsMapOf
  <2>4. IsMapOf(pending', Ref, PendingEntry)
    BY <1>3, MapDeleteType DEF Redeems, Redeem, TypeOK
  <2>5. redemptions' \subseteq Redemption
    <3>1. PICK peer \in Peer : redemptions' = redemptions \cup
            {[ref |-> ref, grant |-> drawn', peer |-> peer,
              allowed |-> pending[ref].allowed,
              createdAt |-> sessions[ref].createdAt, at |-> now]}
      BY <1>3, RedeemFacts
    <3>2. drawn' \in Draw
      BY <1>3, RedeemFacts
    <3>3. /\ pending[ref].allowed \in SUBSET Capability
          /\ sessions[ref].createdAt \in Nat
      BY <2>1 DEF PairingSession, PendingEntry
    <3> QED
      BY <2>1, <3>1, <3>2, <3>3 DEF TypeOK, Redemption
  <2> QED
    BY <1>0, <1>3, <2>3, <2>4, <2>5, RedeemFacts DEF TypeOK
<1>4. ASSUME NEW ref \in Ref, ExpireInvitation(ref)
      PROVE  TypeOK'
  BY <1>0, <1>4, MapDeleteType DEF ExpireInvitation, TypeOK
<1>5. ASSUME NEW refs, WithdrawSessions(refs)
      PROVE  TypeOK'
  BY <1>0, <1>5, MapDeleteType DEF WithdrawSessions, TypeOK
<1>6. CASE GrantStoreCall \/ Tick
  BY <1>0, <1>6 DEF GrantStoreCall, Tick, authorityVars, TypeOK
<1>7. CASE UNCHANGED vars
  BY <1>0, <1>7 DEF vars, TypeOK
<1> QED
  BY <1>1, <1>2, <1>3, <1>4, <1>5, <1>6, <1>7, Steps

(* Every reachable state of the authority has the declared type. *)
THEOREM TypeCorrect == Spec => []TypeOK
<1> QED
  BY InitTypeOK, NextTypeOK, PTL DEF Spec

-----------------------------------------------------------------------------
(* What the creation of a session does: a reference nobody has seen. *)
LEMMA CreateFacts ==
  ASSUME TypeOK, RefsDrawn, CreateSession
  PROVE  /\ refsDrawn' = refsDrawn + 1
         /\ FreshRef \notin DOMAIN sessions /\ FreshRef \notin DOMAIN pending
         /\ \A a \in redemptions : a.ref # FreshRef
         /\ DOMAIN sessions' = DOMAIN sessions \cup {FreshRef}
         /\ sessions'[FreshRef] = NewSession
         /\ \A r \in DOMAIN sessions : sessions'[r] = sessions[r]
<1>1. refsDrawn \in Nat
  BY DEF TypeOK
<1>2. /\ refsDrawn' = refsDrawn + 1
      /\ FreshRef \notin DOMAIN sessions /\ FreshRef \notin DOMAIN pending
      /\ \A a \in redemptions : a.ref # FreshRef
  BY <1>1, AuthorityAssumption DEF CreateSession, FreshRef, RefsDrawn
<1> QED
  BY <1>2 DEF CreateSession, MapSet

(* The numbers of the state, for the arithmetic of the steps below. *)
LEMMA Numbers ==
  ASSUME TypeOK
  PROVE  /\ now \in Nat /\ refsDrawn \in Nat /\ Ttl \in Nat
         /\ \A r \in DOMAIN sessions :
              /\ r \in Nat /\ sessions[r] \in PairingSession
              /\ sessions[r].expiresAt \in Nat /\ sessions[r].createdAt \in Nat
         /\ \A r \in DOMAIN pending : r \in Nat /\ pending[r].expiresAt \in Nat
         /\ \A a \in redemptions : a.ref \in Nat
<1>1. now \in Nat /\ refsDrawn \in Nat /\ Ttl \in Nat
  BY AuthorityAssumption DEF TypeOK, Grants!TypeOK
<1>2. \A r \in DOMAIN sessions :
        /\ r \in Nat /\ sessions[r] \in PairingSession
        /\ sessions[r].expiresAt \in Nat /\ sessions[r].createdAt \in Nat
  BY DEF TypeOK, IsMapOf, PairingSession, Ref
<1>3. \A r \in DOMAIN pending : r \in Nat /\ pending[r].expiresAt \in Nat
  BY DEF TypeOK, IsMapOf, PendingEntry, Ref
<1>4. \A a \in redemptions : a.ref \in Nat
  BY DEF TypeOK, Redemption, Ref
<1> QED
  BY <1>1, <1>2, <1>3, <1>4

-----------------------------------------------------------------------------
(* The inductive invariant holds initially and every step keeps it. *)
LEMMA InitIInv == Init => IInv
BY InitTypeOK, EmptyMapType
   DEF Init, IInv, RefsDrawn, RedeemedLeave, SessionLifetime, TablesAgree,
       RedeemedOnce, NeverLate

LEMMA NextIInv == IInv /\ [Next]_vars => IInv'
<1> SUFFICES ASSUME IInv, [Next]_vars
             PROVE  /\ RefsDrawn' /\ RedeemedLeave' /\ SessionLifetime'
                    /\ TablesAgree' /\ RedeemedOnce' /\ NeverLate'
  BY NextTypeOK DEF IInv
<1> DEFINE Goal == /\ RefsDrawn' /\ RedeemedLeave' /\ SessionLifetime'
                   /\ TablesAgree' /\ RedeemedOnce' /\ NeverLate'
<1> USE DEF IInv
<1>0. /\ now \in Nat /\ refsDrawn \in Nat /\ Ttl \in Nat
      /\ \A r \in DOMAIN sessions :
           /\ r \in Nat /\ sessions[r].expiresAt \in Nat /\ sessions[r].createdAt \in Nat
      /\ \A r \in DOMAIN pending : r \in Nat /\ pending[r].expiresAt \in Nat
      /\ \A a \in redemptions : a.ref \in Nat
  BY Numbers
<1>1. ASSUME CreateSession, redemptions' = redemptions,
             DOMAIN pending' \subseteq DOMAIN pending \cup {FreshRef},
             \A r \in DOMAIN pending : pending'[r] = pending[r],
             FreshRef \in DOMAIN pending' =>
               pending'[FreshRef].expiresAt = NewSession.expiresAt
      PROVE  Goal
  <2>1. /\ refsDrawn' = refsDrawn + 1
        /\ FreshRef \notin DOMAIN sessions /\ FreshRef \notin DOMAIN pending
        /\ \A a \in redemptions : a.ref # FreshRef
        /\ DOMAIN sessions' = DOMAIN sessions \cup {FreshRef}
        /\ sessions'[FreshRef] = NewSession
        /\ \A r \in DOMAIN sessions : sessions'[r] = sessions[r]
    BY <1>1, CreateFacts
  <2>2. FreshRef = refsDrawn + 1
    BY DEF FreshRef
  <2>3. RefsDrawn'
    BY <1>0, <1>1, <2>1, <2>2 DEF RefsDrawn
  <2>4. RedeemedLeave'
    BY <1>1, <2>1 DEF RedeemedLeave
  <2>5. SessionLifetime'
    BY <1>1, <2>1 DEF SessionLifetime, NewSession
  <2>6. TablesAgree'
    BY <1>1, <2>1 DEF TablesAgree, NewSession
  <2> QED
    BY <1>1, <2>3, <2>4, <2>5, <2>6 DEF RedeemedOnce, NeverLate
<1>2. ASSUME NEW allowed \in SUBSET Capability, CreateQr(allowed)
      PROVE  Goal
  <2>1. /\ CreateSession /\ redemptions' = redemptions
        /\ pending' = MapSet(pending, FreshRef,
                              [expiresAt |-> NewSession.expiresAt, allowed |-> allowed])
    BY <1>2 DEF CreateQr
  <2>2. FreshRef \notin DOMAIN pending
    BY <2>1, CreateFacts
  <2> QED
    BY <1>1, <2>1, <2>2 DEF MapSet
<1>3. CASE CreateQrTooLarge
  BY <1>1, <1>3, CreateFacts DEF CreateQrTooLarge
<1>4. ASSUME NEW ref \in Ref, Redeems(ref)
      PROVE  Goal
  <2>1. /\ ref \in DOMAIN pending /\ ref \in DOMAIN sessions
        /\ now' = now /\ refsDrawn' = refsDrawn
        /\ sessions[ref].expiresAt > now
        /\ DOMAIN pending' = DOMAIN pending \ {ref}
        /\ \A r \in DOMAIN pending \ {ref} : pending'[r] = pending[r]
        /\ DOMAIN sessions' = DOMAIN sessions
        /\ \A r \in DOMAIN sessions \ {ref} : sessions'[r] = sessions[r]
    BY <1>4, RedeemFacts DEF Consumable
  <2>2. PICK new : /\ redemptions' = redemptions \cup {new}
                   /\ new.ref = ref /\ new.at = now
                   /\ new.createdAt = sessions[ref].createdAt
    <3>1. PICK peer \in Peer : redemptions' = redemptions \cup
            {[ref |-> ref, grant |-> drawn', peer |-> peer,
              allowed |-> pending[ref].allowed,
              createdAt |-> sessions[ref].createdAt, at |-> now]}
      BY <1>4, RedeemFacts
    <3> DEFINE new == [ref |-> ref, grant |-> drawn', peer |-> peer,
                       allowed |-> pending[ref].allowed,
                       createdAt |-> sessions[ref].createdAt, at |-> now]
    <3> WITNESS new
    <3> QED
      BY <3>1
  <2>3. /\ sessions'[ref].expiresAt = sessions[ref].expiresAt
        /\ sessions'[ref].createdAt = sessions[ref].createdAt
    <3>1. sessions[ref] \in PairingSession
      BY <2>1, Numbers
    <3>2. sessions'[ref] = [sessions[ref] EXCEPT !.consumed = TRUE,
                                               !.attempts = sessions[ref].attempts + 1]
      BY <1>4, RedeemFacts
    <3> QED
      BY <3>1, <3>2 DEF PairingSession
  <2>4. \A a \in redemptions : a.ref # ref
    BY <2>1 DEF RedeemedLeave
  <2>5. RefsDrawn'
    BY <2>1, <2>2 DEF RefsDrawn
  <2>6. RedeemedLeave'
    BY <2>1, <2>2 DEF RedeemedLeave
  <2>7. SessionLifetime'
    BY <2>1, <2>3 DEF SessionLifetime
  <2>8. TablesAgree'
    BY <2>1 DEF TablesAgree
  <2>9. RedeemedOnce'
    BY <2>2, <2>4 DEF RedeemedOnce
  <2>10. NeverLate'
    BY <1>0, <2>1, <2>2 DEF NeverLate, SessionLifetime
  <2> QED
    BY <2>5, <2>6, <2>7, <2>8, <2>9, <2>10
<1>5. ASSUME NEW ref \in Ref, ExpireInvitation(ref)
      PROVE  Goal
  <2>1. /\ DOMAIN pending' = DOMAIN pending \ {ref}
        /\ \A r \in DOMAIN pending \ {ref} : pending'[r] = pending[r]
        /\ UNCHANGED <<sessions, refsDrawn, redemptions>>
    BY <1>5 DEF ExpireInvitation, MapDelete
  <2> QED
    BY <2>1 DEF RefsDrawn, RedeemedLeave, SessionLifetime, TablesAgree, RedeemedOnce,
                NeverLate
<1>6. ASSUME NEW refs, WithdrawSessions(refs)
      PROVE  Goal
  <2>1. /\ DOMAIN sessions' = DOMAIN sessions \ refs
        /\ \A r \in DOMAIN sessions \ refs : sessions'[r] = sessions[r]
        /\ UNCHANGED <<pending, refsDrawn, redemptions>>
    BY <1>6 DEF WithdrawSessions, MapDelete
  <2> QED
    BY <2>1 DEF RefsDrawn, RedeemedLeave, SessionLifetime, TablesAgree, RedeemedOnce,
                NeverLate
<1>7. CASE GrantStoreCall \/ Tick \/ UNCHANGED vars
  <2>1. UNCHANGED <<sessions, pending, refsDrawn, redemptions>>
    BY <1>7 DEF GrantStoreCall, Tick, authorityVars, vars
  <2> QED
    BY <2>1 DEF RefsDrawn, RedeemedLeave, SessionLifetime, TablesAgree, RedeemedOnce,
                NeverLate
<1> QED
  BY <1>2, <1>3, <1>4, <1>5, <1>6, <1>7, Steps

(* The inductive invariant holds in every reachable state. *)
LEMMA AlwaysIInv == Spec => []IInv
<1> QED
  BY InitIInv, NextIInv, PTL DEF Spec

(* No displayed QR ever yields two grants. *)
THEOREM InvitationsAreRedeemedOnce == Spec => []RedeemedOnce
<1>1. IInv => RedeemedOnce
  BY DEF IInv
<1> QED
  BY <1>1, AlwaysIInv, PTL

(* The two tables never disagree about an invitation that can be answered. *)
THEOREM TablesAlwaysAgree == Spec => []TablesAgree
<1>1. IInv => TablesAgree
  BY DEF IInv
<1> QED
  BY <1>1, AlwaysIInv, PTL

(* No grant is issued after the deadline of its invitation. *)
THEOREM NoLateGrant == Spec => []NeverLate
<1>1. IInv => NeverLate
  BY DEF IInv
<1> QED
  BY <1>1, AlwaysIInv, PTL

-----------------------------------------------------------------------------
(* The refinement of the abstract invitation.  Every step but a redemption  *)
(* leaves the holders alone and turns some references void, or offers one.  *)

Redeemed(ref) == \E a \in redemptions : a.ref = ref

(* A step without a redemption keeps the holders. *)
LEMMA HoldersKept ==
  ASSUME redemptions' = redemptions
  PROVE  holder' = holder /\ \A ref : Redeemed(ref)' <=> Redeemed(ref)
BY DEF holder, Redeemed

(* A step that redeems nothing and only ever turns references void is the   *)
(* abstract withdrawal of those references. *)
LEMMA VoidStep ==
  ASSUME redemptions' = redemptions,
         \A ref \in Ref : \/ fate'[ref] = fate[ref]
                          \/ fate[ref] \in {"unused", "open"} /\ fate'[ref] = "void"
  PROVE  Invitation!Next
<1> DEFINE S == {ref \in Ref : fate'[ref] # fate[ref]}
<1>1. fate' = [ref \in Ref |-> fate'[ref]] /\ fate = [ref \in Ref |-> fate[ref]]
  BY DEF fate
<1>2. fate' = [ref \in Ref |-> IF ref \in S THEN "void" ELSE fate[ref]]
  BY <1>1
<1>3. Invitation!Void(S)
  BY <1>2, HoldersKept DEF Invitation!Void
<1> QED
  BY <1>3 DEF Invitation!Next

(* What became of a reference, before and after a step. *)
LEMMA FateOf ==
  ASSUME NEW ref \in Ref
  PROVE  /\ fate[ref] = IF Redeemed(ref) THEN "redeemed"
                        ELSE IF Open(ref) THEN "open"
                        ELSE IF ref <= refsDrawn THEN "void" ELSE "unused"
         /\ fate'[ref] = IF Redeemed(ref)' THEN "redeemed"
                         ELSE IF Open(ref)' THEN "open"
                         ELSE IF ref <= refsDrawn' THEN "void" ELSE "unused"
BY DEF fate, Redeemed

(* The redemption of a reference names its holder, before and after a step. *)
LEMMA HolderOf ==
  /\ RedeemedOnce =>
       \A a \in redemptions : a.ref \in Ref => holder[a.ref] = a.peer
  /\ RedeemedOnce' =>
       \A a \in redemptions' : a.ref \in Ref => holder'[a.ref] = a.peer
<1>1. ASSUME RedeemedOnce, NEW a \in redemptions, a.ref \in Ref
      PROVE  holder[a.ref] = a.peer
  <2>1. (CHOOSE b \in redemptions : b.ref = a.ref) = a
    BY <1>1 DEF RedeemedOnce
  <2> QED
    BY <1>1, <2>1 DEF holder
<1>2. ASSUME RedeemedOnce', NEW a \in redemptions', a.ref \in Ref
      PROVE  holder'[a.ref] = a.peer
  <2>1. (CHOOSE b \in redemptions' : b.ref = a.ref) = a
    BY <1>2 DEF RedeemedOnce
  <2> QED
    BY <1>2, <2>1 DEF holder
<1> QED
  BY <1>1, <1>2

(* The creation of a session makes an unused reference open or void and     *)
(* leaves the other references as they were. *)
LEMMA CreateFate ==
  ASSUME IInv, CreateSession, now' = now, redemptions' = redemptions,
         DOMAIN pending \subseteq DOMAIN pending',
         DOMAIN pending' \subseteq DOMAIN pending \cup {FreshRef}
  PROVE  /\ FreshRef \in Ref
         /\ fate[FreshRef] = "unused"
         /\ fate'[FreshRef] = IF FreshRef \in DOMAIN pending' THEN "open" ELSE "void"
         /\ \A r \in Ref \ {FreshRef} : fate'[r] = fate[r]
<1>1. /\ refsDrawn' = refsDrawn + 1
      /\ FreshRef \notin DOMAIN sessions /\ FreshRef \notin DOMAIN pending
      /\ \A a \in redemptions : a.ref # FreshRef
      /\ DOMAIN sessions' = DOMAIN sessions \cup {FreshRef}
      /\ sessions'[FreshRef] = NewSession
      /\ \A r \in DOMAIN sessions : sessions'[r] = sessions[r]
  BY CreateFacts DEF IInv
<1>2. PICK ref \in Ref : ref = FreshRef /\ ref = refsDrawn + 1
  BY NewSessionType DEF IInv, FreshRef
<1>3. now \in Nat /\ refsDrawn \in Nat /\ Ttl \in Nat
  BY Numbers DEF IInv
<1>4. ~Redeemed(ref) /\ ~Redeemed(ref)'
  BY <1>1, <1>2 DEF Redeemed
<1>5. fate[ref] = "unused"
  BY <1>1, <1>2, <1>3, <1>4, FateOf DEF Open
<1>6. Open(ref)' <=> ref \in DOMAIN pending'
  <2>1. /\ sessions'[ref].consumed = FALSE /\ sessions'[ref].expiresAt = now + Ttl
        /\ sessions'[ref].attempts = 0 /\ ref \in DOMAIN sessions'
    BY <1>1, <1>2 DEF NewSession
  <2>2. now + Ttl > now' /\ 0 + 1 <= MaxAttempts
    BY <1>3, AuthorityAssumption
  <2> QED
    BY <2>1, <2>2 DEF Open, Consumable
<1>7. fate'[ref] = IF ref \in DOMAIN pending' THEN "open" ELSE "void"
  BY <1>1, <1>2, <1>3, <1>4, <1>6, FateOf
<1>8. ASSUME NEW r \in Ref \ {ref}
      PROVE  fate'[r] = fate[r]
  <2>1. r \in Nat /\ (r <= refsDrawn' <=> r <= refsDrawn)
    BY <1>1, <1>2, <1>3 DEF Ref
  <2>2. Open(r)' <=> Open(r)
    BY <1>1, <1>2, <1>8 DEF Open, Consumable
  <2>3. Redeemed(r)' <=> Redeemed(r)
    BY HoldersKept
  <2> QED
    BY <2>1, <2>2, <2>3, FateOf
<1> QED
  BY <1>2, <1>5, <1>7, <1>8

(* A redemption is the abstract redemption, by the peer it records. *)
LEMMA RedeemStep ==
  ASSUME IInv, RedeemedOnce', TypeOK', NEW ref \in Ref, Redeems(ref)
  PROVE  Invitation!Next
<1>1. /\ ref \in DOMAIN pending /\ Consumable(ref)
      /\ now' = now /\ refsDrawn' = refsDrawn
      /\ DOMAIN pending' = DOMAIN pending \ {ref}
      /\ DOMAIN sessions' = DOMAIN sessions
      /\ \A r \in DOMAIN sessions \ {ref} : sessions'[r] = sessions[r]
  BY RedeemFacts DEF IInv
<1>2. PICK peer \in Peer : redemptions' = redemptions \cup
        {[ref |-> ref, grant |-> drawn', peer |-> peer,
          allowed |-> pending[ref].allowed,
          createdAt |-> sessions[ref].createdAt, at |-> now]}
  BY RedeemFacts DEF IInv
<1> DEFINE new == [ref |-> ref, grant |-> drawn', peer |-> peer,
                   allowed |-> pending[ref].allowed,
                   createdAt |-> sessions[ref].createdAt, at |-> now]
<1>3. /\ new \in redemptions' /\ new.ref = ref /\ new.peer = peer
      /\ redemptions \subseteq redemptions'
      /\ \A a \in redemptions' : a \in redemptions \/ a.ref = ref
  BY <1>2
<1> HIDE DEF new
<1>4. ~Redeemed(ref) /\ Redeemed(ref)'
  BY <1>1, <1>3 DEF Redeemed, IInv, RedeemedLeave
<1>5. fate[ref] = "open" /\ fate'[ref] = "redeemed"
  BY <1>1, <1>4, FateOf DEF Open
<1>6. ASSUME NEW r \in Ref \ {ref}
      PROVE  fate'[r] = fate[r]
  <2>1. Redeemed(r)' <=> Redeemed(r)
    BY <1>3 DEF Redeemed
  <2>2. Open(r)' <=> Open(r)
    BY <1>1, <1>6 DEF Open, Consumable
  <2> QED
    BY <1>1, <2>1, <2>2, FateOf
<1>7. holder'[ref] = peer
  BY <1>3, HolderOf
<1>8. ASSUME NEW r \in Ref \ {ref}
      PROVE  holder'[r] = holder[r]
  <2>1. CASE Redeemed(r)
    <3>1. PICK a \in redemptions : a.ref = r
      BY <2>1 DEF Redeemed
    <3> QED
      BY <1>3, <1>8, <3>1, HolderOf DEF IInv
  <2>2. CASE ~Redeemed(r)
    <3>1. ~Redeemed(r)'
      BY <1>3, <2>2 DEF Redeemed
    <3>2. holder[r] = NoPeer /\ holder'[r] = NoPeer
      BY <2>2, <3>1 DEF holder, Redeemed
    <3> QED
      BY <3>2
  <2> QED
    BY <2>1, <2>2
<1>9. /\ fate = [r \in Ref |-> fate[r]] /\ fate' = [r \in Ref |-> fate'[r]]
      /\ holder = [r \in Ref |-> holder[r]] /\ holder' = [r \in Ref |-> holder'[r]]
  BY DEF fate, holder
<1>10. /\ fate' = [fate EXCEPT ![ref] = "redeemed"]
       /\ holder' = [holder EXCEPT ![ref] = peer]
  BY <1>5, <1>6, <1>7, <1>8, <1>9
<1> QED
  BY <1>5, <1>10 DEF Invitation!Next, Invitation!Redeem

(* Every step of the authority is a step of the abstract invitation, or     *)
(* leaves it alone. *)
LEMMA RefinementStep ==
  IInv /\ IInv' /\ [Next]_vars => [Invitation!Next]_<<fate, holder>>
<1> SUFFICES ASSUME IInv, IInv', [Next]_vars
             PROVE  Invitation!Next \/ UNCHANGED <<fate, holder>>
  OBVIOUS
<1>0. /\ now \in Nat /\ refsDrawn \in Nat
      /\ \A r \in DOMAIN sessions : sessions[r].expiresAt \in Nat
  BY Numbers DEF IInv
<1>1. ASSUME NEW allowed \in SUBSET Capability, CreateQr(allowed)
      PROVE  Invitation!Next
  <2>1. /\ CreateSession /\ now' = now /\ redemptions' = redemptions
        /\ DOMAIN pending' = DOMAIN pending \cup {FreshRef}
    BY <1>1 DEF CreateQr, MapSet
  <2>2. /\ FreshRef \in Ref /\ fate[FreshRef] = "unused" /\ fate'[FreshRef] = "open"
        /\ \A r \in Ref \ {FreshRef} : fate'[r] = fate[r]
    BY <2>1, CreateFate
  <2>3. fate' = [r \in Ref |-> fate'[r]] /\ fate = [r \in Ref |-> fate[r]]
    BY DEF fate
  <2>4. fate' = [fate EXCEPT ![FreshRef] = "open"]
    BY <2>2, <2>3
  <2> QED
    BY <2>1, <2>2, <2>4, HoldersKept DEF Invitation!Next, Invitation!Offer
<1>2. CASE CreateQrTooLarge
  <2>1. /\ CreateSession /\ now' = now /\ redemptions' = redemptions
        /\ pending' = pending
    BY <1>2 DEF CreateQrTooLarge
  <2>2. FreshRef \notin DOMAIN pending
    BY <2>1, CreateFacts DEF IInv
  <2>3. /\ fate[FreshRef] = "unused" /\ fate'[FreshRef] = "void"
        /\ \A r \in Ref \ {FreshRef} : fate'[r] = fate[r]
    BY <2>1, <2>2, CreateFate
  <2> QED
    BY <2>1, <2>3, VoidStep
<1>3. ASSUME NEW ref \in Ref, Redeems(ref)
      PROVE  Invitation!Next
  BY <1>3, RedeemStep DEF IInv
<1>4. ASSUME NEW ref \in Ref, ExpireInvitation(ref)
      PROVE  Invitation!Next
  <2>1. /\ ref \in DOMAIN pending /\ pending[ref].expiresAt <= now /\ now' = now
        /\ DOMAIN pending' = DOMAIN pending \ {ref}
        /\ UNCHANGED <<sessions, refsDrawn, redemptions>>
    BY <1>4 DEF ExpireInvitation, MapDelete
  <2>2. ~Open(ref)
    BY <1>0, <2>1 DEF Open, Consumable, IInv, TablesAgree
  <2>3. ASSUME NEW r \in Ref PROVE fate'[r] = fate[r]
    <3>1. Open(r)' <=> Open(r)
      BY <2>1, <2>2 DEF Open, Consumable
    <3> QED
      BY <2>1, <3>1, HoldersKept, FateOf
  <2> QED
    BY <2>1, <2>3, VoidStep
<1>5. ASSUME NEW refs, WithdrawSessions(refs)
      PROVE  Invitation!Next
  <2>1. /\ now' = now /\ UNCHANGED <<pending, refsDrawn, redemptions>>
        /\ DOMAIN sessions' = DOMAIN sessions \ refs
        /\ \A r \in DOMAIN sessions \ refs : sessions'[r] = sessions[r]
    BY <1>5 DEF WithdrawSessions, MapDelete
  <2>2. ASSUME NEW r \in Ref
        PROVE  \/ fate'[r] = fate[r]
               \/ fate[r] \in {"unused", "open"} /\ fate'[r] = "void"
    <3>1. Open(r)' => Open(r)
      BY <2>1 DEF Open, Consumable
    <3>2. Open(r) => r <= refsDrawn
      BY DEF Open, IInv, RefsDrawn
    <3> QED
      BY <2>1, <3>1, <3>2, HoldersKept, FateOf
  <2> QED
    BY <2>1, <2>2, VoidStep
<1>6. CASE Tick
  <2>1. now' = now + 1 /\ UNCHANGED <<sessions, pending, refsDrawn, redemptions>>
    BY <1>6 DEF Tick, Grants!Tick, authorityVars
  <2>2. ASSUME NEW r \in Ref
        PROVE  \/ fate'[r] = fate[r]
               \/ fate[r] \in {"unused", "open"} /\ fate'[r] = "void"
    <3>1. Open(r)' => Open(r)
      BY <1>0, <2>1 DEF Open, Consumable
    <3>2. Open(r) => r <= refsDrawn
      BY DEF Open, IInv, RefsDrawn
    <3> QED
      BY <2>1, <3>1, <3>2, HoldersKept, FateOf
  <2> QED
    BY <2>1, <2>2, VoidStep
<1>7. CASE GrantStoreCall \/ UNCHANGED vars
  <2>1. UNCHANGED <<now, sessions, pending, refsDrawn, redemptions>>
    BY <1>7 DEF GrantStoreCall, Grants!Rotate, Grants!Revoke, Grants!Clear,
                authorityVars, vars
  <2> QED
    BY <2>1 DEF fate, holder, Open, Consumable
<1> QED
  BY <1>1, <1>2, <1>3, <1>4, <1>5, <1>6, <1>7, Steps DEF IInv

(* Initially no invitation has been offered. *)
LEMMA RefinementInit == Init => Invitation!Init
<1> SUFFICES ASSUME Init PROVE Invitation!Init
  OBVIOUS
<1>1. redemptions = {} /\ DOMAIN pending = {} /\ refsDrawn = 0
  BY EmptyMapType DEF Init
<1>2. ASSUME NEW r \in Ref PROVE ~(r <= refsDrawn)
  BY <1>1, AuthorityAssumption DEF Ref
<1> QED
  BY <1>1, <1>2 DEF Invitation!Init, fate, holder, Open

(* The authority implements the one-use invitation. *)
THEOREM AuthorityImplementsInvitation == Spec => ImplementsInvitation
<1> QED
  BY RefinementInit, RefinementStep, AlwaysIInv, PTL
     DEF Spec, ImplementsInvitation, Invitation!Spec, Invitation!vars

-----------------------------------------------------------------------------
(* What a grant carries.  Its identifier is new when it is issued, so no    *)
(* redemption of the past speaks of it.                                     *)

GrantsDrawn ==
  /\ \A id \in DOMAIN grants : id <= drawn
  /\ \A a \in redemptions : a.grant <= drawn

OfferInv == TypeOK /\ GrantsDrawn /\ GrantWithinOffer

(* Issuing a grant within the offer keeps every grant within its offer. *)
LEMMA RedeemWithinOffer ==
  ASSUME OfferInv, NEW ref \in Ref, Redeems(ref)
  PROVE  GrantsDrawn' /\ GrantWithinOffer'
<1>1. PICK key \in Peer, node \in Peer, caps \in SUBSET pending[ref].allowed :
        Redeem(ref, key, node, caps)
  BY DEF Redeems
<1>2. /\ drawn \in Nat
      /\ \A id \in DOMAIN grants : id \in Nat
      /\ \A a \in redemptions : a.grant \in Nat
  BY DEF OfferInv, TypeOK, Grants!TypeOK, Grants!IsMapOf, Grants!Draw, Redemption, Draw
<1> DEFINE new == [ref |-> ref, grant |-> drawn + 1, peer |-> node,
                   allowed |-> pending[ref].allowed,
                   createdAt |-> sessions[ref].createdAt, at |-> now]
           g == Grants!NewGrant(key, node, caps)
<1>3. /\ drawn' = drawn + 1
      /\ redemptions' = redemptions \cup {new}
      /\ grants' = Grants!MapSet(grants, drawn + 1, g)
  BY <1>1 DEF Redeem, Grants!Issue, Grants!Fresh
<1>4. g.capabilities \subseteq new.allowed /\ new.grant = drawn + 1
  BY DEF Grants!NewGrant
<1> HIDE DEF new, g
<1>5. /\ DOMAIN grants' = DOMAIN grants \cup {drawn + 1}
      /\ grants'[drawn + 1] = g
      /\ \A id \in DOMAIN grants \ {drawn + 1} : grants'[id] = grants[id]
  BY <1>3 DEF Grants!MapSet
<1>6. GrantsDrawn'
  BY <1>2, <1>3, <1>4, <1>5 DEF OfferInv, GrantsDrawn
<1>7. ASSUME NEW a \in redemptions', a.grant \in DOMAIN grants'
      PROVE  grants'[a.grant].capabilities \subseteq a.allowed
  <2>1. CASE a = new
    BY <1>4, <1>5, <2>1
  <2>2. CASE a \in redemptions
    BY <1>2, <1>5, <1>7, <2>2 DEF OfferInv, GrantsDrawn, GrantWithinOffer
  <2> QED
    BY <1>3, <2>1, <2>2
<1> QED
  BY <1>6, <1>7 DEF GrantWithinOffer

(* Rotation and revocation change no capability. *)
LEMMA StoreCallWithinOffer ==
  ASSUME OfferInv, GrantStoreCall
  PROVE  GrantsDrawn' /\ GrantWithinOffer'
<1>0. /\ drawn \in Nat /\ redemptions' = redemptions
      /\ \A id \in DOMAIN grants : id \in Nat /\ grants[id] \in Grants!PairingGrant
      /\ \A a \in redemptions : a.grant \in Nat
  BY DEF OfferInv, TypeOK, Grants!TypeOK, Grants!IsMapOf, Grants!Draw, Redemption, Draw,
         GrantStoreCall, authorityVars
<1>1. ASSUME drawn' = drawn \/ drawn' = drawn + 1,
             DOMAIN grants' \subseteq DOMAIN grants,
             \A id \in DOMAIN grants' : grants'[id].capabilities = grants[id].capabilities
      PROVE  GrantsDrawn' /\ GrantWithinOffer'
  BY <1>0, <1>1 DEF OfferInv, GrantsDrawn, GrantWithinOffer
<1>2. ASSUME NEW id \in Draw, NEW token \in Draw, Grants!Rotate(id, token)
      PROVE  GrantsDrawn' /\ GrantWithinOffer'
  <2>1. /\ id \in DOMAIN grants /\ drawn' = drawn + 1
        /\ grants' = [grants EXCEPT ![id] = Grants!Rotated(grants[id])]
    BY <1>2 DEF Grants!Rotate, Grants!AcceptsRefresh, Grants!Fresh
  <2>2. Grants!Rotated(grants[id]).capabilities = grants[id].capabilities
    BY <1>0, <2>1 DEF Grants!Rotated, Grants!PairingGrant
  <2> QED
    BY <1>1, <2>1, <2>2
<1>3. ASSUME NEW ids, Grants!Revoke(ids)
      PROVE  GrantsDrawn' /\ GrantWithinOffer'
  <2>1. /\ DOMAIN grants' = DOMAIN grants /\ drawn' = drawn
        /\ \A id \in DOMAIN grants : grants'[id].capabilities = grants[id].capabilities
    BY <1>0, <1>3 DEF Grants!Revoke, Grants!PairingGrant
  <2> QED
    BY <1>1, <2>1
<1>4. CASE Grants!Clear
  BY <1>1, <1>4 DEF Grants!Clear, Grants!EmptyMap
<1> QED
  BY <1>2, <1>3, <1>4 DEF GrantStoreCall

(* A grant never carries a capability its invitation did not offer. *)
THEOREM GrantsStayWithinOffer == Spec => []GrantWithinOffer
<1>1. Init => OfferInv
  <2>1. Init => DOMAIN grants = {} /\ redemptions = {}
    BY DEF Init, Grants!Init, Grants!EmptyMap
  <2> QED
    BY <2>1, InitTypeOK DEF OfferInv, GrantsDrawn, GrantWithinOffer
<1>2. OfferInv /\ [Next]_vars => OfferInv'
  <2> SUFFICES ASSUME OfferInv, [Next]_vars PROVE GrantsDrawn' /\ GrantWithinOffer'
    BY NextTypeOK DEF OfferInv
  <2>1. ASSUME UNCHANGED <<drawn, grants, redemptions>>
        PROVE  GrantsDrawn' /\ GrantWithinOffer'
    BY <2>1 DEF OfferInv, GrantsDrawn, GrantWithinOffer
  <2>2. CASE \/ \E allowed \in SUBSET Capability : CreateQr(allowed)
             \/ CreateQrTooLarge
             \/ \E ref \in Ref : ExpireInvitation(ref)
             \/ \E refs : WithdrawSessions(refs)
             \/ Tick
             \/ UNCHANGED vars
    BY <2>1, <2>2 DEF CreateQr, CreateQrTooLarge, ExpireInvitation, WithdrawSessions,
                      Tick, Grants!Tick, storeVars, authorityVars, vars
  <2> QED
    BY <2>2, RedeemWithinOffer, StoreCallWithinOffer, Steps DEF OfferInv
<1>3. OfferInv => GrantWithinOffer
  BY DEF OfferInv
<1> QED
  BY <1>1, <1>2, <1>3, PTL DEF Spec

(* The authority's table of grants is a grant store: what is proved of      *)
(* GrantStore holds of the desktop. *)
THEOREM AuthorityImplementsGrantStore == Spec => Grants!Spec
<1>1. Init => Grants!Init
  BY DEF Init
<1>2. TypeOK /\ [Next]_vars => [Grants!Next]_(Grants!vars)
  BY NextIsStoreStep DEF tableVars, Grants!vars
<1> QED
  BY <1>1, <1>2, TypeCorrect, PTL DEF Spec, Grants!Spec

=============================================================================
