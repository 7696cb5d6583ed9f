------------------------- MODULE PairingFlow_proofs -------------------------
(***************************************************************************)
(* What the pairing flow promises, for any number of phones, desktops and  *)
(* overlapping attempts.  (That every attempt comes to an end is left to   *)
(* TLC.)                                                                   *)
(*                                                                         *)
(* IInv follows a grant along its way: from the moment the desktop sends   *)
(* it until the phone has recorded it, the attempt it travels in belongs   *)
(* to the phone that holds the invitation (GrantTravels).                  *)
(***************************************************************************)
EXTENDS PairingFlow, TLAPS

\* An attempt that carries, or has carried, the grant of its desktop.
Carries(a) ==
  \/ links[a].reply = "grant"
  \/ links[a].handler \in {"granted", "serving"}
  \/ attempts[a].pc \in {"accepting", "paired", "served"}

GrantTravels ==
  \A a \in Attempt : Carries(a) =>
    /\ attempts[a].mobile \in Mobile
    /\ holder[attempts[a].target] = attempts[a].mobile

\* Only a redeemed invitation has a holder.
HeldIsRedeemed == \A d \in Desktop : holder[d] # NoMobile => fate[d] = "redeemed"

\* An attempt that has not begun has opened no connection.
FreeIsUnlinked == \A a \in Attempt : attempts[a] = NoAttempt => links[a] = NoLink

\* A client that counts as verified shows an envelope its user confirmed, and
\* has not been paired.
VerifiedEnvelope ==
  \A m \in Mobile : state[m] = "fingerprint_verified" =>
    envelope[m] \in verified[m] /\ paired[m] = NotPaired

IInv ==
  /\ TypeOK
  /\ GrantTravels
  /\ HeldIsRedeemed
  /\ FreeIsUnlinked
  /\ PairedIsHolder
  /\ VerifiedEnvelope
  /\ PairedHubWasVerified

-----------------------------------------------------------------------------
(* TypeOK holds initially and every step keeps it. *)
LEMMA InitTypeOK == Init => TypeOK
BY DEF Init, TypeOK, Invitation!Init, Invitation!TypeOK, Invitation!Fate, NoAttempt, NoLink

LEMMA NextTypeOK == TypeOK /\ [Next]_vars => TypeOK'
<1> SUFFICES ASSUME TypeOK, [Next]_vars PROVE TypeOK'
  OBVIOUS
<1> USE DEF TypeOK, Invitation!TypeOK, Invitation!Fate
<1>1. ASSUME NEW m \in Mobile, NEW d \in Desktop, Scan(m, d)
      PROVE  TypeOK'
  BY <1>1 DEF Scan, desktopVars
<1>2. ASSUME NEW m \in Mobile, ScanRejected(m)
      PROVE  TypeOK'
  BY <1>2 DEF ScanRejected, desktopVars
<1>3. ASSUME NEW m \in Mobile, ButtonVisible(m), VerifyFingerprint(m)
      PROVE  /\ state' \in [Mobile -> {"scanning", "qr_scanned", "fingerprint_verified",
                                       "paired", "error"}]
             /\ verified' \in [Mobile -> SUBSET Desktop]
  <2>1. envelope[m] \in Desktop
    BY <1>3 DEF ButtonVisible
  <2> QED
    BY <1>3, <2>1 DEF VerifyFingerprint
<1>4. ASSUME NEW m \in Mobile, PressWithoutAddress(m)
      PROVE  TypeOK'
  BY <1>3, <1>4 DEF PressWithoutAddress, desktopVars
<1>5. ASSUME NEW m \in Mobile, NEW a \in Attempt, Press(m, a)
      PROVE  TypeOK'
  <2> DEFINE pc == CASE endpoint[m] = "ready"    -> "dialing"
                     [] endpoint[m] = "starting" -> "failed"
                     [] OTHER                    -> "starting"
  <2>1. /\ pc \in Busy \cup Settled /\ candidate[m] \in Dialable
        /\ attempts' = [attempts EXCEPT ![a] = [pc |-> pc, mobile |-> m,
                                                target |-> candidate[m]]]
        /\ endpoint' = [endpoint EXCEPT ![m] = IF endpoint[m] = "ready"
                                               THEN endpoint[m] ELSE "starting"]
    BY <1>5 DEF Press, Busy, AwaitsBridge, Settled
  <2> HIDE DEF pc
  <2>2. /\ attempts' \in [Attempt ->
             [pc : Busy \cup Settled, mobile : Mobile, target : Dialable] \cup {NoAttempt}]
        /\ endpoint' \in [Mobile -> {"idle", "starting", "ready", "failed"}]
    BY <2>1
  <2> QED
    BY <1>3, <1>5, <2>2 DEF Press, desktopVars
<1>6. ASSUME NEW a \in Attempt, NEW pc \in Busy \cup Settled,
             attempts[a].pc \in Busy \cup Settled, Goto(a, pc)
      PROVE  /\ attempts' \in [Attempt ->
                  [pc : Busy \cup Settled, mobile : Mobile, target : Dialable] \cup {NoAttempt}]
             /\ attempts[a].mobile \in Mobile /\ attempts[a].target \in Dialable
  <2>1. attempts[a] \in [pc : Busy \cup Settled, mobile : Mobile, target : Dialable]
    BY <1>6 DEF NoAttempt, Busy, AwaitsBridge, Settled
  <2>2. attempts' = [attempts EXCEPT ![a] = [pc |-> pc, mobile |-> attempts[a].mobile,
                                             target |-> attempts[a].target]]
    <3>1. [attempts[a] EXCEPT !.pc = pc] =
            [pc |-> pc, mobile |-> attempts[a].mobile, target |-> attempts[a].target]
      BY <2>1
    <3>2. attempts' = [attempts EXCEPT ![a] = [attempts[a] EXCEPT !.pc = pc]]
      BY <1>6 DEF Goto
    <3> QED
      BY <3>1, <3>2
  <2> QED
    BY <2>1, <2>2
<1>7. ASSUME NEW a \in Attempt, TimedStep(a) \/ BridgeStep(a) \/ Forward(a)
      PROVE  TypeOK'
  <2> USE DEF Busy, AwaitsBridge, Settled
  <2>1. CASE EndpointStarts(a)
    BY <1>6, <2>1 DEF EndpointStarts, desktopVars
  <2>2. CASE Dial(a)
    BY <1>6, <2>2 DEF Dial, NoLink, desktopVars, mobileVars
  <2>3. CASE GiveUp(a)
    BY <1>6, <2>3 DEF GiveUp, desktopVars, mobileVars
  <2>4. CASE ReadReply(a)
    BY <1>6, <2>4 DEF ReadReply, desktopVars, mobileVars
  <2>5. CASE Accept(a)
    BY <1>6, <2>5 DEF Accept, ReadyForGrant, desktopVars
  <2>6. CASE AcceptThrows(a)
    BY <1>6, <2>6 DEF AcceptThrows, desktopVars, mobileVars
  <2>7. CASE Forward(a)
    BY <1>6, <2>7 DEF Forward, desktopVars, mobileVars
  <2>8. CASE HelloFails(a) \/ StreamCloses(a)
    BY <1>6, <2>8 DEF HelloFails, StreamCloses, desktopVars, mobileVars
  <2>9. CASE SendRequest(a)
    <3>1. links' \in [Attempt ->
            [open : BOOLEAN, request : BOOLEAN, reply : {"none", "grant", "reject"},
             handler : {"none", "listening", "granted", "refused", "serving"}]]
      <4>1. links[a] \in [open : BOOLEAN, request : BOOLEAN,
                          reply : {"none", "grant", "reject"},
                          handler : {"none", "listening", "granted", "refused", "serving"}]
        OBVIOUS
      <4>2. \/ UNCHANGED links
            \/ links' = [links EXCEPT ![a] = [links[a] EXCEPT !.request = TRUE]]
        BY <2>9 DEF SendRequest
      <4>3. [links[a] EXCEPT !.request = TRUE] \in
              [open : BOOLEAN, request : BOOLEAN, reply : {"none", "grant", "reject"},
               handler : {"none", "listening", "granted", "refused", "serving"}]
        BY <4>1
      <4> QED
        BY <4>2, <4>3
    <3> QED
      BY <1>6, <2>9, <3>1 DEF SendRequest, desktopVars, mobileVars
  <2> QED
    BY <1>7, <2>1, <2>2, <2>3, <2>4, <2>5, <2>6, <2>7, <2>8, <2>9 DEF TimedStep, BridgeStep
<1>8. ASSUME NEW a \in Attempt, OnMessage(a) \/ RegisterForwarder(a) \/ LinkCloses(a)
      PROVE  TypeOK'
  <2>1. CASE OnMessage(a)
    <3>1. /\ fate' \in [Desktop -> Invitation!Fate]
          /\ holder' \in [Desktop -> Mobile \cup {NoMobile}]
      <4>1. links[a].request /\ attempts[a].mobile \in Mobile \cup {NoMobile}
        BY <2>1 DEF OnMessage, NoAttempt
      <4> QED
        BY <2>1, <4>1 DEF OnMessage, Invitation!Redeem, desktopVars
    <3>2. links[a] \in [open : BOOLEAN, request : BOOLEAN,
                        reply : {"none", "grant", "reject"},
                        handler : {"none", "listening", "granted", "refused", "serving"}]
      OBVIOUS
    <3>3. PICK reply \in {"grant", "reject"}, handler \in {"granted", "refused"} :
            links' = [links EXCEPT ![a] =
              [open |-> links[a].open, request |-> FALSE, reply |-> reply, handler |-> handler]]
      BY <2>1, <3>2 DEF OnMessage
    <3>4. links' \in [Attempt ->
            [open : BOOLEAN, request : BOOLEAN, reply : {"none", "grant", "reject"},
             handler : {"none", "listening", "granted", "refused", "serving"}]]
      BY <3>2, <3>3
    <3>5. UNCHANGED <<state, envelope, candidate, endpoint, paired, verified, attempts>>
      BY <2>1 DEF OnMessage, mobileVars
    <3> QED
      BY <3>1, <3>4, <3>5
  <2>2. CASE RegisterForwarder(a)
    BY <1>8, <2>2 DEF RegisterForwarder, desktopVars, mobileVars
  <2>3. CASE LinkCloses(a)
    <3>1. PICK reply \in {"none", links[a].reply} :
            links' = [links EXCEPT ![a] = [NoLink EXCEPT !.reply = reply]]
      BY <2>3 DEF LinkCloses
    <3>2. reply \in {"none", "grant", "reject"}
      OBVIOUS
    <3> QED
      BY <2>3, <3>1, <3>2 DEF LinkCloses, NoLink, desktopVars, mobileVars
  <2> QED
    BY <1>8, <2>1, <2>2, <2>3
<1>9. ASSUME NEW d \in Desktop, ShowQr(d) \/ Expire(d)
      PROVE  TypeOK'
  BY <1>9 DEF ShowQr, Expire, Invitation!Offer, Invitation!Void, mobileVars
<1>10. CASE UNCHANGED vars
  BY <1>10 DEF vars
<1> QED
  BY <1>1, <1>2, <1>4, <1>5, <1>7, <1>8, <1>9, <1>10 DEF Next

(* Every reachable state of the flow has the declared type. *)
THEOREM TypeCorrect == Spec => []TypeOK
<1> QED
  BY InitTypeOK, NextTypeOK, PTL DEF Spec

-----------------------------------------------------------------------------
(* Moving an attempt on changes nothing but its program counter. *)
LEMMA GotoFacts ==
  ASSUME TypeOK, NEW a \in Attempt, NEW pc, attempts[a].pc \in Busy \cup Settled,
         Goto(a, pc)
  PROVE  /\ attempts[a] # NoAttempt
         /\ attempts[a].mobile \in Mobile /\ attempts[a].target \in Dialable
         /\ attempts'[a].pc = pc
         /\ attempts'[a].mobile = attempts[a].mobile
         /\ attempts'[a].target = attempts[a].target
         /\ \A b \in Attempt \ {a} : attempts'[b] = attempts[b]
<1>1. attempts[a] \in [pc : Busy \cup Settled, mobile : Mobile, target : Dialable]
  BY DEF TypeOK, NoAttempt, Busy, AwaitsBridge, Settled
<1>2. attempts' = [attempts EXCEPT ![a] = [attempts[a] EXCEPT !.pc = pc]]
  BY DEF Goto
<1>3. /\ attempts[a] # NoAttempt
      /\ attempts[a].mobile \in Mobile /\ attempts[a].target \in Dialable
  BY <1>1 DEF NoAttempt, Busy, AwaitsBridge, Settled
<1>4. attempts'[a] = [attempts[a] EXCEPT !.pc = pc]
  BY <1>2 DEF TypeOK
<1>5. \A b \in Attempt \ {a} : attempts'[b] = attempts[b]
  BY <1>2 DEF TypeOK
<1> QED
  BY <1>1, <1>3, <1>4, <1>5

(* The attempt behind a connection that is in use has begun. *)
LEMMA LinkedHasBegun ==
  ASSUME TypeOK, FreeIsUnlinked, NEW a \in Attempt, links[a] # NoLink
  PROVE  attempts[a].mobile \in Mobile /\ attempts[a].target \in Dialable
BY DEF TypeOK, FreeIsUnlinked

-----------------------------------------------------------------------------
(* The invariant, a conjunct at a time.  First the two that only follow the *)
(* grants: no step gives a grant away that its phone does not hold. *)
LEMMA NextGrants ==
  ASSUME IInv, [Next]_vars
  PROVE  GrantTravels' /\ HeldIsRedeemed' /\ FreeIsUnlinked'
<1> DEFINE Goal == GrantTravels' /\ HeldIsRedeemed' /\ FreeIsUnlinked'
<1> USE DEF IInv
<1>1. ASSUME UNCHANGED <<fate, holder, attempts, links>>
      PROVE  Goal
  BY <1>1 DEF GrantTravels, Carries, HeldIsRedeemed, FreeIsUnlinked
<1>2. ASSUME NEW m \in Mobile, NEW a \in Attempt, Press(m, a)
      PROVE  Goal
  <2>1. /\ attempts[a] = NoAttempt /\ links[a] = NoLink
        /\ UNCHANGED <<fate, holder, links>>
    BY <1>2 DEF Press, desktopVars, FreeIsUnlinked
  <2>2. /\ attempts'[a].pc \in {"starting", "dialing", "failed"}
        /\ attempts'[a].mobile = m
        /\ \A b \in Attempt \ {a} : attempts'[b] = attempts[b]
    BY <1>2 DEF Press, TypeOK
  <2>3. attempts'[a] # NoAttempt
    BY <2>2, FlowAssumption DEF NoAttempt
  <2>4. ~Carries(a)'
    BY <2>1, <2>2 DEF Carries, NoLink
  <2>5. \A b \in Attempt \ {a} : Carries(b)' <=> Carries(b)
    BY <2>1, <2>2 DEF Carries
  <2>6. GrantTravels'
    BY <2>1, <2>2, <2>4, <2>5 DEF GrantTravels
  <2>7. FreeIsUnlinked'
    BY <2>1, <2>2, <2>3 DEF FreeIsUnlinked
  <2> QED
    BY <2>1, <2>6, <2>7 DEF HeldIsRedeemed
<1>3. ASSUME NEW a \in Attempt, NEW pc, attempts[a].pc \in Busy \cup Settled,
             Goto(a, pc), UNCHANGED <<fate, holder>>,
             \A b \in Attempt \ {a} : links'[b] = links[b],
             Carries(a)' => Carries(a)
      PROVE  Goal
  <2>1. /\ attempts[a] # NoAttempt
        /\ attempts'[a].mobile = attempts[a].mobile
        /\ attempts'[a].target = attempts[a].target
        /\ attempts'[a].mobile \in Mobile
        /\ \A b \in Attempt \ {a} : attempts'[b] = attempts[b]
    BY <1>3, GotoFacts
  <2>2. attempts'[a] # NoAttempt
    BY <2>1, FlowAssumption DEF NoAttempt
  <2>3. \A b \in Attempt \ {a} : Carries(b)' <=> Carries(b)
    BY <1>3, <2>1 DEF Carries
  <2>4. GrantTravels'
    BY <1>3, <2>1, <2>3 DEF GrantTravels
  <2>5. FreeIsUnlinked'
    BY <1>3, <2>1, <2>2 DEF FreeIsUnlinked
  <2> QED
    BY <1>3, <2>4, <2>5 DEF HeldIsRedeemed
<1>4. ASSUME NEW a \in Attempt, TimedStep(a) \/ BridgeStep(a) \/ Forward(a)
      PROVE  Goal
  <2> USE DEF Busy, AwaitsBridge, Settled, desktopVars, mobileVars, Carries
  <2>1. CASE EndpointStarts(a)
    <3>1. PICK pc \in {"dialing", "failed"} :
            Goto(a, pc) /\ attempts[a].pc = "starting" /\ UNCHANGED <<fate, holder, links>>
      BY <2>1 DEF EndpointStarts
    <3>2. attempts'[a].pc = pc
      BY <3>1, GotoFacts
    <3> QED
      BY <1>3, <3>1, <3>2
  <2>2. CASE Dial(a)
    <3>1. /\ Goto(a, "asking") /\ attempts[a].pc = "dialing" /\ UNCHANGED <<fate, holder>>
          /\ links'[a].reply = "none" /\ links'[a].handler = "listening"
          /\ \A b \in Attempt \ {a} : links'[b] = links[b]
      BY <2>2 DEF Dial, NoLink, TypeOK
    <3>2. attempts'[a].pc = "asking"
      BY <3>1, GotoFacts
    <3> QED
      BY <1>3, <3>1, <3>2
  <2>3. CASE GiveUp(a)
    <3>1. /\ Goto(a, "failed") /\ attempts[a].pc \in {"dialing", "waiting"}
          /\ UNCHANGED <<fate, holder, links>>
      BY <2>3 DEF GiveUp
    <3>2. attempts'[a].pc = "failed"
      BY <3>1, GotoFacts
    <3> QED
      BY <1>3, <3>1, <3>2
  <2>4. CASE ReadReply(a)
    <3>1. PICK pc \in {"accepting", "failed"} :
            /\ Goto(a, pc) /\ attempts[a].pc = "waiting"
            /\ pc = "accepting" => links[a].reply = "grant"
      BY <2>4 DEF ReadReply
    <3>2. /\ UNCHANGED <<fate, holder>>
          /\ links' = [links EXCEPT ![a] = [links[a] EXCEPT !.reply = "none"]]
      BY <2>4 DEF ReadReply
    <3>3. links'[a].reply = "none" /\ links'[a].handler = links[a].handler
      BY <3>2 DEF TypeOK
    <3>4. \A b \in Attempt \ {a} : links'[b] = links[b]
      BY <3>2 DEF TypeOK
    <3>5. attempts'[a].pc = pc
      BY <3>1, GotoFacts
    <3> QED
      BY <1>3, <3>1, <3>2, <3>3, <3>4, <3>5
  <2>5. CASE Accept(a)
    <3>1. Goto(a, "paired") /\ attempts[a].pc = "accepting" /\ UNCHANGED <<fate, holder, links>>
      BY <2>5 DEF Accept
    <3>2. attempts'[a].pc = "paired"
      BY <3>1, GotoFacts
    <3> QED
      BY <1>3, <3>1, <3>2
  <2>6. CASE AcceptThrows(a)
    <3>1. Goto(a, "failed") /\ attempts[a].pc = "accepting" /\ UNCHANGED <<fate, holder, links>>
      BY <2>6 DEF AcceptThrows
    <3>2. attempts'[a].pc = "failed"
      BY <3>1, GotoFacts
    <3> QED
      BY <1>3, <3>1, <3>2
  <2>7. CASE Forward(a)
    <3>1. PICK pc \in {"served", "unserved"} :
            Goto(a, pc) /\ attempts[a].pc = "paired" /\ UNCHANGED <<fate, holder, links>>
      BY <2>7 DEF Forward
    <3>2. attempts'[a].pc = pc
      BY <3>1, GotoFacts
    <3> QED
      BY <1>3, <3>1, <3>2
  <2>8. CASE HelloFails(a) \/ StreamCloses(a)
    <3>1. PICK pc \in {"closing", "failed"} :
            /\ Goto(a, pc) /\ attempts[a].pc \in {"dialing", "closing"}
            /\ UNCHANGED <<fate, holder, links>>
      BY <2>8 DEF HelloFails, StreamCloses
    <3>2. attempts'[a].pc = pc
      BY <3>1, GotoFacts
    <3> QED
      BY <1>3, <3>1, <3>2
  <2>9. CASE SendRequest(a)
    <3>1. PICK pc \in {"waiting", "failed"} :
            Goto(a, pc) /\ attempts[a].pc = "asking" /\ UNCHANGED <<fate, holder>>
      BY <2>9 DEF SendRequest
    <3>2. /\ links'[a].reply = links[a].reply /\ links'[a].handler = links[a].handler
          /\ \A b \in Attempt \ {a} : links'[b] = links[b]
      BY <2>9 DEF SendRequest, TypeOK
    <3>3. attempts'[a].pc = pc
      BY <3>1, GotoFacts
    <3> QED
      BY <1>3, <3>1, <3>2, <3>3
  <2> QED
    BY <1>4, <2>1, <2>2, <2>3, <2>4, <2>5, <2>6, <2>7, <2>8, <2>9 DEF TimedStep, BridgeStep
<1>5. ASSUME NEW a \in Attempt, OnMessage(a)
      PROVE  Goal
  <2> DEFINE d == attempts[a].target
             m == attempts[a].mobile
  <2>1. links[a] # NoLink
    BY <1>5 DEF OnMessage, NoLink
  <2>2. d \in Desktop /\ m \in Mobile
    BY <2>1, LinkedHasBegun, FlowAssumption
  <2>3. /\ attempts' = attempts /\ links[a] \in [open : BOOLEAN, request : BOOLEAN,
             reply : {"none", "grant", "reject"},
             handler : {"none", "listening", "granted", "refused", "serving"}]
        /\ \A b \in Attempt \ {a} : links'[b] = links[b]
    BY <1>5 DEF OnMessage, TypeOK
  <2>4. FreeIsUnlinked'
    BY <2>1, <2>3 DEF FreeIsUnlinked
  <2>5. \A b \in Attempt \ {a} : Carries(b)' <=> Carries(b)
    BY <2>3 DEF Carries
  <2>6. CASE Invitation!Redeem(d, m)
    <3>1. /\ fate[d] = "open" /\ fate' = [fate EXCEPT ![d] = "redeemed"]
          /\ holder' = [holder EXCEPT ![d] = m]
      BY <2>6 DEF Invitation!Redeem
    <3>2. /\ fate'[d] = "redeemed" /\ holder'[d] = m
          /\ \A e \in Desktop \ {d} : fate'[e] = fate[e] /\ holder'[e] = holder[e]
      BY <2>2, <3>1 DEF TypeOK, Invitation!TypeOK
    <3>3. holder[d] = NoMobile
      BY <2>2, <3>1 DEF HeldIsRedeemed
    <3>4. HeldIsRedeemed'
      BY <3>2 DEF HeldIsRedeemed
    <3>5. ASSUME NEW b \in Attempt \ {a}, Carries(b)
          PROVE  /\ attempts[b].mobile \in Mobile
                 /\ holder'[attempts[b].target] = attempts[b].mobile
      <4>1. /\ attempts[b].mobile \in Mobile
            /\ holder[attempts[b].target] = attempts[b].mobile
        BY <3>5 DEF GrantTravels
      <4>2. attempts[b].target \in Dialable
        BY <4>1, FlowAssumption DEF TypeOK, NoAttempt
      <4>3. attempts[b].target # d
        BY <3>3, <4>1, FlowAssumption
      <4> QED
        BY <3>2, <4>1, <4>2, <4>3, FlowAssumption
    <3>6. GrantTravels'
      BY <2>2, <2>3, <2>5, <3>2, <3>5 DEF GrantTravels
    <3> QED
      BY <2>4, <3>4, <3>6
  <2>7. CASE ~Invitation!Redeem(d, m)
    <3>1. /\ UNCHANGED <<fate, holder>>
          /\ links' = [links EXCEPT ![a].request = FALSE, ![a].reply = "reject",
                                    ![a].handler = "refused"]
      BY <1>5, <2>7 DEF OnMessage, desktopVars
    <3>2. Carries(a)' => Carries(a)
      BY <2>3, <3>1 DEF Carries, TypeOK
    <3>3. GrantTravels'
      BY <2>3, <2>5, <3>1, <3>2 DEF GrantTravels
    <3> QED
      BY <2>4, <3>1, <3>3 DEF HeldIsRedeemed
  <2> QED
    BY <2>6, <2>7
<1>6. ASSUME NEW a \in Attempt, RegisterForwarder(a) \/ LinkCloses(a)
      PROVE  Goal
  <2>1. /\ UNCHANGED <<fate, holder, attempts>>
        /\ \A b \in Attempt \ {a} : links'[b] = links[b]
    BY <1>6 DEF RegisterForwarder, LinkCloses, desktopVars, TypeOK
  <2>2. links[a] # NoLink
    BY <1>6 DEF RegisterForwarder, LinkCloses, NoLink
  <2>3. Carries(a)' => Carries(a)
    <3>1. CASE RegisterForwarder(a)
      BY <3>1 DEF RegisterForwarder, Carries, TypeOK
    <3>2. CASE LinkCloses(a)
      <4>1. PICK reply \in {"none", links[a].reply} :
              links' = [links EXCEPT ![a] = [NoLink EXCEPT !.reply = reply]]
        BY <3>2 DEF LinkCloses
      <4>2. links'[a].reply = reply /\ links'[a].handler = "none"
        BY <4>1 DEF TypeOK, NoLink
      <4> QED
        BY <2>1, <4>2 DEF Carries
    <3> QED
      BY <1>6, <3>1, <3>2
  <2>4. GrantTravels'
    BY <2>1, <2>3 DEF GrantTravels, Carries
  <2>5. FreeIsUnlinked'
    BY <2>1, <2>2 DEF FreeIsUnlinked
  <2> QED
    BY <2>1, <2>4, <2>5 DEF HeldIsRedeemed
<1>7. ASSUME NEW d \in Desktop, ShowQr(d) \/ Expire(d)
      PROVE  Goal
  <2>1. UNCHANGED <<holder, attempts, links>>
    BY <1>7 DEF ShowQr, Expire, Invitation!Offer, Invitation!Void
  <2>2. HeldIsRedeemed'
    BY <1>7, <2>1
       DEF ShowQr, Expire, Invitation!Offer, Invitation!Void, HeldIsRedeemed,
           TypeOK, Invitation!TypeOK
  <2> QED
    BY <2>1, <2>2 DEF GrantTravels, Carries, FreeIsUnlinked
<1>8. CASE \/ \E m \in Mobile, d \in Desktop : Scan(m, d)
           \/ \E m \in Mobile : ScanRejected(m) \/ PressWithoutAddress(m)
           \/ UNCHANGED vars
  BY <1>1, <1>8 DEF Scan, ScanRejected, PressWithoutAddress, desktopVars, vars
<1> QED
  BY <1>2, <1>4, <1>5, <1>6, <1>7, <1>8 DEF Next

(* Then what the client of each phone holds.  The variables of a phone are  *)
(* only moved by a scan, a press and an acceptance on that phone. *)
LEMMA NextClients ==
  ASSUME IInv, [Next]_vars
  PROVE  /\ VerifiedEnvelope' /\ PairedHubWasVerified' /\ PairedIsHolder'
         /\ \A m \in Mobile : paired[m] # NotPaired => paired'[m] = paired[m]
<1> DEFINE Goal == /\ VerifiedEnvelope' /\ PairedHubWasVerified'
                   /\ \A m \in Mobile : paired[m] # NotPaired => paired'[m] = paired[m]
<1> USE DEF IInv
<1>1. ASSUME NEW d \in Desktop, NEW m \in Mobile, holder[d] = m
      PROVE  holder'[d] = m
  <2>1. fate[d] = "redeemed"
    BY <1>1, FlowAssumption DEF HeldIsRedeemed
  <2>2. CASE UNCHANGED holder
    BY <1>1, <2>2
  <2>3. ASSUME NEW a \in Attempt, OnMessage(a)
        PROVE  holder'[d] = holder[d]
    BY <2>1, <2>3 DEF OnMessage, Invitation!Redeem, desktopVars, TypeOK, Invitation!TypeOK
  <2> QED
    BY <1>1, <2>2, <2>3
       DEF Next, TimedStep, BridgeStep, Scan, ScanRejected, PressWithoutAddress, Press,
           EndpointStarts, Dial, HelloFails, StreamCloses, SendRequest, GiveUp, ReadReply,
           Accept, AcceptThrows, Forward, RegisterForwarder, LinkCloses, ShowQr, Expire, Invitation!Offer, Invitation!Void,
           desktopVars, mobileVars, vars
<1>2. ASSUME UNCHANGED <<state, envelope, paired, verified>>
      PROVE  Goal
  BY <1>2 DEF VerifiedEnvelope, PairedHubWasVerified
<1>3. ASSUME NEW m \in Mobile, NEW d \in Desktop, Scan(m, d)
      PROVE  Goal
  BY <1>3 DEF Scan, TypeOK, VerifiedEnvelope, PairedHubWasVerified
<1>4. ASSUME NEW m \in Mobile, ScanRejected(m)
      PROVE  Goal
  BY <1>4 DEF ScanRejected, TypeOK, VerifiedEnvelope, PairedHubWasVerified
<1>5. ASSUME NEW m \in Mobile, ButtonVisible(m), VerifyFingerprint(m),
             UNCHANGED <<envelope, paired>>
      PROVE  Goal
  <2>1. CASE state[m] = "qr_scanned"
    <3>1. /\ state' = [state EXCEPT ![m] = "fingerprint_verified"]
          /\ verified' = [verified EXCEPT ![m] = verified[m] \cup {envelope[m]}]
      BY <1>5, <2>1 DEF VerifyFingerprint
    <3>2. /\ \A k \in Mobile \ {m} : state'[k] = state[k] /\ verified'[k] = verified[k]
          /\ verified'[m] = verified[m] \cup {envelope[m]}
      BY <3>1 DEF TypeOK
    <3> QED
      BY <1>5, <3>2 DEF ButtonVisible, VerifiedEnvelope, PairedHubWasVerified
  <2>2. CASE state[m] # "qr_scanned"
    BY <1>2, <1>5, <2>2 DEF VerifyFingerprint
  <2> QED
    BY <2>1, <2>2
<1>6. ASSUME NEW a \in Attempt, Accept(a)
      PROVE  Goal /\ PairedIsHolder'
  <2> DEFINE m == attempts[a].mobile
             peer == [hub |-> envelope[m], issuer |-> attempts[a].target]
  <2>1. m \in Mobile /\ attempts[a].target \in Dialable /\ holder[attempts[a].target] = m
    BY <1>6, GotoFacts DEF Accept, Busy, AwaitsBridge, GrantTravels, Carries
  <2>2. /\ state[m] = "fingerprint_verified" /\ UNCHANGED <<envelope, verified, holder>>
        /\ paired' = [paired EXCEPT ![m] = peer]
        /\ state' = [state EXCEPT ![m] = "paired"]
    BY <1>6 DEF Accept, ReadyForGrant, desktopVars
  <2>3. /\ envelope[m] \in verified[m] /\ paired[m] = NotPaired
        /\ peer.hub = envelope[m] /\ peer.issuer = attempts[a].target
    BY <2>1, <2>2 DEF VerifiedEnvelope
  <2> HIDE DEF peer
  <2>4. /\ paired'[m] = peer /\ state'[m] = "paired"
        /\ \A k \in Mobile \ {m} : paired'[k] = paired[k] /\ state'[k] = state[k]
    BY <2>1, <2>2 DEF TypeOK
  <2>5. VerifiedEnvelope'
    BY <2>1, <2>2, <2>4 DEF VerifiedEnvelope
  <2>6. PairedHubWasVerified'
    BY <2>1, <2>2, <2>3, <2>4 DEF PairedHubWasVerified
  <2>7. PairedIsHolder'
    BY <2>1, <2>2, <2>3, <2>4 DEF PairedIsHolder
  <2> QED
    BY <2>1, <2>3, <2>4, <2>5, <2>6, <2>7
<1>7. ASSUME paired' = paired
      PROVE  PairedIsHolder'
  <2>1. ASSUME NEW m \in Mobile, paired'[m] # NotPaired
        PROVE  holder'[paired'[m].issuer] = m
    <3>1. paired[m].issuer \in Desktop /\ holder[paired[m].issuer] = m
      BY <1>7, <2>1, FlowAssumption DEF PairedIsHolder, TypeOK
    <3> QED
      BY <1>1, <1>7, <3>1
  <2> QED
    BY <2>1 DEF PairedIsHolder
<1>8. CASE \E m \in Mobile, d \in Desktop : Scan(m, d)
  BY <1>3, <1>7, <1>8 DEF Scan
<1>9. CASE \E m \in Mobile : ScanRejected(m)
  BY <1>4, <1>7, <1>9 DEF ScanRejected
<1>10. CASE \/ \E m \in Mobile : PressWithoutAddress(m)
            \/ \E m \in Mobile, a \in Attempt : Press(m, a)
  BY <1>5, <1>7, <1>10 DEF PressWithoutAddress, Press
<1>11. CASE \E a \in Attempt : Accept(a)
  BY <1>6, <1>11
<1>12. CASE \/ \E a \in Attempt : \/ EndpointStarts(a) \/ Dial(a) \/ GiveUp(a)
                                 \/ HelloFails(a) \/ StreamCloses(a) \/ SendRequest(a)
                                 \/ ReadReply(a) \/ AcceptThrows(a) \/ Forward(a)
                                 \/ OnMessage(a) \/ RegisterForwarder(a) \/ LinkCloses(a)
            \/ \E d \in Desktop : ShowQr(d) \/ Expire(d)
            \/ UNCHANGED vars
  BY <1>2, <1>7, <1>12
     DEF EndpointStarts, Dial, HelloFails, StreamCloses, SendRequest, GiveUp, ReadReply,
         AcceptThrows, Forward, OnMessage,
         RegisterForwarder, LinkCloses, ShowQr, Expire, mobileVars, vars
<1> QED
  BY <1>8, <1>9, <1>10, <1>11, <1>12 DEF Next, TimedStep, BridgeStep

(* The inductive invariant holds initially and every step keeps it. *)
LEMMA InitIInv == Init => IInv
<1> SUFFICES ASSUME Init PROVE IInv
  OBVIOUS
<1>1. TypeOK
  BY InitTypeOK
<1>2. GrantTravels /\ FreeIsUnlinked
  BY DEF Init, GrantTravels, Carries, FreeIsUnlinked, NoAttempt, NoLink
<1> QED
  BY <1>1, <1>2
     DEF Init, IInv, Invitation!Init, HeldIsRedeemed, PairedIsHolder, VerifiedEnvelope,
         PairedHubWasVerified

LEMMA NextIInv == IInv /\ [Next]_vars => IInv'
BY NextTypeOK, NextGrants, NextClients DEF IInv

LEMMA AlwaysIInv == Spec => []IInv
<1> QED
  BY InitIInv, NextIInv, PTL DEF Spec

-----------------------------------------------------------------------------
(* A phone that counts itself paired holds the invitation of the desktop    *)
(* whose grant it accepted. *)
THEOREM PairedPhonesHoldTheirInvitation == Spec => []PairedIsHolder
<1>1. IInv => PairedIsHolder
  BY DEF IInv
<1> QED
  BY <1>1, AlwaysIInv, PTL

(* The desktop forwards streams only for the phone that holds its grant. *)
THEOREM ForwardingFollowsTheGrant == Spec => []ForwardsOnlyToHolder
<1>1. IInv => ForwardsOnlyToHolder
  BY DEF IInv, GrantTravels, Carries, ForwardsOnlyToHolder
<1> QED
  BY <1>1, AlwaysIInv, PTL

(* The desktop a phone records is one whose fingerprint its user confirmed. *)
THEOREM RecordedHubsWereVerified == Spec => []PairedHubWasVerified
<1>1. IInv => PairedHubWasVerified
  BY DEF IInv
<1> QED
  BY <1>1, AlwaysIInv, PTL

(* No step replaces the peer record of a paired phone. *)
THEOREM PairingIsStable == Spec => PairedRecordIsStable
<1>1. IInv /\ [Next]_vars =>
        [\A m \in Mobile : paired[m] # NotPaired => paired'[m] = paired[m]]_vars
  BY NextClients
<1> QED
  BY <1>1, AlwaysIInv, PTL DEF Spec, PairedRecordIsStable

=============================================================================
