---------------------------- MODULE PairingFlow ----------------------------
(***************************************************************************)
(* QR pairing from end to end: the mobile application (App.tsx, index.ts   *)
(* and hub-pairing.ts of packages/react-native-app), the framed connection *)
(* it opens, and the responder of the desktop (startElectronRuntime in     *)
(* packages/electron-app/src/main.ts).                                     *)
(*                                                                         *)
(* A desktop is one launch of the desktop application: it displays one QR  *)
(* code in its life, so a desktop, its QR and its session reference share  *)
(* a name.  The authority that answers for the QR is the one-use           *)
(* invitation of OneUseInvitation, which PairingAuthority implements.      *)
(*                                                                         *)
(* A press of "Fingerprint Verified" starts an attempt: an async function  *)
(* with several awaits, of which any number may be under way on one phone. *)
(* Every action is the code between two awaits.                            *)
(***************************************************************************)
EXTENDS Integers

CONSTANTS
  Mobile, Desktop,
  Dialable,      \* the desktops whose QR carries a bootstrap address
  NoMobile, NoDesktop,
  MaxAttempts    \* bound on the attempts of all phones together

ASSUME FlowAssumption ==
  /\ Dialable \subseteq Desktop
  /\ NoMobile \notin Mobile
  /\ NoDesktop \notin Desktop
  /\ MaxAttempts \in Nat

VARIABLES
  fate, holder,  \* of the invitations: DesktopPairingAuthority
  state,         \* MobilePairingClient.state
  envelope,      \* MobilePairingClient.secureEnvelope
  candidate,     \* App: pairingCandidateRef.current
  endpoint,      \* ReactNativeIrohEndpoint.state
  paired,        \* MobilePairingClient.paired, with the issuer of its grant
  verified,      \* history: the desktops whose fingerprint the user confirmed
  attempts,      \* the running handleVerifyFingerprint calls
  links          \* the connection each attempt opened

desktopVars == <<fate, holder>>
mobileVars  == <<state, envelope, candidate, endpoint, paired, verified>>
vars == <<fate, holder, state, envelope, candidate, endpoint, paired,
          verified, attempts, links>>

Invitation == INSTANCE OneUseInvitation
                WITH Ref <- Desktop, Peer <- Mobile, NoPeer <- NoMobile

Attempt == 1 .. MaxAttempts

\* A native call under no timer: the close of a stream whose hello failed, and
\* getNodeId, before the request is sent and before the grant is accepted.
AwaitsBridge == {"closing", "asking", "accepting"}

Busy    == {"starting", "dialing", "waiting"} \cup AwaitsBridge
Settled == {"paired", "served", "unserved", "failed"}

NoAttempt == [pc |-> "free", mobile |-> NoMobile, target |-> NoDesktop]

\* open: neither end has seen the connection close.  request, reply: the
\* frame under way in each direction.  handler: the desktop's callback.
NoLink == [open |-> FALSE, request |-> FALSE, reply |-> "none", handler |-> "none"]

NotPaired == [hub |-> NoDesktop, issuer |-> NoDesktop]

TypeOK ==
  /\ Invitation!TypeOK
  /\ state \in [Mobile -> {"scanning", "qr_scanned", "fingerprint_verified",
                           "paired", "error"}]
  /\ envelope \in [Mobile -> Desktop \cup {NoDesktop}]
  /\ candidate \in [Mobile -> Dialable \cup {NoDesktop}]
  /\ endpoint \in [Mobile -> {"idle", "starting", "ready", "failed"}]
  /\ paired \in [Mobile -> [hub : Desktop, issuer : Dialable] \cup {NotPaired}]
  /\ verified \in [Mobile -> SUBSET Desktop]
  /\ attempts \in [Attempt ->
       [pc : Busy \cup Settled, mobile : Mobile, target : Dialable] \cup {NoAttempt}]
  /\ links \in [Attempt ->
       [open : BOOLEAN, request : BOOLEAN, reply : {"none", "grant", "reject"},
        handler : {"none", "listening", "granted", "refused", "serving"}]]

Init ==
  /\ Invitation!Init
  /\ state = [m \in Mobile |-> "scanning"]
  /\ envelope = [m \in Mobile |-> NoDesktop]
  /\ candidate = [m \in Mobile |-> NoDesktop]
  /\ endpoint = [m \in Mobile |-> "idle"]
  /\ paired = [m \in Mobile |-> NotPaired]
  /\ verified = [m \in Mobile |-> {}]
  /\ attempts = [a \in Attempt |-> NoAttempt]
  /\ links = [a \in Attempt |-> NoLink]

-----------------------------------------------------------------------------
(* The user and the phone.                                                 *)

\* handlePairingInput(value) of a QR that parsePairingInput accepts: one that
\* has been displayed and has not run out on the phone's clock, which may be
\* behind the desktop's.
Scan(m, d) ==
  /\ fate[d] # "unused"
  /\ state' = [state EXCEPT ![m] = "qr_scanned"]
  /\ envelope' = [envelope EXCEPT ![m] = d]
  /\ candidate' = [candidate EXCEPT ![m] = IF d \in Dialable THEN d ELSE NoDesktop]
  /\ UNCHANGED <<desktopVars, endpoint, paired, verified, attempts, links>>

\* handlePairingInput of anything else: the envelope of the scan before stays.
ScanRejected(m) ==
  /\ state' = [state EXCEPT ![m] = "error"]
  /\ UNCHANGED <<desktopVars, envelope, candidate, endpoint, paired, verified,
                 attempts, links>>

\* client.verifyFingerprint()
VerifyFingerprint(m) ==
  IF state[m] = "qr_scanned"
  THEN /\ state' = [state EXCEPT ![m] = "fingerprint_verified"]
       /\ verified' = [verified EXCEPT ![m] = @ \cup {envelope[m]}]
  ELSE UNCHANGED <<state, verified>>

\* The button is there from the first accepted scan until the phone is paired.
ButtonVisible(m) == envelope[m] # NoDesktop /\ paired[m] = NotPaired

\* handleVerifyFingerprint when the QR carried no address to dial.
PressWithoutAddress(m) ==
  /\ ButtonVisible(m)
  /\ candidate[m] = NoDesktop
  /\ VerifyFingerprint(m)
  /\ UNCHANGED <<desktopVars, envelope, candidate, endpoint, paired, attempts, links>>

\* handleVerifyFingerprint up to its first await.  The candidate and the
\* reference are read now; endpoint.start() resolves at once when the endpoint
\* runs and throws when another attempt is starting it.
Press(m, a) ==
  /\ ButtonVisible(m)
  /\ candidate[m] # NoDesktop
  /\ attempts[a] = NoAttempt
  /\ \A b \in 1 .. a - 1 : attempts[b] # NoAttempt    \* numbered in order
  /\ VerifyFingerprint(m)
  /\ attempts' = [attempts EXCEPT ![a] =
       [pc |-> CASE endpoint[m] = "ready"    -> "dialing"
                 [] endpoint[m] = "starting" -> "failed"
                 [] OTHER                    -> "starting",
        mobile |-> m, target |-> candidate[m]]]
  /\ endpoint' = [endpoint EXCEPT ![m] = IF @ = "ready" THEN @ ELSE "starting"]
  /\ UNCHANGED <<desktopVars, envelope, candidate, paired, links>>

-----------------------------------------------------------------------------
(* An attempt, from await to await.                                        *)

Goto(a, pc) == attempts' = [attempts EXCEPT ![a].pc = pc]

\* ReactNativeIrohEndpoint.start: the bridge answers, or 15 s go by.
EndpointStarts(a) ==
  LET m == attempts[a].mobile IN
  /\ attempts[a].pc = "starting"
  /\ \/ /\ endpoint' = [endpoint EXCEPT ![m] = "ready"]
        /\ Goto(a, "dialing")
     \/ /\ endpoint' = [endpoint EXCEPT ![m] = "failed"]
        /\ Goto(a, "failed")
  /\ UNCHANGED <<desktopVars, state, envelope, candidate, paired, verified, links>>

\* connect and openStream: the session, a stream of it and its hello.
Dial(a) ==
  /\ attempts[a].pc = "dialing"
  /\ Goto(a, "asking")
  /\ links' = [links EXCEPT ![a] = [NoLink EXCEPT !.open = TRUE, !.handler = "listening"]]
  /\ UNCHANGED <<desktopVars, mobileVars>>

\* The hello fails or its 5 s go by: the stream is closed before openStream
\* throws, and the close is awaited.
HelloFails(a) ==
  /\ attempts[a].pc = "dialing"
  /\ Goto(a, "closing")
  /\ UNCHANGED <<desktopVars, mobileVars, links>>

StreamCloses(a) ==
  /\ attempts[a].pc = "closing"
  /\ Goto(a, "failed")
  /\ UNCHANGED <<desktopVars, mobileVars, links>>

\* getNodeId answers and the pairing request is written; or there is no node
\* id, or the write rejects.
SendRequest(a) ==
  /\ attempts[a].pc = "asking"
  /\ \/ /\ links[a].open
        /\ links' = [links EXCEPT ![a].request = TRUE]
        /\ Goto(a, "waiting")
     \/ Goto(a, "failed") /\ UNCHANGED links
  /\ UNCHANGED <<desktopVars, mobileVars>>

\* The timers: 4.5 s for the dial, 30 s for the stream, a write or a read.
\* The connection is left as it is.
GiveUp_OnlyWhileDialing(a) ==
  /\ attempts[a].pc = "dialing"
  /\ Goto(a, "failed")
  /\ UNCHANGED <<desktopVars, mobileVars, links>>

GiveUp(a) ==
  /\ attempts[a].pc \in {"dialing", "waiting"}
  /\ Goto(a, "failed")
  /\ UNCHANGED <<desktopVars, mobileVars, links>>

\* stream.read() in startSovereignPeer: a grant, a rejection, or the end of
\* the stream.
ReadReply(a) ==
  /\ attempts[a].pc = "waiting"
  /\ \/ links[a].reply = "grant" /\ Goto(a, "accepting")
     \/ links[a].reply = "reject" /\ Goto(a, "failed")
     \/ ~links[a].open /\ links[a].reply = "none" /\ Goto(a, "failed")
  /\ links' = [links EXCEPT ![a].reply = "none"]
  /\ UNCHANGED <<desktopVars, mobileVars>>

\* The condition acceptIrohGrant puts on the client itself; the envelope is
\* the one of the latest scan, not the one the attempt began with.
ReadyForGrant_AnyState(m) == envelope[m] # NoDesktop

ReadyForGrant(m) == state[m] = "fingerprint_verified" /\ envelope[m] # NoDesktop

\* getNodeId answers: client.acceptIrohGrant(grant, mobileNodeId)
Accept(a) ==
  LET m == attempts[a].mobile IN
  /\ attempts[a].pc = "accepting"
  /\ ReadyForGrant(m)
  /\ paired' = [paired EXCEPT ![m] = [hub |-> envelope[m], issuer |-> attempts[a].target]]
  /\ state' = [state EXCEPT ![m] = "paired"]
  /\ Goto(a, "paired")
  /\ UNCHANGED <<desktopVars, envelope, candidate, endpoint, verified, links>>

\* There is no node id, or acceptIrohGrant throws: the client is in another
\* state, or the phone's clock is past the expiry of the grant.
AcceptThrows(a) ==
  /\ attempts[a].pc = "accepting"
  /\ Goto(a, "failed")
  /\ UNCHANGED <<desktopVars, mobileVars, links>>

\* startTcpForwarder and the health request, on a stream the desktop accepts
\* only where its responder has registered the forwarder.
Forward(a) ==
  /\ attempts[a].pc = "paired"
  /\ Goto(a, IF links[a].open /\ links[a].handler = "serving"
             THEN "served" ELSE "unserved")
  /\ UNCHANGED <<desktopVars, mobileVars, links>>

-----------------------------------------------------------------------------
(* The desktop and the network.                                            *)

\* createQr of startElectronRuntime
ShowQr(d) ==
  /\ Invitation!Offer(d)
  /\ UNCHANGED <<mobileVars, attempts, links>>

\* The QR runs out.
Expire(d) ==
  /\ fate[d] = "open"
  /\ Invitation!Void({d})
  /\ UNCHANGED <<mobileVars, attempts, links>>

\* The first message on a connection, handled up to the await of the reply:
\* completeScannedPairing, then the grant or the rejection is sent.
OnMessage_AnswersExpired(a) ==
  LET d == attempts[a].target
      m == attempts[a].mobile IN
  /\ links[a].open /\ links[a].request /\ links[a].handler = "listening"
  /\ \/ /\ \/ Invitation!Redeem(d, m)
           \/ fate[d] = "void" /\ UNCHANGED desktopVars
        /\ links' = [links EXCEPT ![a].request = FALSE, ![a].reply = "grant",
                                  ![a].handler = "granted"]
     \/ /\ fate[d] \notin {"open", "void"}
        /\ links' = [links EXCEPT ![a].request = FALSE, ![a].reply = "reject",
                                  ![a].handler = "refused"]
        /\ UNCHANGED desktopVars
  /\ UNCHANGED <<mobileVars, attempts>>

OnMessage_ForwardsFirst(a) ==
  LET d == attempts[a].target
      m == attempts[a].mobile IN
  /\ links[a].open /\ links[a].request /\ links[a].handler = "listening"
  /\ \/ /\ Invitation!Redeem(d, m)
        /\ links' = [links EXCEPT ![a].request = FALSE, ![a].reply = "grant",
                                  ![a].handler = "serving"]
     \/ /\ fate[d] # "open"
        /\ links' = [links EXCEPT ![a].request = FALSE, ![a].reply = "reject",
                                  ![a].handler = "serving"]
        /\ UNCHANGED desktopVars
  /\ UNCHANGED <<mobileVars, attempts>>

OnMessage(a) ==
  LET d == attempts[a].target
      m == attempts[a].mobile IN
  /\ links[a].open /\ links[a].request /\ links[a].handler = "listening"
  /\ \/ /\ Invitation!Redeem(d, m)
        /\ links' = [links EXCEPT ![a].request = FALSE, ![a].reply = "grant",
                                  ![a].handler = "granted"]
     \/ /\ fate[d] # "open"
        /\ links' = [links EXCEPT ![a].request = FALSE, ![a].reply = "reject",
                                  ![a].handler = "refused"]
        /\ UNCHANGED desktopVars
  /\ UNCHANGED <<mobileVars, attempts>>

\* The reply has been written: connection.onExtraStream.
RegisterForwarder(a) ==
  /\ links[a].open /\ links[a].handler = "granted"
  /\ links' = [links EXCEPT ![a].handler = "serving"]
  /\ UNCHANGED <<desktopVars, mobileVars, attempts>>

\* The connection closes; what is under way on it may still have arrived.
LinkCloses(a) ==
  /\ links[a].open
  /\ \E reply \in {"none", links[a].reply} :
       links' = [links EXCEPT ![a] = [NoLink EXCEPT !.reply = reply]]
  /\ UNCHANGED <<desktopVars, mobileVars, attempts>>

-----------------------------------------------------------------------------
TimedStep(a) ==
  EndpointStarts(a) \/ Dial(a) \/ HelloFails(a) \/ GiveUp(a) \/ ReadReply(a)

BridgeStep(a) ==
  StreamCloses(a) \/ SendRequest(a) \/ Accept(a) \/ AcceptThrows(a)

Next ==
  \/ \E m \in Mobile, d \in Desktop : Scan(m, d)
  \/ \E m \in Mobile : ScanRejected(m) \/ PressWithoutAddress(m)
  \/ \E m \in Mobile, a \in Attempt : Press(m, a)
  \/ \E a \in Attempt : TimedStep(a) \/ BridgeStep(a) \/ Forward(a)
  \/ \E a \in Attempt : OnMessage(a) \/ RegisterForwarder(a) \/ LinkCloses(a)
  \/ \E d \in Desktop : ShowQr(d) \/ Expire(d)

Spec == Init /\ [][Next]_vars

\* The awaits with a timer end, by their answer or by the timer.  Nothing is
\* assumed of a native call that has none.
FairSpec == Spec /\ \A a \in Attempt : WF_vars(TimedStep(a))

-----------------------------------------------------------------------------
(* What the flow promises.                                                 *)

(* "bound to that peer", "one-use": a phone that counts itself paired by a *)
(* grant of a desktop is the one that desktop gave its QR to; so no two    *)
(* phones are ever paired through one QR.                                  *)
PairedIsHolder ==
  \A m \in Mobile : paired[m] # NotPaired => holder[paired[m].issuer] = m

(* "only then should application envelopes be delivered" (ARCHITECTURE.md): *)
(* the desktop forwards streams to its local service only on a connection  *)
(* whose phone holds its grant.                                            *)
ForwardsOnlyToHolder ==
  \A a \in Attempt :
    links[a].handler = "serving" \/ attempts[a].pc = "served" =>
      holder[attempts[a].target] = attempts[a].mobile

(* "Must scan and verify the pairing QR before accepting a grant"          *)
(* (hub-pairing.ts:225): the desktop a phone records as its peer is one    *)
(* whose fingerprint its user confirmed, however scans, presses and        *)
(* replies interleave.                                                     *)
PairedHubWasVerified ==
  \A m \in Mobile : paired[m] # NotPaired => paired[m].hub \in verified[m]

(* A paired phone keeps its peer record: neither a later scan nor the late *)
(* reply of another attempt replaces it.                                   *)
PairedRecordIsStable ==
  [][\A m \in Mobile : paired[m] # NotPaired => paired'[m] = paired[m]]_vars

(* Every attempt to pair comes to an end, whatever the desktop, the network *)
(* and the other attempts do: none stays for ever at its timed awaits.     *)
(* Since no attempt comes to an await twice, it settles, or it is a call   *)
(* of the native bridge that never answers which keeps it                  *)
(* (iroh-bridge.ts:69, transport-adapter.ts:308).                          *)
AttemptsSettle ==
  \A a \in Attempt : []<>(attempts[a].pc \notin Busy \ AwaitsBridge)

(* "Accept a grant bound to the Iroh-authenticated peer" (hub-pairing.ts:222): *)
(* the identity a phone records for its desktop is the identity of the     *)
(* desktop that issued the grant.                                          *)
PairedIdentityIsIssuer ==
  \A m \in Mobile : paired[m] # NotPaired => paired[m].hub = paired[m].issuer

=============================================================================
