---------------------------- MODULE BleBootstrap ----------------------------
(***************************************************************************)
(* One bootstrap payload carried over BLE: the fragments of                *)
(* packages/ble-bootstrap/src/fragmentation.ts, the sender                 *)
(* BleBootstrapSession.transfer and the receiver receiveBootstrap of       *)
(* service.ts.                                                             *)
(*                                                                         *)
(* The radio link is an injected adapter: a notification may be lost, come *)
(* late, out of order or more than once, and bytes may be damaged.  The    *)
(* digest of a payload is the payload itself: SHA-256 is taken to be       *)
(* injective.  Header fields that decodeFragment can refuse by themselves  *)
(* (magic, version, sizes) make a notification Garbage.                    *)
(***************************************************************************)
EXTENDS Integers, Sequences, FiniteSets, SequencesExt

CONSTANTS
  Noise,           \* a byte damaged in transit
  Garbage,         \* a notification that decodeFragment throws on
  Transfer,        \* transfer identifiers
  Payload,         \* what may be sent: sequences of bytes
  ChunkBytes,      \* mtu - 3, at most 512
  MaxPayload,      \* MAX_BOOTSTRAP_BYTES
  MaxFragments,    \* MAX_FRAGMENTS
  MaxNotifications \* bound on the notifications that are delivered

ASSUME BleAssumption ==
  /\ ChunkBytes \in Nat \ {0} /\ MaxPayload \in Nat
  /\ MaxFragments \in Nat \ {0} /\ MaxNotifications \in Nat
  /\ \A payload \in Payload : payload \in Seq(ToSet(payload))

-----------------------------------------------------------------------------
(* fragmentBootstrap(payload, { mtu, transferId })                         *)

\* how many fragments a payload of n bytes takes
Count(n) == IF n = 0 THEN 1 ELSE (n + ChunkBytes - 1) \div ChunkBytes

Fits(payload) ==
  Len(payload) <= MaxPayload /\ Count(Len(payload)) <= MaxFragments

Smaller(a, b) == IF a <= b THEN a ELSE b

Part(payload, sequence) ==
  SubSeq(payload, sequence * ChunkBytes + 1,
         Smaller(Len(payload), (sequence + 1) * ChunkBytes))

Fragment(transfer, payload, sequence) ==
  [transfer |-> transfer, sequence |-> sequence, total |-> Count(Len(payload)),
   bytes |-> Len(payload), digest |-> payload, payload |-> Part(payload, sequence)]

Fragments(transfer, payload) ==
  [i \in 1 .. Count(Len(payload)) |-> Fragment(transfer, payload, i - 1)]

-----------------------------------------------------------------------------
(* reassembleBootstrap(fragments)                                          *)

SameTransfer(f, g) ==
  /\ f.transfer = g.transfer /\ f.total = g.total
  /\ f.bytes = g.bytes /\ f.digest = g.digest

\* Everything before the digest is compared: one transfer, no conflict between
\* duplicates, every sequence number present.
Complete(fragments) ==
  /\ fragments # <<>> /\ Len(fragments) <= MaxFragments
  /\ \A i \in DOMAIN fragments : SameTransfer(fragments[i], fragments[1])
  /\ \A i, j \in DOMAIN fragments :
       fragments[i].sequence = fragments[j].sequence =>
         fragments[i].payload = fragments[j].payload
  /\ {fragments[i].sequence : i \in DOMAIN fragments} = 0 .. fragments[1].total - 1

\* The bytes of a complete set, in the order of the sequence numbers.
Assembled_AsReceived(fragments) ==
  FlattenSeq([i \in DOMAIN fragments |-> fragments[i].payload])

Assembled(fragments) ==
  FlattenSeq([n \in 1 .. fragments[1].total |->
    fragments[CHOOSE i \in DOMAIN fragments : fragments[i].sequence = n - 1].payload])

\* the length and the digest are those the header gives
Intact(fragments) ==
  /\ Len(Assembled(fragments)) = fragments[1].bytes
  /\ Assembled(fragments) = fragments[1].digest

-----------------------------------------------------------------------------
VARIABLES
  air,        \* what a notification may carry: fragments written to the link
  sent,       \* each transfer: its payload and how many fragments are written
  delivered,  \* how many notifications there have been
  fragments,  \* ReassemblySession.fragments
  hashing,    \* the finish() calls that await the digest: what they assembled
  completed,  \* ReassemblySession.completed
  late,       \* now() > deadline
  outcome,    \* the promise of receiveBootstrap
  spoiled     \* history: why the transfer may fail

bleVars == <<air, sent, delivered, fragments, hashing, completed, late, outcome, spoiled>>

Waiting  == [state |-> "waiting"]
Rejected == [state |-> "rejected"]
Resolved(payload) == [state |-> "resolved", payload |-> payload]

NotSent == [payload |-> <<>>, next |-> 0]

BleInit ==
  /\ air = {} /\ sent = [t \in Transfer |-> NotSent]
  /\ delivered = 0 /\ fragments = <<>> /\ hashing = {}
  /\ completed = FALSE /\ late = FALSE
  /\ outcome = Waiting /\ spoiled = {}

-----------------------------------------------------------------------------
(* BleBootstrapSession.transfer(advertisement, payload)                    *)

Begin(t) ==
  /\ sent[t] = NotSent
  /\ \E payload \in Payload :
       /\ Fits(payload)
       /\ sent' = [sent EXCEPT ![t] = [payload |-> payload, next |-> 1]]
  /\ UNCHANGED <<air, delivered, fragments, hashing, completed, late, outcome, spoiled>>

\* one connection.write: what the link makes of it is in the air from then on
Write(t) ==
  LET all == Fragments(t, sent[t].payload)
  IN /\ sent[t].next \in DOMAIN all
     /\ air' = air \cup {all[sent[t].next]}
     /\ sent' = [sent EXCEPT ![t].next = @ + 1]
     /\ UNCHANGED <<delivered, fragments, hashing, completed, late, outcome, spoiled>>

-----------------------------------------------------------------------------
(* receiveBootstrap(connection, { timeoutMs, signal })                     *)

\* finish(fn): the first to settle the promise unsubscribes from the link
Settle(result) == outcome' = IF outcome = Waiting THEN result ELSE outcome

\* a notification that push() accepts: finish() assembles at once, then awaits
Push(fragment) ==
  LET now == Append(fragments, fragment)
  IN /\ fragments' = now
     /\ hashing' = IF Complete(now) THEN hashing \cup {now} ELSE hashing
     /\ UNCHANGED outcome

\* push() throws: the promise rejects, whatever finish() is under way
Refuse ==
  /\ Settle(Rejected)
  /\ UNCHANGED <<fragments, hashing>>

Damaged(f) == [f EXCEPT !.payload = [i \in DOMAIN @ |-> Noise]]

Notify(value) ==
  /\ outcome = Waiting /\ delivered < MaxNotifications
  /\ delivered' = delivered + 1
  /\ IF completed \/ late \/ value = Garbage THEN Refuse ELSE Push(value)
  /\ UNCHANGED <<air, sent, completed, late>>

Notification ==
  \/ \E f \in air :
       /\ Notify(f)
       /\ spoiled' = IF Len(fragments) >= MaxFragments THEN spoiled \cup {"crowded"}
                     ELSE IF \E i \in DOMAIN fragments : fragments[i].transfer # f.transfer
                     THEN spoiled \cup {"mixed"} ELSE spoiled
  \/ \E f \in air : f.payload # <<>> /\ Notify(Damaged(f)) /\ spoiled' = spoiled \cup {"damaged"}
  \/ Notify(Garbage) /\ spoiled' = spoiled \cup {"garbage"}

\* The digest of one finish() is there.  A set that was emptied by cancel()
\* has been assembled before, so it still counts.
Hashed_Unchecked(set) ==
  /\ hashing' = hashing \ {set}
  /\ completed' = TRUE /\ Settle(Resolved(Assembled(set)))
  /\ UNCHANGED <<air, sent, delivered, fragments, late, spoiled>>

Hashed(set) ==
  /\ hashing' = hashing \ {set}
  /\ IF Intact(set)
     THEN completed' = TRUE /\ Settle(Resolved(Assembled(set)))
     ELSE UNCHANGED <<completed, outcome>>
  /\ UNCHANGED <<air, sent, delivered, fragments, late, spoiled>>

\* The timer or the signal: cancel() and reject.
Cancel ==
  /\ outcome = Waiting
  /\ fragments' = <<>>
  /\ Settle(Rejected)
  /\ spoiled' = spoiled \cup {"ended"}
  /\ UNCHANGED <<air, sent, delivered, hashing, completed, late>>

\* The deadline passes; the timer fires now or some time later.
Deadline ==
  /\ ~late /\ outcome = Waiting
  /\ late' = TRUE
  /\ spoiled' = spoiled \cup {"ended"}
  /\ UNCHANGED <<air, sent, delivered, fragments, hashing, completed, outcome>>

Hashes == \E set \in hashing : Hashed(set)

BleNext ==
  \/ \E t \in Transfer : Begin(t) \/ Write(t)
  \/ Notification
  \/ Hashes
  \/ Cancel \/ Deadline

\* What is fair: digests are computed.  Neither the link nor the clock is.
BleSpec == BleInit /\ [][BleNext]_bleVars /\ WF_bleVars(Hashes)

BleTypeOK ==
  /\ air \subseteq UNION {ToSet(Fragments(t, p)) : t \in Transfer, p \in Payload}
  /\ sent \in [Transfer -> [payload : Payload \cup {<<>>}, next : 0 .. MaxFragments + 1]]
  /\ delivered \in 0 .. MaxNotifications
  /\ Len(fragments) <= delivered
  /\ \A set \in hashing : Complete(set)
  /\ completed \in BOOLEAN /\ late \in BOOLEAN
  /\ completed => outcome # Waiting
  /\ spoiled \subseteq {"crowded", "mixed", "damaged", "garbage", "ended"}

-----------------------------------------------------------------------------
(* What the transfer promises.                                             *)

(* A payload received over BLE is one a sender began and wrote to its end, *)
(* in its own order, however its fragments were lost, doubled, mixed with  *)
(* those of another transfer or damaged on the way.                        *)
ReceivedWasSent ==
  outcome \notin {Waiting, Rejected} =>
    \E t \in Transfer :
      /\ outcome.payload = sent[t].payload
      /\ sent[t].next > Count(Len(sent[t].payload))

(* When every fragment of a transfer has been delivered in time and        *)
(* nothing but repetitions of them, below the limit on their number, has   *)
(* come besides, the payload is received: no order and no repetition makes *)
(* the receiver give up or wait on.                                        *)
CleanTransferArrives ==
  \A t \in Transfer :
    /\ sent[t].next > 1
    /\ ToSet(Fragments(t, sent[t].payload)) \subseteq ToSet(fragments)
    /\ spoiled = {}
    ~> outcome = Resolved(sent[t].payload) \/ spoiled # {}
=============================================================================
