# Sovereign Apps: specifications, model checks and proofs

This directory models the parts of Sovereign Apps that keep state over time: how a
phone and a desktop pair over a QR code, how the desktop keeps the grants it gave,
and how bytes, frames and connections carry all of that. Each module is a
translation of code under `src/packages/`; `PROJECT.json` names the lines of every
definition.

## The system

| Component | State it keeps | Operations | Talks to |
|---|---|---|---|
| `PairingGrantStore` (protocol/secure-pairing.ts) | map of grants: tokens, dates, rotation, revocation | issue, rotate, revoke, revokeAll, isAuthorized, clear | owned by the authority |
| `PairingSessionStore` (same file) | map of sessions: expiry, consumed, attempts | create, consume, revoke, clear | owned by the authority |
| `DesktopPairingAuthority` (electron-app/secure-pairing.ts) | `pending`: the envelopes on display | createQr, completePairing, completeScannedPairing | both stores; called by the desktop's connection handler |
| Desktop runtime (electron-app/main.ts) | one runtime, one QR, one handler per connection | start, stop, on message, on extra stream | authority, Iroh node, local service |
| Mobile pairing client (hub-pairing.ts, App.tsx, index.ts) | state of the scan, envelope, candidate, paired peer | scan, verify, start peer, accept grant, forward | endpoint, desktop |
| RN endpoint (transport-adapter.ts) | endpoint state, forwarders, sessions, streams, waiting readers | start, stop, connect, openStream, read, write, close | native bridge |
| Electron Iroh node (iroh-node.ts) | set of sessions, accept loop, per-connection handlers | create, serveSessions, dial, close, send | native node, desktop runtime |
| Framing and readers (framing.ts, dialer.ts) | bytes not yet decoded | encode, push, finish, read loop | both nodes |
| Stream hello (stream-hello.ts) | bytes of the hello, the pending write | negotiate | both ends of every stream |
| Route policy (route-policy/policy.ts) | health per route, network generation | rank, connect, reconnect, invalidate | route adapters |
| Module registry (module-kernel/registry.ts) | registered and started modules | register, validate, start, stop | modules |
| Web presence (web-presence/core.ts) | presence records, signaling lists, rate windows | put/get presence, put/get signaling | stores, limiter |
| BLE bootstrap (ble-bootstrap) | fragments received so far | fragment, push, finish, cancel | BLE connection |
| Offline bootstrap (artifact.ts) | references seen | validate, consume, confirm and accept | the user, the pairing client |
| Mobile trust store (secure-store.ts) | list of grants in the keychain | save, revoke, revokeAll | keychain |
| Identity files (node-key.ts) | two key files | load or create | file system |
| LAN discovery (two packages) | browser or advertiser, peers | start, stop, refresh, discover | mDNS |

What makes it hard: JavaScript runs one callback at a time, so a synchronous method
is atomic, but everything between two awaits may interleave with everything else.
An attempt to pair on the phone has eight awaits and the button that starts one
stays enabled; the desktop handles several connections at once; connections close,
timers fire and clocks pass deadlines at any await; chunks of a stream arrive
fragmented and coalesced as the network likes.

What makes each component correct, in a sentence: an invitation is redeemed by one
peer at most, in time, within what it offers; rotated or revoked secrets are dead;
a phone counts itself paired only by a grant given to it, with a desktop its user
confirmed; the desktop forwards streams only to the phone that holds its grant;
what is read from a stream is what was written to it, in order, and only after both
ends agreed on the protocol; a session slot is taken exactly while its connection
is open; a session that closes wakes whoever reads from it; a failed start or a stop
leaves nothing running, and a module that says it is stopped is silent; an artifact
is accepted once, in time; a payload received is the payload sent; limits hold
whatever the interleaving; a key file is whole or not there.

## Modules

A component is one module; `MCX` (a module and one or more `.cfg`) instantiates it for
TLC. Its theorems are in `X_proofs`, or with those of components near to it in one
module:

| Proofs in | of the components |
|---|---|
| `GrantStore_proofs` | `GrantStore` |
| `PairingAuthority_proofs` | `PairingAuthority`, and its refinements to `OneUseInvitation` and `GrantStore` |
| `PairingFlow_proofs` | `PairingFlow` |
| `Streams_proofs` | `DialTarget`, `RnTransport`, `StreamHello`, `Framing`, `FrameStream` and its refinement to `OrderedChannel` |
| `Runtime_proofs` | `RoutePolicy`, `IrohSessions`, `ModuleRegistry` |
| `OptionalModules_proofs` | `OfflineBootstrap`, `LanDiscovery`, `IdentityFiles`, `BleBootstrap` |
| `WebPresence_proofs` | `WebPresence` |
| `DataLemmas` | lemmas on maps, numbers, recursion and sequences for all of them |

Modules that share a proof module have names of their own for their specifications
(`NodeSpec`, `RegistrySpec`, `FrameSpec`, `RnSpec`, ...). Definitions named `X_Something`
beside a definition `X` (`Full_OffByOne`, `SyncTemp_Skipped`, ...) are not part of
the system: each is that definition with a plausible bug, and is used only to see
that a property would notice (`mutants` in `PROJECT.json`).

| Module | Models | How |
|---|---|---|
| `JsMap` | a JavaScript `Map` | functions with finite domain: put, delete |
| `GrantStore` | `PairingGrantStore` | one action per method; a token is the number of its draw, the dates are a bounded clock |
| `OneUseInvitation` | what a displayed QR promises | abstract: a reference is unused, open, redeemed by one holder, or void |
| `PairingAuthority` | `DesktopPairingAuthority`, `PairingSessionStore` and the grant store it owns | `createQr`, both completion paths, rotation, revocation, the passing of time |
| `PairingFlow` | App.tsx, index.ts, hub-pairing.ts on several phones; `startElectronRuntime` on several desktops | one action for the code between two awaits; a press of the button starts an attempt, each attempt has its own connection |
| `Framing` | framing.ts: encode, decode, limits | functions by recursion over sequences of bytes, one turn of the decoder's loop an operator; the width of the header and the radix are constants |
| `OrderedChannel` | what a stream of messages promises | abstract: what is received is a contiguous part of what was sent |
| `FrameStream` | `FramedIrohConnection.readLoop` with its `FrameDecoder` | bytes on a wire, chunks cut anywhere, a stream that ends or is cut anywhere |
| `TunnelReader` | the reader of `SovereignTunnelTransport` (dialer.ts) | the same wire, that class's own loop |
| `StreamHello` | `negotiateStreamHello` at both ends | each direction a count of hello pieces and of data; a write that is pending is a step of its own |
| `IrohSessions` | `serveSessions`, `dial`, `close` of `ElectronIrohNode` | the loop is a program counter over its awaits; sessions and connections end at any of them |
| `RoutePolicy` | `LocalFirstRoutePolicy` | operations that race batches of routes; attempts with trust check, retries and delays; shared health |
| `ModuleRegistry` | `ModuleRegistry` (module-kernel) | `order` as recursive functions: a visit calls the visits of what the module needs, down to the cycle check; the loops of `start` and `stop` one module per step; every start and stop may resolve or reject |
| `DialTarget` | `normalizeAddress`, `normalizeCandidate`, `normalizeCandidates` (transport-adapter.ts) | pure operators from a list of candidates to one dial target, or to an exception |
| `RnTransport` | `ReactNativeIrohEndpoint`, `NativeTransportSession`, `NativeFramedStream` | extends `DialTarget`; each call of the API is a program counter over its awaits, each call of the bridge may settle late or never |
| `BleBootstrap` | fragmentation.ts and service.ts of ble-bootstrap | fragments on the air in any order and number, damaged or not; the asynchronous digest is a step of its own |
| `OfflineBootstrap` | the three carriers, validation, confirmation and replay store of offline-bootstrap | all up to the question to the user is a step, the answer another |
| `WebPresence` | `WebPresenceCore` behind its routes, on the stores of memory.ts | every call of a store is a step, requests interleave between them |
| `LanDiscovery` | the mDNS browser of the phone and the advertiser of the desktop | steps between the awaits of `start` and `refresh` |
| `IdentityFiles` | `loadOrCreateIdentity` (node-key.ts) | a step per call of the file system, with killed processes and power failures |

How they are put together:

* `PairingFlow` does not repeat the tables of the desktop. Its steps `ShowQr`,
  `Expire` and `OnMessage` are the actions of an instance of `OneUseInvitation`, and
  `PairingAuthority` is shown, by TLC and by proof, to implement `OneUseInvitation`
  under the mapping `fate` (from `sessions`, `pending` and `redemptions`) and
  `holder`.
* `PairingAuthority` contains an instance of `GrantStore` over its own variables.
  `AuthorityImplementsGrantStore` says that whatever the authority does, its grant
  table behaves as a `GrantStore`, so what is proved of the one holds of the other.
* `FrameStream` implements `OrderedChannel`: the same statement in TLA+ as "the
  handler sees the messages in order, none twice and none left out".
* `IrohSessions` has the lives of the desktop's connections, `RnTransport` those of the
  phone, `StreamHello` and `FrameStream` what passes over one of them; `PairingFlow`
  takes a framed connection as given. `RnTransport` takes its dial target from
  `DialTarget` and dials every list of candidates of the instance.
* `MCStreams` gives each behaviour to `FrameStream`, to `StreamHello` or to a half of
  `RnTransport`, which share no state: its run is one of four instances.
* The optional packages, LAN discovery and the key files call nothing of each other and
  share no state. `MCOptionalModules` therefore gives
  each behaviour to one of them; what one run says is as many independent results.

What is abstracted, module by module:

* Secrets, nonces, identifiers: a call of `secureRandom` returns a number never
  drawn before. Signatures and transcript comparisons of one call are one Boolean.
* Time is a small counter or, where only the order matters, a step that may happen
  at any time (`Expire`, the timers). In `PairingFlow` phones and desktops have
  clocks of their own, so the phone may call a grant expired whenever it likes.
* A digest is the payload it was made of; a file has a key and a state of its bytes.
* Calls that throw before they change anything are no step. A call that throws after
  it has changed something is an action (`ExpireInvitation`, `AcceptThrows`,
  `OpenFails`, `GrantedThrows`, `PhoneStopThrows`).
* Formatting, parsing and validation of JSON are left out, and so is all wording.

## Runs

| Run | Instance | Result |
|---|---|---|
| `grant_store` | 1 peer, 4 draws, clock to 7, access 2, refresh 4 | rotated secrets are dead, revocation is final, a grant cannot be stretched |
| `pairing_authority` | 2 peers, 2 invitations, 2 draws, clock to 3 | one grant per invitation, the tables agree on what is answerable; implements `OneUseInvitation` |
| `pairing_flow` | 1 phone, 3 desktops (one without address), 2 overlapping attempts | a paired phone holds its invitation, forwarding follows the grant, the hub was verified, a pairing is never replaced, an attempt ends unless a call of the bridge without a timer never answers |
| `pairing_flow_identity` | 2 phones, 2 desktops, 2 attempts | **violated**: see Findings |
| `streams`, frames | payloads of three lengths, 3 writes, the sender's limit above the receiver's | no byte lost, readLoop ends cleanly only between frames, implements `OrderedChannel` |
| hello | 2 ends, 2 protocols, hello in 3 pieces, 2 data each | agreement before data, no data taken, no mutual waiting |
| endpoint | 2 starts, 2 stops, 2 forwarders, no dial | stop reaches every forwarder, the state tells of the bridge |
| session | 1 start, 1 stop, 4 reads, 4 frames, every list of up to two candidates | one target whatever the order of the candidates, frames are accounted for, a closed session leaves no reader waiting |
| `tunnel_reader` | short messages in chunks | **violated** |
| `iroh_sessions` | 2 sessions, 1 slot, 1 dial | the limit holds, nothing escapes it, close leaves nothing, every session gets its turn |
| `route_policy` | 1 call slot (reused), 3 routes, batches of 2, 2 tries, circuit after 2 failures | what is reported as an authentication failure is final, failures and late sessions are cleaned up, every call settles |
| `route_policy_trust` | the same | **violated** |
| `module_registry` | 3 modules, all their dependency graphs, required, optional or unavailable, selected in every order | nothing runs without what it needs, a failed start leaves nothing up |
| `optional_modules`, ble | 2 transfers, 4 notifications | what is received was sent; a clean transfer arrives |
| handoff | 3 handoffs, 2 references, one place in the store | an artifact is accepted once |
| presence, signaling | 2 writers and a reader of each, a clock of two windows | the newest record stands, a session is bounded, the rate is kept |
| lan | 2 calls of each kind, 9 listeners, 2 stops of the desktop that throw | stopped is silent, but for what calls that threw have left behind |
| identity | 2 processes, 3 keys | key files are whole |
| `lan_stopped` | as lan | **violated** |

Why the bounds are enough to be interesting:

* `grant_store`: four draws are an issue and three rotations, so a token replaced
  twice over is presented; the clock runs past the end of both lifetimes.
* `pairing_authority`: two invitations and two peers are needed for a reference to be
  answered by the wrong peer; the limit on sessions is
  not what is at stake (see Findings) and just fits; the clock passes the lifetime with a
  redemption just before, at and after its last moment.
* `pairing_flow`: the hazards are two attempts on one phone towards two desktops, with a
  third, whose QR has no address, that can be scanned in between; liveness makes eight
  hundred thousand states the limit. Two phones after one QR are in
  `pairing_flow_identity` (up to its counterexample) and in `pairing_authority`; the
  safety properties are proved for any number of phones, desktops and attempts.
* `streams`, frames: a header of two bytes of radix two is enough for it to be cut
  inside; three frames let a chunk hold the tail of one, all of another and the head
  of a third; the payload above the receiver's limit makes the decoder throw.
* hello: three pieces have a first, an inner and a last; two data items
  can share a chunk with the last piece or come after it.
* endpoint: two starts and two stops give every pair that can overlap, a start that
  gives up while the bridge goes on included, and a second stop for what the first one
  did not reach; of two forwarders one can fail to stop while the other is opening.
* session: two reads and two frames are what it takes for a reader that has given
  up to sit before one that has not; twice as many let that happen again. Two candidates
  are every way for hints to agree, to complete each other or to contradict each other.
* `iroh_sessions`: the second session waits while the first one holds the slot, is
  opened, or has closed early.
* `route_policy`: three routes with batches of two give a full batch and a last,
  shorter one; two tries give one retry with its delay. The one call slot is used again
  after its call has settled, so health is carried from call to call. Calls that
  overlap are beyond TLC's reach here and are covered by the proofs, which are for
  any set of operations.
* `module_registry`: three modules give chains, forks, joins and cycles, a failure in the
  middle of an order, and two modules that are stopped at once with one that rejects.
  Permuting the modules is a symmetry: nothing in the code looks at their names.
* `optional_modules`: a payload of two fragments and one of a single one under two transfer
  ids, four notifications for three slots, so one is repeated, damaged or of the other
  transfer; a reference with two dates, of which one passes while the other is asked
  about; records that run out in another order than they were signed; one window of
  requests at the end of another; two starts of discovery, of which one is denied or throws,
  and room for the listeners of both beside those of an earlier one; two
  processes that both find no key, and a third key for the one after them.

The bounds that are in the guards rather than in the system are named: `MaxTime`,
`MaxClock`, `MaxDraws`, `MaxRefs`, `MaxWrites`, `MaxData`, `MaxReads`, `MaxFrames`,
`MaxNotifications`, `MaxListeners`, `MaxFailedStops`, and `MaxAttempts` of `PairingFlow`.
`MaxAttempts` of `PairingAuthority` and of `RoutePolicy`, `MaxConcurrent`,
`MaxSessions`, `MaxRace`, `Threshold` are parameters of the program itself.

Deadlock is checked in the pairing runs. It is off where a finished system has
nothing left to do: a closed node, an ended stream, an open or a failed hello, a
settled call, a payload that has arrived. In `module_registry` it is checked: a registry can always go on.

## Fairness

Liveness is claimed only with what the scheduling of the code justifies.

* `PairingFlow`: only what has a timer is fair (`TimedStep`): `start`, `connect`, the
  hello, `write` and `read` of the phone end by their answer or by `raceAbort`
  (transport-adapter.ts:214) and `negotiateStreamHello`. Three awaits have none: the two
  of `getNodeId`, which asks the bridge for its diagnostics (iroh-bridge.ts:69), and the
  `close()` of a stream whose hello failed (transport-adapter.ts:275, 308). Nothing is
  assumed of these (`BridgeStep`), so an attempt may stay in one for ever:
  `AttemptsSettle` says that it stays nowhere else. Nothing is assumed of the desktop,
  the network or the user.
* `StreamHello`: nothing makes an end begin; that both do is the premise of
  `NoMutualWait`. A pending write resolves at the latest when the peer has read; this is
  the assumption the source itself states (stream-hello.ts:88). No write is assumed to
  resolve earlier, so the property would fail if a hello were awaited before reading.
* `IrohSessions`: the hello is under timers, awaits on a session that is gone settle,
  and the continuations run. `session.ready`, `createBidirectionalStream` and the
  `close()` of a connection have no timer in the code, so nothing is assumed of them:
  `EveryoneGetsATurn` and `CloseLeavesNothing` name these awaits as their premises, and
  would be false without. That is itself a statement about the code: one peer that
  never completes `createBidirectionalStream` holds up every later session, and a
  connection whose `close()` hangs keeps the node from shutting down. One assumption is
  about the native library: that its `close({ force: true })`, awaited without a timer
  at iroh-node.ts:235, returns (`WF` of `CloseEnds`). A node whose native close hangs
  never has `CloseLeavesNothing`.
* `RoutePolicy`: delays end, continuations run, and an adapter answers, since it is
  called with a timeout and a signal. The trust verifier is called with neither; that
  it answers is the premise of `EveryOperationSettles`.
* `RnTransport`: a hello ends, since `negotiateStreamHello` has a timer, and the bridge
  reports the end of the connections of a session it has closed. The latter is an
  assumption about the native library, without which `CloseWakesReaders` would not hold:
  a stream that was opened while the session closed is not in the set that `close()` goes
  through, and only the end of its connection wakes its readers.
* `BleBootstrap`: digests are computed. Neither the link nor the clock is fair;
  `CleanTransferArrives` is about a transfer whose fragments have all been delivered and
  that nothing else has settled.

## Proofs

`tlapm` checks all of the following, for every value of the constants that satisfies the
named assumptions. Every invariant and every action or refinement property that a run
checks is a theorem; what is left to TLC alone is liveness.

The assumptions (`TtlAssumption`, `FlowAssumption`, ...) are of three sorts:

* what constructors and schemas of the source demand: lifetimes and limits are numbers,
  a lifetime is not zero, a payload is a sequence of bytes;
* that what exists at one time is finite: modules (`RegistryAssumption`), requests
  (`RequestAssumption`, which also says that a call is of one kind);
* that a model value is none of the things it stands beside (`NoKey`, `NoDial`).

`StreamAssumption` bounds the limit of a sender by the longest length a header can tell of,
which the code does not test: a limit above it matters for payloads of 4 GiB only.

**GrantStore.** `TypeOK`, `SpentNeverHonoured`, `BoundedLifetime`, `RevocationIsFinal`,
and `RefreshPeriodFixed` (which only the proof checks). That a replaced token is dead is
not inductive alone: a fresh token could repeat an old one. `IInv` adds `DrawnBefore` (every
secret in use was drawn before now) and `SpentIsOld` (a replaced secret was drawn before
the one that replaced it).

**PairingAuthority.** `RedeemedOnce`, `TablesAgree`, `NeverLate` need each other, so
they are conjuncts of `IInv` with `RefsDrawn` (references come from `createSessionRef`),
`RedeemedLeave` (what was redeemed is no longer pending) and `SessionLifetime` (a
deadline does not move). Two refinements follow: `AuthorityImplementsInvitation`, step
by step through the mapping, and `AuthorityImplementsGrantStore`. `GrantWithinOffer`
is proved from the latter.

**PairingFlow.** `IInv` follows a grant from the moment the desktop sends it to the moment
the phone records it: `GrantTravels` (the attempt that carries a grant belongs to the
holder of that invitation), `HeldIsRedeemed` (so an invitation has one holder for
good), `FreeIsUnlinked` (a new attempt starts without a link), `VerifiedEnvelope` (a
client in state `fingerprint_verified` shows an envelope that was confirmed and is
not paired). From it: `PairedIsHolder`, `ForwardsOnlyToHolder`,
`PairedHubWasVerified` and `PairedRecordIsStable`.

**RnTransport** (`Streams_proofs`). The invariant falls into three parts about variables
the other two do not mention.

* Calls: as long as no `start()` has overlapped another call, `OneCall` says that one is
  under way at most, and `CallInState` what it has done to the state and to the bridge;
  without the first a call that gave up would set the state behind the back of the next.
  From both `StateTellsBridge`.
* Forwarders: `ForwardersKnown` says in which states one may be opening, up or stopping,
  and that one that is up while a stop runs was asked for too late. From it
  `StopReachesForwarders`.
* Reads: `WaitersQueued` says that the queue of waiters holds reads in the order of their
  calls, behind all that have a frame, and only while no frame is queued; with it
  `FramesAccounted` is inductive, whichever reads have given up.

`OneTargetForAll` follows from `DialInv` (the dial under way is that of an accepted
list) and lemmas on `DialTarget`: the candidate chosen does not depend on the order
of the list, since of finitely many priorities one is the highest.

**StreamHello** (same module). `HelloAccounted` (pieces are nowhere before the peer begins,
afterwards on the way or in the decoder), `DataAccounted` (data is lost only by an end that
failed), `Agreed`. From it: `OpenOnlyOnAgreement`, `NothingSwallowed`, for any number
of pieces and data.

**FrameStream** (same module). `NoByteLost` needs to know what the bytes still on the wire
are. `OnTheWay` says it in one line: those read, followed by those on the wire, are the
encodings of everything written, or begin them once the stream was cut; `InPlace` ties
what the handler has to what was written. All that remains is what one push makes of a
chunk (`PushLosesNothing`): if the bytes it is given stand where a frame begins, every
turn of the loop finds the length that was written there (`HeaderIsRead`: reading
a header in base `Radix` undoes writing it) and cuts out the next frame or none. From
the same invariant follow `CleanEndIsWhole`, which is about ends that readLoop itself
reports, and the refinement to `OrderedChannel`,
`StreamIsAChannel`: a turn of `readLoop` is a `Miss`, a `Receive` or a stutter.

**IrohSessions** (`Runtime_proofs`). The limit is tested before the awaits and used after
them. `RoomForCurrent` says why that is sound: while a session is being opened nobody else
takes a slot. `HandedOnce` says that a session is yielded once. From these
`SlotBound` and `CountedWhileOpen`, for any limit and any number of sessions.

**RoutePolicy** (same module). `RouteInv` says, for every route of every operation, where
work, a failure reported as one of authentication and an open session may be;
`OperationInv` ties the verdict to the winner. From these `AuthIsTerminal`, `FailureLeavesNothing` and
`CircuitNeedsFailures`, for overlapping operations on any routes.

**ModuleRegistry** (same module). First the depth-first walk of `order()`, for every graph of
dependencies. `Sound` says that a walk without a cycle orders each module once and after
what it needs, `Visited` what a visit leaves as it was, and `Right` that visits do both; a
visit made of right visits is right (`EachIsRight` for a list of them), so all are. Then the
loops, phase by phase: `Launching` (what has started is up, and what comes before the next
module has started or is reported), `Unwinding`, `Halting` and `Passed` (those still up are
the first that started). From `RegInv`, which has `Listed` for both lists,
`DependenciesUp` and `FailureUnwinds`.

**OfflineBootstrap** (`OptionalModules_proofs`). That nothing is accepted twice is not
inductive: the store forgets. `Remembered` says that what it has forgotten has run out, and
`NothingElse` that it holds no entry that was not accepted. From the first follow
`AcceptedOnce` and `AcceptedInTime`, from both `RefusedForAReason`: a full store maps onto
the current acceptances, so there are at least as many of them (`FullOfCurrent`).

**BleBootstrap** (same module). `OnlyWritten`: a fragment in the air or received has, damaged
or not, the header of one that was written for the transfer it names. A complete set
has every sequence number once, and the digest it is compared with is that of the payload
that was begun; so `ReceivedWasSent`, for payloads of any length.

**IdentityFiles** (same module). `FileOfLaunch` ties the place of a process to the state of
its file, `FileIsPrivate` says that nobody else writes it; a name is given only to a file
that is synced, so `NeverCorrupt` holds for any number of processes and failures.

**LanDiscovery** (same module). Two histories count what calls that threw leave behind:
`stray` listeners of a `start()` that threw in a stopped phone, and those `lost` to an
`off()` that threw. `LanInv` says that a phone that is off hears these and no others, and
that the desktop has at most one Bonjour for every stop that threw, and one more while it
is ready; from it `StoppedIsSilent`.

**WebPresence.** `RequestInv` is what a call remembers between two calls of a store. For
`NewestStands`, `PresenceInv` adds that a record that stands for one of the same date is
that very record: otherwise the sweep could take it early. For `SignalingBounded`,
`SignalInv` counts the writers that have seen room and not yet appended together with the
records that live. For `RateKept`, `BucketInv` says where the windows of what was let
through lie: the counted ones in the window of the bucket, all others a window before.

Proved and not in a run, where the proof says more than a small instance would:
`NeverLate`, `GrantWithinOffer`, `RefreshPeriodFixed`, `CircuitNeedsFailures` (about calls that overlap, which TLC's instance has not), `AcceptedInTime`, `RefusedForAReason`.

The type invariants are theorems, or conjuncts of the invariants above, but for those of
`ModuleRegistry` and `BleBootstrap`, which document the ranges of the variables (what
the proofs need of them is in `RegInv` and in `SentType`).

Recursion and induction. The library's induction theorems have an operator for a
parameter, which the provers cannot instantiate. `DataLemmas` has both in another form, from
the well-foundedness of `<`: a set of numbers that is not empty has a least element
(`LeastNatural`, and `Induction` about a set), and stepping a value over and over is a
function (`Iteration`, `IterationUpTo`), which is what shows that a definition by recursion
defines something. The decoder, the encoder, a header and the visits of the registry
are therefore recursive functions, not RECURSIVE operators.

Only model-checked: all liveness (`AttemptsSettle`, `NoMutualWait`,
`CloseLeavesNothing`, `EveryoneGetsATurn`, `LostSessionsAreClosed`,
`EveryOperationSettles`, `CloseWakesReaders`, `CleanTransferArrives`), which needs
fairness and ENABLED. `TunnelReader` has no theorem: what is claimed of it is false.

## Findings

Each is a run that TLC finds violated; the property quotes what the source says.

1. `pairing_flow_identity`, hub-pairing.ts:236. `acceptIrohGrant` records the identity
   of the envelope scanned last. Scan desktop 1, press, scan desktop 2 while the first
   attempt waits, press again: the grant of desktop 1 is recorded as a pairing with
   desktop 2. `PairedHubWasVerified` still holds: the user did confirm desktop 2.
2. `tunnel_reader`, dialer.ts:121. The rest of a chunk is kept only when a whole frame
   came before it (`pos > 0`), so a message that arrives in two chunks is lost.
3. `route_policy_trust`, policy.ts:210. `options.trust()` that rejects, rather than
   answering false, becomes `candidate_failure` or `cancelled` in `failureOf`, and the next
   batch is tried. route-policy/README.md:9 says that "an authentication or trust failure
   is terminal for the operation". `AuthIsTerminal` holds of the failures that are
   reported as `auth_failure`.
4. `lan_stopped`, react-native-app lan-discovery.ts:67. A `start()` whose prompt is answered
   after `stop()`, and whose `scan()` or `on()` then throws, leaves up to three listeners in
   a phone that says "stopped"; every later `stop()` returns at :104-107. ADR-007:20 says
   that adapters close the resources they own. `StoppedIsSilent` counts these listeners.

Other places where code and words differ, met while modelling and not given a run:

* iroh-node.ts:283: when `session.closed` settles before the read of the stream,
  `markClosed()` calls the close handlers without an error, whatever is pending in the
  decoder, and `finish()` comes too late: a cut inside a frame, which framing.ts:72 calls
  a truncated protocol frame, looks like a clean end. `CleanEndIsWhole` says no more
  than the code does: it is about ends that `readLoop` reports.
* transport-adapter.ts:122: of a JSON ticket only the first relay is dialed, and its field
  `relay` only if the list has none, although :140-142 speak of the complete target and
  two relays of two candidates are refused at :192; and of a list with a ticket only the
  ticket is dialed (:169). `OneTargetForAll` states the target the code makes.
* iroh-node.ts:169: `onClose` is registered after the connection may already have closed; its
  handler then never runs and the slot is never freed. `CountedWhileOpen` covers the
  half that the limit depends on: an open connection always has its slot.
* iroh-node.ts:209: when the timer of `dial` wins, the await throws past the lines that
  were to close a session that opens late; only `close()` ends it, which
  `CloseLeavesNothing` includes.
* registry.ts:132: a failed start calls every `stop()` in reverse order but waits for none
  before the next, where ADR-007:17 says the modules are torn down in reverse order;
  `DependenciesUp` therefore leaves the unwinding out.
* registry.ts:115: a module whose own start rejects is stopped if it is optional and not
  if it is required.
* registry.ts:43: a platform mismatch of an optional module is an error for `start`
  although it is also counted as an optional failure; ADR-007:13 says optional modules
  may be unavailable.
* secure-pairing.ts:260: the concurrency limit of `PairingSessionStore` counts consumed and
  expired sessions, so it limits the invitations of one launch (the desktop makes one).
* stream-hello.ts:101: a peer whose first frame shares a chunk with its hello is refused,
  although both ends may send as soon as they are done.
* policy.ts:124: a route that wins a race hides the authentication failure of one that
  lost it (the nature of `Promise.any`).
* policy.ts:227: two routes that connect in the same turn may both return a session, of
  which the caller gets one.
* iroh-node.ts:171: a session whose hello ends after `close()` is still handed to the
  handler, which `CloseLeavesNothing` shows to be cleaned up.
* web-presence core.ts:149: `allow` does not await the limiter, although types.ts lets one
  return a promise, which is truthy: an asynchronous limiter never limits. The model
  has the limiter of memory.ts.
* web-presence memory.ts:18: a superseded presence record can be put again once the newer
  one has run out and been swept, although SECURITY.md:5 says that replayed records
  are rejected;
  `NewestStands` says exactly when.
* web-presence core.ts:116: "this check prevents unbounded growth" holds up to the number of
  concurrent writers, which is what `SignalingBounded` states.
* transport-adapter.ts:286: a read that has timed out still takes the next frame, which is
  then lost to the reads after it; `FramesAccounted` counts such frames as taken.
* react-native-app lan-discovery.ts:52: a start whose prompt is answered after `stop()` makes
  the module ready again, and of two starts a denied one sets `failed` while the browser
  scans for the other. electron-app lan-discovery.ts:75: the second half of `refresh()`
  publishes again although `stop()` was called meanwhile.
* react-native-app lan-discovery.ts:110: the list of listeners is emptied before the first
  `off()` is called, so one that throws puts those behind it out of reach;
  electron-app lan-discovery.ts:43: a `start()` after a `stop()` that threw overwrites the
  Bonjour that is still up. Both are counted in `StoppedIsSilent`.
* Two overlapping starts of the phone that are both granted register six listeners;
  the next `stop()` removes them all.
* node-key.ts:100: two processes that find no key each go on with their own, of which one
  is stored; and the directory is not synced, so a power failure may take back a
  rename whose key has been in use. "replacing a key would silently change the peer
  identity" (node-key.ts:41) is about the file, not about these.

## Not modelled

* In `PairingFlow`: teardown of the peer when the app unmounts (`stopSovereignPeer`), the
  session slots of the endpoint, the health request's own timeout, native dials that
  come back late on the phone, taps queued before the screen has re-rendered, requests
  whose node id is not that of the connection.
* In `IrohSessions`: `create` and `refreshAddressInfo` (a native call each), the streams
  opened after the first (`readExtraStreams`; what it means for forwarding is the step
  `Forward` of `PairingFlow`), `writeChain`.
* In `RnTransport`: `write` and `diagnostics`, which keep no state, and the wrapping of the
  native module in iroh-bridge.ts.
* In `LanDiscovery`: `discover()`, which reads what is kept, and the text of TXT records.
* `PairingTrustStore` and the challenge pairing of auth.ts and hub-pairing.ts (protocol): no
  application of the repository calls them, so nothing in it says which calls overlap.
  `save` and `revoke` of the former read the list, await, and write it back; two calls that
  overlap lose one of the two.
* The second start of the desktop on `activate` (main.ts:20), `NativeTcpForwarder` (one
  preamble and two pipes per stream, no state shared) and `writeChain` after a failed
  write (nothing says what is promised then).
* Landing page, native shells, project generator, release scripts, schemas, HTML and QR
  rendering hold no protocol state. All components, and the reason for each that is left
  out, are in `PROJECT.json`.

## What remains

1. That the flow holds over `PairingAuthority` directly, by composing the two refinements.
2. Type invariants of `ModuleRegistry` and `BleBootstrap` as theorems of their own.
3. Modules about one race each: the trust store and the second start of the desktop, once an
   application says how they are called.
