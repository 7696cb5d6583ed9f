---------------------------- MODULE RnTransport ----------------------------
(***************************************************************************)
(* The transport of the phone over the native Iroh bridge: the classes     *)
(* ReactNativeIrohEndpoint, NativeTransportSession and NativeFramedStream  *)
(* of packages/react-native-app/src/transport-adapter.ts.                  *)
(*                                                                         *)
(* Any method may be called at any moment the class allows.  A method runs *)
(* to its next await in one step.  The bridge is external: each of its     *)
(* calls settles later, or never; raceAbort lets the caller give up first  *)
(* (a timer or an abort signal), and the native call goes on without it.   *)
(*                                                                         *)
(* One session and one stream of it stand for all: sessions share nothing  *)
(* in this code but the bridge.                                            *)
(***************************************************************************)
EXTENDS DialTarget

CONSTANTS
  Starter, Stopper, \* calls of start() and of stop()
  Forwarder,        \* calls of startTcpForwarder()
  Lists,            \* the candidate lists connect() may be called with
  NoDial,           \* no dial is under way
  MaxReads,         \* bound on the calls of read()
  MaxFrames         \* bound on the frames the desktop sends

ASSUME TransportAssumption == MaxReads \in Nat /\ MaxFrames \in Nat

ASSUME ListsAssumption ==
  \A cs \in Lists : cs \in Seq(Range(cs)) /\ \A i \in DOMAIN cs : cs[i].priority \in Int

ASSUME NoDialAssumption ==
  \A cs \in Lists : Accepts(cs) => NoDial # [asked |-> cs, target |-> Target(cs)]

VARIABLES
  state,      \* ReactNativeIrohEndpoint.state
  bridge,     \* whether the native endpoint runs
  start,      \* each call of start()
  stop,       \* each call of stop()
  forwarder,  \* each forwarder, from the call that asks for it
  forwarders, \* ReactNativeIrohEndpoint.forwarders
  session,    \* the session: its native side and its caller
  dial,       \* the dial under way: the candidates and the target made of them
  closing,    \* NativeTransportSession.closed
  stream,     \* the stream: its opening, its close
  streams,    \* whether the stream is in NativeTransportSession.streams
  link,       \* whether the native connection under the stream is open
  arrived,    \* how many frames have reached the stream
  frames,     \* NativeFramedStream.frames
  read,       \* the calls of read(), in their order
  waiters,    \* NativeFramedStream.waiters
  given,      \* history: which call each frame was handed to
  late,       \* history: the forwarders asked for before the end of a stop()
  crossed     \* history: a start() and a stop() overlapped

endpointVars == <<state, bridge, start, stop, forwarder, forwarders, crossed>>
streamVars   == <<arrived, frames, read, waiters, given>>
linkVars     == <<session, dial, closing, stream, streams, link>>
rnVars         == <<endpointVars, linkVars, streamVars, late>>

Read  == 1 .. MaxReads
Frame == 1 .. MaxFrames

InFlight(calls) == {c \in DOMAIN calls : calls[c] \notin {"no", "over"}}

RnTypeOK ==
  /\ state \in {"idle", "starting", "ready", "stopping", "stopped", "failed"}
  /\ bridge \in BOOLEAN
  /\ start \in [Starter -> {"no", "waiting", "started", "gaveUp", "over"}]
  /\ stop \in [Stopper -> {"no", "forwarders", "bridge", "stopped", "over"}]
  /\ forwarder \in [Forwarder -> {"no", "opening", "up", "stopping", "down"}]
  /\ forwarders \subseteq Forwarder
  /\ session \in {"no", "dialing", "gaveUp", "open", "lost", "closed"}
  /\ (dial = NoDial) <=> (session # "dialing")
  /\ closing \in {"no", "streams", "native", "over"}
  /\ stream \in {"no", "opening", "gaveUp", "hello", "open", "lost", "closed"}
  /\ streams \in BOOLEAN /\ link \in BOOLEAN
  /\ arrived \in 0 .. MaxFrames
  /\ frames \in Seq(Frame) /\ waiters \in Seq(Read)
  /\ read \in [Read -> {"no", "waiting", "gaveUp", "frame", "null"}]
  /\ given \in [Frame -> 0 .. MaxReads]
  /\ late \subseteq Forwarder
  /\ crossed \in BOOLEAN

RnInit ==
  /\ state = "idle" /\ bridge = FALSE
  /\ start = [s \in Starter |-> "no"]
  /\ stop = [t \in Stopper |-> "no"]
  /\ forwarder = [f \in Forwarder |-> "no"]
  /\ forwarders = {}
  /\ session = "no" /\ dial = NoDial /\ closing = "no"
  /\ stream = "no" /\ streams = FALSE /\ link = FALSE
  /\ arrived = 0 /\ frames = <<>> /\ waiters = <<>>
  /\ read = [r \in Read |-> "no"]
  /\ given = [k \in Frame |-> 0]
  /\ late = {} /\ crossed = FALSE

-----------------------------------------------------------------------------
(* start(context)                                                          *)

\* In "ready" it returns and in "starting" it throws, without a change.
Start(s) ==
  /\ start[s] = "no"
  /\ state \notin {"ready", "starting"}
  /\ state' = "starting"
  /\ start' = [start EXCEPT ![s] = "waiting"]
  /\ crossed' = (crossed \/ InFlight(stop) # {} \/ InFlight(start) # {})
  /\ UNCHANGED <<bridge, stop, forwarder, forwarders, linkVars, streamVars, late>>

\* bridge.start() succeeds: its promise settles, whoever still waits for it.
NativeStarts(s) ==
  /\ start[s] \in {"waiting", "gaveUp"}
  /\ bridge' = TRUE
  /\ start' = [start EXCEPT ![s] = IF @ = "waiting" THEN "started" ELSE "over"]
  /\ UNCHANGED <<state, stop, forwarder, forwarders, crossed, linkVars, streamVars, late>>

StartReturns(s) ==
  /\ start[s] = "started"
  /\ state' = "ready"
  /\ start' = [start EXCEPT ![s] = "over"]
  /\ UNCHANGED <<bridge, stop, forwarder, forwarders, crossed, linkVars, streamVars, late>>

\* bridge.start() rejects, or the timer or the signal ends the wait for it.
StartThrows_StateStays(s) ==
  /\ start[s] = "waiting"
  /\ start' = [start EXCEPT ![s] = "over"]
  /\ state' = "ready"
  /\ UNCHANGED <<bridge, stop, forwarder, forwarders, crossed, linkVars, streamVars, late>>

StartThrows(s) ==
  /\ start[s] = "waiting"
  /\ \E native \in {"over", "gaveUp"} : start' = [start EXCEPT ![s] = native]
  /\ state' = "failed"
  /\ UNCHANGED <<bridge, stop, forwarder, forwarders, crossed, linkVars, streamVars, late>>

\* the native call nobody waits for rejects
NativeStartFails(s) ==
  /\ start[s] = "gaveUp"
  /\ start' = [start EXCEPT ![s] = "over"]
  /\ UNCHANGED <<state, bridge, stop, forwarder, forwarders, crossed, linkVars, streamVars, late>>

-----------------------------------------------------------------------------
(* stop()                                                                  *)

Opening == {f \in Forwarder : forwarder[f] = "opening"}

\* stop() of every forwarder it knows; those being opened come too late.
Stop(t) ==
  /\ stop[t] = "no"
  /\ IF state \in {"stopped", "idle"}
     THEN /\ state' = "stopped"
          /\ stop' = [stop EXCEPT ![t] = "over"]
          /\ UNCHANGED <<forwarder, crossed>>
     ELSE /\ state' = "stopping"
          /\ stop' = [stop EXCEPT ![t] = "forwarders"]
          /\ forwarder' = [f \in Forwarder |->
               IF f \in forwarders /\ forwarder[f] = "up" THEN "stopping" ELSE forwarder[f]]
          /\ crossed' = (crossed \/ InFlight(start) # {} \/ InFlight(stop) # {})
  /\ late' = late \cup Opening
  /\ UNCHANGED <<bridge, start, forwarders, linkVars, streamVars>>

ForwarderStops(f) ==
  /\ forwarder[f] = "stopping"
  /\ forwarder' = [forwarder EXCEPT ![f] = "down"]
  /\ UNCHANGED <<state, bridge, start, stop, forwarders, crossed, linkVars, streamVars, late>>

\* One that cannot be stopped makes every stop() that waits for it throw, if
\* any still does: Promise.all throws for the first that rejects.
ForwarderStopFails(f) ==
  /\ forwarder[f] = "stopping"
  /\ forwarder' = [forwarder EXCEPT ![f] = "up"]
  /\ stop' = [t \in Stopper |-> IF stop[t] = "forwarders" THEN "over" ELSE stop[t]]
  /\ state' = IF \E t \in Stopper : stop[t] = "forwarders" THEN "failed" ELSE state
  /\ UNCHANGED <<bridge, start, forwarders, crossed, linkVars, streamVars, late>>

\* Promise.all over the forwarders is done: forwarders.clear(), bridge.stop()
ForwardersStopped(t) ==
  /\ stop[t] = "forwarders"
  /\ \A f \in forwarders : forwarder[f] # "stopping"
  /\ forwarders' = {}
  /\ stop' = [stop EXCEPT ![t] = "bridge"]
  /\ UNCHANGED <<state, bridge, start, forwarder, crossed, linkVars, streamVars, late>>

NativeStops(t) ==
  /\ stop[t] = "bridge"
  /\ bridge' = FALSE
  /\ stop' = [stop EXCEPT ![t] = "stopped"]
  /\ UNCHANGED <<state, start, forwarder, forwarders, crossed, linkVars, streamVars, late>>

StopReturns(t) ==
  /\ stop[t] = "stopped"
  /\ state' = "stopped"
  /\ stop' = [stop EXCEPT ![t] = "over"]
  /\ UNCHANGED <<bridge, start, forwarder, forwarders, crossed, linkVars, streamVars, late>>

NativeStopFails(t) ==
  /\ stop[t] = "bridge"
  /\ state' = "failed"
  /\ stop' = [stop EXCEPT ![t] = "over"]
  /\ UNCHANGED <<bridge, start, forwarder, forwarders, crossed, linkVars, streamVars, late>>

-----------------------------------------------------------------------------
(* startTcpForwarder(candidate)                                            *)

StartTcpForwarder(f) ==
  /\ state = "ready"
  /\ forwarder[f] = "no"
  /\ forwarder' = [forwarder EXCEPT ![f] = "opening"]
  /\ late' = IF InFlight(stop) = {} THEN late ELSE late \cup {f}
  /\ UNCHANGED <<state, bridge, start, stop, forwarders, crossed, linkVars, streamVars>>

\* Whatever the state has become, the forwarder is added to the set.
ForwarderUp_NotAdded(f) ==
  /\ forwarder[f] = "opening"
  /\ forwarder' = [forwarder EXCEPT ![f] = "up"]
  /\ UNCHANGED <<state, bridge, start, stop, forwarders, crossed, linkVars, streamVars, late>>

ForwarderUp(f) ==
  /\ forwarder[f] = "opening"
  /\ forwarder' = [forwarder EXCEPT ![f] = "up"]
  /\ forwarders' = forwarders \cup {f}
  /\ UNCHANGED <<state, bridge, start, stop, crossed, linkVars, streamVars, late>>

ForwarderFails(f) ==
  /\ forwarder[f] = "opening"
  /\ forwarder' = [forwarder EXCEPT ![f] = "down"]
  /\ UNCHANGED <<state, bridge, start, stop, forwarders, crossed, linkVars, streamVars, late>>

-----------------------------------------------------------------------------
(* connect(candidate), and close() of the session                          *)

Connect ==
  /\ state = "ready"
  /\ session = "no"
  /\ \E cs \in Lists :
       /\ Accepts(cs)
       /\ dial' = [asked |-> cs, target |-> Target(cs)]
  /\ session' = "dialing"
  /\ UNCHANGED <<endpointVars, closing, stream, streams, link, streamVars, late>>

\* The native dial settles, or the caller gives up; a session that arrives
\* after that is open and nobody holds it.
DialSettles ==
  /\ \/ session = "dialing" /\ session' \in {"open", "closed", "gaveUp"}
     \/ session = "gaveUp"  /\ session' \in {"lost", "closed"}
  /\ dial' = NoDial
  /\ UNCHANGED <<endpointVars, closing, stream, streams, link, streamVars, late>>

\* what closing a stream does to the readers that wait for it
Woken == [r \in Read |-> IF read[r] = "waiting" THEN "null" ELSE read[r]]

MarkClosed_LeavesWaiters ==
  /\ stream' = "closed"
  /\ UNCHANGED <<read, waiters, arrived, frames, given>>

\* closed = true, the waiters are resolved with null
MarkClosed ==
  /\ stream' = "closed"
  /\ read' = Woken
  /\ waiters' = <<>>
  /\ UNCHANGED <<arrived, frames, given>>

CloseSession ==
  /\ session = "open" /\ closing = "no"
  /\ IF streams /\ stream = "open"
     THEN closing' = "streams" /\ MarkClosed
     ELSE closing' = "native" /\ UNCHANGED <<stream, streamVars>>
  /\ UNCHANGED <<endpointVars, session, dial, streams, link, late>>

\* connection.close() of the stream has settled.  When it rejects, close()
\* throws before it closes the session, and a second close() returns at once.
StreamsClosed ==
  /\ closing = "streams"
  /\ \/ closing' = "native" /\ link' = FALSE
     \/ closing' = "over" /\ UNCHANGED link
  /\ UNCHANGED <<endpointVars, session, dial, stream, streams, streamVars, late>>

NativeSessionCloses ==
  /\ closing = "native"
  /\ closing' = "over"
  /\ session' = "closed"
  /\ UNCHANGED <<endpointVars, dial, stream, streams, link, streamVars, late>>

-----------------------------------------------------------------------------
(* openStream(options)                                                     *)

OpenStream ==
  /\ session = "open" /\ closing = "no" /\ stream = "no"
  /\ stream' = "opening"
  /\ UNCHANGED <<endpointVars, session, dial, closing, streams, link, streamVars, late>>

\* The native stream arrives; NativeFramedStream subscribes to it, unless the
\* caller gave up before.
StreamArrives ==
  /\ session = "open"
  /\ \/ stream = "opening" /\ stream' = "hello"
     \/ stream = "gaveUp"  /\ stream' = "lost"
  /\ link' = TRUE
  /\ UNCHANGED <<endpointVars, session, dial, closing, streams, streamVars, late>>

StreamFails ==
  /\ \/ stream = "opening" /\ stream' \in {"closed", "gaveUp"}
     \/ stream = "gaveUp"  /\ stream' = "closed"
  /\ UNCHANGED <<endpointVars, session, dial, closing, streams, link, streamVars, late>>

\* The hello is over: the stream joins the session, closed or not.
HelloDone ==
  /\ stream = "hello"
  /\ stream' = "open"
  /\ streams' = TRUE
  /\ UNCHANGED <<endpointVars, session, dial, closing, link, streamVars, late>>

\* close() of a stream whose hello failed
HelloFails ==
  /\ stream = "hello"
  /\ MarkClosed
  /\ link' = FALSE
  /\ UNCHANGED <<endpointVars, session, dial, closing, streams, late>>

-----------------------------------------------------------------------------
(* The frames of the stream.  Those of the hello are not counted here.     *)

Listening == stream \in {"hello", "open"} /\ link

\* onMessage: the frame goes to the reader that has waited longest, also when
\* that one has given up.
FrameArrives ==
  /\ Listening /\ arrived < MaxFrames
  /\ arrived' = arrived + 1
  /\ IF waiters = <<>>
     THEN /\ frames' = Append(frames, arrived')
          /\ UNCHANGED <<read, waiters, given>>
     ELSE /\ waiters' = Tail(waiters)
          /\ given' = [given EXCEPT ![arrived'] = Head(waiters)]
          /\ read' = [read EXCEPT ![Head(waiters)] = IF @ = "waiting" THEN "frame" ELSE @]
          /\ UNCHANGED frames
  /\ UNCHANGED <<endpointVars, linkVars, late>>

\* An empty frame or one over MAX_FRAME_BYTES: closeSilently, which leaves the
\* native connection as it is.
BadFrame ==
  /\ Listening
  /\ MarkClosed
  /\ UNCHANGED <<endpointVars, session, dial, closing, streams, link, late>>

\* onClose, onError; all there is left of a stream nobody holds is its link
LinkCloses ==
  /\ link
  /\ link' = FALSE
  /\ IF stream \in {"hello", "open"} THEN MarkClosed ELSE UNCHANGED <<stream, streamVars>>
  /\ UNCHANGED <<endpointVars, session, dial, closing, streams, late>>

\* read(options), called by whoever openStream returned the stream to
ReadFrame_Waits(r) ==
  /\ streams /\ read[r] = "no" /\ \A q \in 1 .. r - 1 : read[q] # "no"
  /\ stream = "open"
  /\ read' = [read EXCEPT ![r] = "waiting"] /\ waiters' = Append(waiters, r)
  /\ UNCHANGED <<endpointVars, linkVars, late, arrived, frames, given>>

ReadFrame(r) ==
  /\ streams /\ read[r] = "no" /\ \A q \in 1 .. r - 1 : read[q] # "no"
  /\ \/ /\ frames # <<>>
        /\ frames' = Tail(frames)
        /\ given' = [given EXCEPT ![Head(frames)] = r]
        /\ read' = [read EXCEPT ![r] = "frame"]
        /\ UNCHANGED waiters
     \/ /\ frames = <<>> /\ stream # "open"
        /\ read' = [read EXCEPT ![r] = "null"]
        /\ UNCHANGED <<frames, given, waiters>>
     \/ /\ frames = <<>> /\ stream = "open"
        /\ read' = [read EXCEPT ![r] = "waiting"]
        /\ waiters' = Append(waiters, r)
        /\ UNCHANGED <<frames, given>>
  /\ UNCHANGED <<endpointVars, linkVars, late, arrived>>

\* raceAbort ends the wait; the waiter keeps its place in the queue.
ReadGivesUp(r) ==
  /\ read[r] = "waiting"
  /\ read' = [read EXCEPT ![r] = "gaveUp"]
  /\ UNCHANGED <<endpointVars, linkVars, late, arrived, frames, given, waiters>>

-----------------------------------------------------------------------------
StartStep(s) ==
  Start(s) \/ NativeStarts(s) \/ StartReturns(s) \/ StartThrows(s) \/ NativeStartFails(s)

StopStep(t) ==
  Stop(t) \/ ForwardersStopped(t) \/ NativeStops(t) \/ StopReturns(t) \/ NativeStopFails(t)

ForwarderStep(f) ==
  \/ StartTcpForwarder(f) \/ ForwarderUp(f) \/ ForwarderFails(f)
  \/ ForwarderStops(f) \/ ForwarderStopFails(f)

RnNext ==
  \/ \E s \in Starter : StartStep(s)
  \/ \E t \in Stopper : StopStep(t)
  \/ \E f \in Forwarder : ForwarderStep(f)
  \/ Connect \/ DialSettles \/ CloseSession \/ StreamsClosed \/ NativeSessionCloses
  \/ OpenStream \/ StreamArrives \/ StreamFails \/ HelloDone \/ HelloFails
  \/ FrameArrives \/ BadFrame \/ LinkCloses
  \/ \E r \in Read : ReadFrame(r) \/ ReadGivesUp(r)

\* The bridge reports the end of the connections of a session it has closed,
\* and a hello ends: negotiateStreamHello has a timer.
Fairness ==
  /\ WF_rnVars(session = "closed" /\ LinkCloses)
  /\ WF_rnVars(HelloFails)

RnSpec == RnInit /\ [][RnNext]_rnVars /\ Fairness

-----------------------------------------------------------------------------
(* What the transport promises.                                            *)

(* Every dial has one target, which does not depend on the order in which  *)
(* the candidates are known: the ticket some candidate has, alone, or      *)
(* every socket of every candidate together with the relay of each that    *)
(* has one.  A JSON ticket with several relays counts as having its first. *)
OneTargetForAll ==
  dial # NoDial =>
    /\ OrderIrrelevant(dial.asked)
    /\ HintsKept(dial.asked, dial.target)

(* The stream neither swaps nor repeats nor forgets: every frame that has  *)
(* arrived is either queued or was handed to one read, in the order of the *)
(* reads, and the only frames nobody saw are those handed to a read that   *)
(* had given up, one for each such read.                                   *)
FramesAccounted ==
  /\ \A k \in 1 .. arrived : given[k] = 0 <=> \E i \in DOMAIN frames : frames[i] = k
  /\ \A i, j \in DOMAIN frames : i < j => frames[i] < frames[j]
  /\ \A j, k \in 1 .. arrived : j < k /\ given[k] # 0 => given[j] # 0 /\ given[j] < given[k]
  /\ \A k \in 1 .. arrived : given[k] # 0 => read[given[k]] \in {"frame", "gaveUp"}

(* A forwarder that runs is one the next stop() will reach, however starts, *)
(* stops that fail and stops that overlap have come about; the exception   *)
(* is a forwarder that was asked for before a stop() was over.             *)
StopReachesForwarders ==
  \A f \in Forwarder \ late :
    forwarder[f] = "up" => f \in forwarders /\ state \notin {"idle", "stopped"}

(* As long as no start() overlaps a stop() or another start(), the state   *)
(* says whether the native endpoint runs once the calls are over, timeouts *)
(* and failures included.                                                  *)
StateTellsBridge ==
  ~crossed /\ InFlight(start) = {} /\ InFlight(stop) = {} =>
    /\ state = "ready" => bridge
    /\ state = "stopped" => ~bridge

(* Once a session is closed nobody goes on waiting for a frame of it, not  *)
(* even on a stream that was opened while the session closed, and without  *)
(* waiting for the 30 seconds of the read.                                 *)
CloseWakesReaders ==
  \A r \in Read : session = "closed" /\ read[r] = "waiting" ~> read[r] # "waiting"

=============================================================================
