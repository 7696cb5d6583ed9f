---------------------------- MODULE IrohSessions ----------------------------
(***************************************************************************)
(* The desktop's Iroh node (packages/electron-app/src/iroh-node.ts): the   *)
(* loop of serveSessions, which opens one arriving session at a time and   *)
(* gives it one of MaxSessions slots, the end of connections at any of its *)
(* awaits, the sessions the node dials itself, and close().                *)
(*                                                                         *)
(* The bytes of a connection are in FrameStream, its hello in StreamHello. *)
(***************************************************************************)
EXTENDS Naturals, FiniteSets

CONSTANTS
  Session,       \* the sessions that may arrive, each at most once
  Dial,          \* the calls of dial
  MaxSessions    \* options.maxSessions

ASSUME SessionsAssumption == MaxSessions \in Nat

VARIABLES
  node,       \* ready or error as in state; closing from close() on, shut
              \* when native.close has returned
  loop,       \* where the loop of serveSessions waits
  current,    \* its variable session
  incoming,   \* sessions the native node has yet to yield
  native,     \* the native sessions: none, open, gone
  conn,       \* FramedIrohConnection.closed: none, open, closed
  watched,    \* connections whose closeHandlers free a slot
  slots,      \* ElectronIrohNode.sessions
  closing,    \* connections whose close() has not reached session.close
  awaited,    \* the connections close() of the node waits for
  handed,     \* history: the connections the handler was called with
  dial        \* the calls of dial and the sessions they opened

nodeVars == <<node, loop, current, incoming, native, conn, watched, slots, closing,
          awaited, handed, dial>>

loopVars  == <<loop, current>>
tableVars == <<conn, watched, slots>>

Closed == node \in {"closing", "shut"}

NodeTypeOK ==
  /\ node \in {"ready", "error", "closing", "shut"}
  /\ loop \in {"waiting", "preparing", "greeting", "constructed", "handling",
               "discarding", "done"}
  /\ current \in Session
  /\ incoming \subseteq Session
  /\ native \in [Session -> {"none", "open", "gone"}]
  /\ conn \in [Session -> {"none", "open", "closed"}]
  /\ handed \subseteq Session
  /\ watched \subseteq handed /\ slots \subseteq handed
  /\ closing \subseteq handed /\ awaited \subseteq handed
  /\ dial \in [Dial -> {"none", "racing", "timedOut", "returned", "orphan", "gone"}]

NodeInit ==
  /\ node = "ready"
  /\ loop = "waiting" /\ current \in Session
  /\ incoming = {}
  /\ native = [s \in Session |-> "none"] /\ conn = [s \in Session |-> "none"]
  /\ watched = {} /\ slots = {} /\ closing = {} /\ awaited = {}
  /\ handed = {}
  /\ dial = [d \in Dial |-> "none"]

-----------------------------------------------------------------------------
(* The native node.                                                        *)

Arrive(s) ==
  /\ node # "shut"
  /\ native[s] = "none"
  /\ native' = [native EXCEPT ![s] = "open"]
  /\ incoming' = incoming \cup {s}
  /\ UNCHANGED <<node, loopVars, tableVars, closing, awaited, handed, dial>>

\* The peer closes the session or the network loses it.
SessionEnds(s) ==
  /\ native[s] = "open"
  /\ native' = [native EXCEPT ![s] = "gone"]
  /\ UNCHANGED <<node, loopVars, incoming, tableVars, closing, awaited, handed, dial>>

-----------------------------------------------------------------------------
(* FramedIrohConnection.                                                   *)

\* markClosed of several connections that are open
MarkClosed(S) ==
  /\ conn' = [s \in Session |-> IF s \in S THEN "closed" ELSE conn[s]]
  /\ slots' = slots \ (S \cap watched)
  /\ watched' = watched \ S

\* readLoop ends, on a bad frame or at the end of the stream, or
\* session.closed settles.  The native session is left as it is.
ConnectionEnds(s) ==
  /\ conn[s] = "open"
  /\ MarkClosed({s})
  /\ UNCHANGED <<node, loopVars, incoming, native, closing, awaited, handed, dial>>

\* close() by whoever was handed the connection
CloseConnection(s) ==
  /\ s \in handed /\ conn[s] = "open"
  /\ MarkClosed({s})
  /\ closing' = closing \cup {s}
  /\ UNCHANGED <<node, loopVars, incoming, native, awaited, handed, dial>>

\* The awaits of close() are over.
ConnectionClosed(s) ==
  /\ s \in closing
  /\ closing' = closing \ {s}
  /\ native' = [native EXCEPT ![s] = "gone"]
  /\ UNCHANGED <<node, loopVars, incoming, tableVars, awaited, handed, dial>>

-----------------------------------------------------------------------------
(* The loop of serveSessions.                                              *)

Full_OffByOne == Cardinality(slots) > MaxSessions

Full == Cardinality(slots) >= MaxSessions

Break(s) ==
  /\ loop = "waiting" /\ s \in incoming
  /\ Closed
  /\ loop' = "done"
  /\ incoming' = incoming \ {s}
  /\ UNCHANGED <<node, current, native, tableVars, closing, awaited, handed, dial>>

Refuse(s) ==
  /\ loop = "waiting" /\ s \in incoming
  /\ ~Closed /\ Full
  /\ incoming' = incoming \ {s}
  /\ native' = [native EXCEPT ![s] = "gone"]
  /\ UNCHANGED <<node, loopVars, tableVars, closing, awaited, handed, dial>>

Admit(s) ==
  /\ loop = "waiting" /\ s \in incoming
  /\ ~Closed /\ ~Full
  /\ incoming' = incoming \ {s}
  /\ loop' = "preparing" /\ current' = s
  /\ UNCHANGED <<node, native, tableVars, closing, awaited, handed, dial>>

\* session.ready and createBidirectionalStream, neither under a timer
Prepare ==
  /\ loop = "preparing"
  /\ native[current] = "open"
  /\ loop' = "greeting"
  /\ UNCHANGED <<node, current, incoming, native, tableVars, closing, awaited,
                 handed, dial>>

OpenFails_Breaks ==
  /\ loop \in {"preparing", "greeting"}
  /\ loop' = "done"
  /\ native' = [native EXCEPT ![current] = "gone"]
  /\ UNCHANGED <<node, current, incoming, tableVars, closing, awaited, handed, dial>>

\* FramedIrohConnection.open rejects.
OpenFails ==
  /\ loop \in {"preparing", "greeting"}
  /\ loop' = "waiting"
  /\ native' = [native EXCEPT ![current] = "gone"]
  /\ UNCHANGED <<node, current, incoming, tableVars, closing, awaited, handed, dial>>

\* The hello is done, the constructor starts the readers; open resolves.  The
\* session may have closed by now, and the connection may close before the
\* loop goes on.
Greet ==
  /\ loop = "greeting"
  /\ loop' = "constructed"
  /\ conn' = [conn EXCEPT ![current] = "open"]
  /\ UNCHANGED <<node, current, incoming, native, watched, slots, closing,
                 awaited, handed, dial>>

\* As it would be if the slot were taken when the handler has returned.
Register_WithoutSlot ==
  /\ loop = "constructed"
  /\ loop' = "handling"
  /\ watched' = watched \cup {current}
  /\ handed' = handed \cup {current}
  /\ UNCHANGED <<node, current, incoming, native, conn, slots, closing, awaited, dial>>

\* sessions.add, onClose and the call of the handler, whatever became of the
\* node and of the connection meanwhile.
Register ==
  /\ loop = "constructed"
  /\ loop' = "handling"
  /\ slots' = slots \cup {current}
  /\ watched' = watched \cup {current}
  /\ handed' = handed \cup {current}
  /\ UNCHANGED <<node, current, incoming, native, conn, closing, awaited, dial>>

HandlerReturns ==
  /\ loop = "handling"
  /\ loop' = "waiting"
  /\ UNCHANGED <<node, current, incoming, native, tableVars, closing, awaited,
                 handed, dial>>

\* The handler throws; close() does nothing on a connection that is closed.
HandlerThrows ==
  /\ loop = "handling"
  /\ \/ /\ conn[current] = "open"
        /\ loop' = "discarding"
        /\ MarkClosed({current})
        /\ closing' = closing \cup {current}
     \/ /\ conn[current] = "closed"
        /\ loop' = "waiting"
        /\ UNCHANGED <<tableVars, closing>>
  /\ UNCHANGED <<node, current, incoming, native, awaited, handed, dial>>

Discarded ==
  /\ loop = "discarding" /\ current \notin closing
  /\ loop' = "waiting"
  /\ UNCHANGED <<node, current, incoming, native, tableVars, closing, awaited,
                 handed, dial>>

\* The abort signal ends the iteration.
IncomingEnds ==
  /\ loop = "waiting" /\ Closed
  /\ loop' = "done"
  /\ UNCHANGED <<node, current, incoming, native, tableVars, closing, awaited,
                 handed, dial>>

\* The iteration rejects: nothing is accepted any more.
IncomingFails ==
  /\ loop = "waiting" /\ ~Closed
  /\ loop' = "done" /\ node' = "error"
  /\ UNCHANGED <<current, incoming, native, tableVars, closing, awaited,
                 handed, dial>>

-----------------------------------------------------------------------------
(* dial.  The continuation of the race runs before any timer, so a session *)
(* that opens in time is returned.                                         *)

StartDial(d) ==
  /\ ~Closed /\ dial[d] = "none"
  /\ dial' = [dial EXCEPT ![d] = "racing"]
  /\ UNCHANGED <<node, loopVars, incoming, native, tableVars, closing, awaited, handed>>

DialTimeout(d) ==
  /\ dial[d] = "racing"
  /\ dial' = [dial EXCEPT ![d] = "timedOut"]
  /\ UNCHANGED <<node, loopVars, incoming, native, tableVars, closing, awaited, handed>>

\* native.dial settles.  When the timer has won, nobody looks at the session.
DialSettles(d) ==
  /\ \/ dial[d] = "racing"   /\ \E r \in {"returned", "gone"} : dial' = [dial EXCEPT ![d] = r]
     \/ dial[d] = "timedOut" /\ \E r \in {"orphan", "gone"} : dial' = [dial EXCEPT ![d] = r]
  /\ UNCHANGED <<node, loopVars, incoming, native, tableVars, closing, awaited, handed>>

\* The caller closes the session it got, or the peer does.
DialedEnds(d) ==
  /\ dial[d] \in {"returned", "orphan"}
  /\ dial' = [dial EXCEPT ![d] = "gone"]
  /\ UNCHANGED <<node, loopVars, incoming, native, tableVars, closing, awaited, handed>>

-----------------------------------------------------------------------------
(* close                                                                   *)

CloseBegins ==
  /\ ~Closed
  /\ node' = "closing"
  /\ LET open == {s \in slots : conn[s] = "open"}
     IN /\ MarkClosed(open)
        /\ closing' = closing \cup open
        /\ awaited' = open
  /\ UNCHANGED <<loopVars, incoming, native, handed, dial>>

\* As it would be if native.close let open sessions be.
CloseEnds_Gracefully ==
  /\ node = "closing" /\ awaited \cap closing = {}
  /\ node' = "shut"
  /\ slots' = {} /\ incoming' = {}
  /\ UNCHANGED <<loopVars, native, conn, watched, closing, awaited, handed, dial>>

\* native.close({ force: true }) and sessions.clear
CloseEnds ==
  /\ node = "closing" /\ awaited \cap closing = {}
  /\ node' = "shut"
  /\ slots' = {} /\ incoming' = {}
  /\ native' = [s \in Session |-> IF native[s] = "open" THEN "gone" ELSE native[s]]
  /\ dial' = [d \in Dial |-> IF dial[d] = "none" THEN "none" ELSE "gone"]
  /\ UNCHANGED <<loopVars, conn, watched, closing, awaited, handed>>

-----------------------------------------------------------------------------
SessionStep(s) ==
  \/ Arrive(s) \/ SessionEnds(s)
  \/ ConnectionEnds(s) \/ CloseConnection(s) \/ ConnectionClosed(s)
  \/ Break(s) \/ Refuse(s) \/ Admit(s)

LoopStep ==
  \/ Prepare \/ OpenFails \/ Greet \/ Register
  \/ HandlerReturns \/ HandlerThrows \/ Discarded
  \/ IncomingEnds \/ IncomingFails

DialStep(d) == StartDial(d) \/ DialTimeout(d) \/ DialSettles(d) \/ DialedEnds(d)

NodeNext ==
  \/ \E s \in Session : SessionStep(s)
  \/ LoopStep
  \/ \E d \in Dial : DialStep(d)
  \/ CloseBegins \/ CloseEnds

NodeSpec == NodeInit /\ [][NodeNext]_nodeVars

\* The hello is under timers; what is awaited of a session that is gone
\* settles.  The awaits of Prepare and of a connection's close() need not.
\* That native.close({ force: true }) returns, which CloseEnds takes for
\* granted, is assumed of the native library: its await has no timer
\* (iroh-node.ts:235).
OpenEnds  == (OpenFails /\ (loop = "greeting" \/ native[current] = "gone")) \/ Greet
LoopTurns == (\E s \in Session : Break(s) \/ Refuse(s) \/ Admit(s)) \/ IncomingEnds
Noticed(s) == native[s] = "gone" /\ ConnectionEnds(s)

FairNodeSpec ==
  /\ NodeSpec
  /\ WF_nodeVars(LoopTurns) /\ WF_nodeVars(OpenEnds) /\ WF_nodeVars(Register)
  /\ WF_nodeVars(HandlerReturns \/ HandlerThrows) /\ WF_nodeVars(Discarded)
  /\ \A s \in Session : WF_nodeVars(Noticed(s))
  /\ WF_nodeVars(CloseEnds)
  /\ \A d \in Dial : WF_nodeVars(DialTimeout(d) \/ DialSettles(d))

-----------------------------------------------------------------------------
(* What the node promises.                                                 *)

(* The limit is tested before the awaits of the opening and the slot taken *)
(* after them; still there are never more than MaxSessions slots.          *)
SlotBound == Cardinality(slots) <= MaxSessions

(* A connection the handler was given counts against the limit for as long *)
(* as it is open; close() of the node can therefore reach it.              *)
CountedWhileOpen ==
  \A s \in handed :
    conn[s] = "open" /\ native[s] = "open" => s \in slots

(* Wherever the loop and the connections are when close() is called, in    *)
(* the end nothing is left: the loop is over, no connection and no session *)
(* is open, dialed ones included.  Unless a connection's close() hangs: it *)
(* waits for the peer without a timer, and the node waits for it.          *)
Quiet ==
  /\ loop = "done"
  /\ \A s \in Session : conn[s] # "open" /\ native[s] # "open"
  /\ \A d \in Dial : dial[d] \in {"none", "gone"}

CloseLeavesNothing == []<>(closing = {}) => (Closed ~> []Quiet)

(* One session at a time is opened, and yet each one that arrives gets its *)
(* turn, whatever the sessions before it and the handler do: only an await *)
(* without a timer can hold up the others.                                 *)
EveryoneGetsATurn ==
  []<>(loop \notin {"preparing", "discarding"}) =>
    \A s \in Session : s \in incoming ~> (s \notin incoming \/ node # "ready")
=============================================================================
