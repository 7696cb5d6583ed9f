----------------------------- MODULE LanDiscovery -----------------------------
(***************************************************************************)
(* ReactNativeLanDiscovery and ElectronLanAdvertiser                       *)
(* (react-native-app/src/lan-discovery.ts,                                 *)
(* electron-app/src/lan-discovery.ts): the browser of the phone and the    *)
(* advertisement of a desktop, started and stopped by calls that overlap.  *)
(*                                                                         *)
(* The phone asks its user for a permission in the middle of start(); the  *)
(* desktop gives way between the two halves of refresh().  What lies       *)
(* between two awaits is one step.  Every call of the native browser and   *)
(* of Bonjour may throw; one that throws has done nothing.  The network    *)
(* and its caches may report any desktop as found or gone at any time.     *)
(* discover() only reads what is kept here.                                *)
(***************************************************************************)
EXTENDS Naturals, FiniteSets

CONSTANTS
  LanCall,  \* calls of start() of the phone and of refresh() of the desktop
  Node,     \* node ids of valid records
  MaxListeners,   \* bound on the listeners registered at once
  MaxFailedStops  \* bound on the stops of the desktop that throw

ASSUME LanAssumption == MaxListeners \in Nat /\ MaxFailedStops \in Nat

VARIABLES
  phoneState,  \* ReactNativeLanDiscovery.state
  prompts,     \* calls of start() that wait for permission()
  listening,   \* how many listeners are registered with the browser
  scanning,    \* whether the browser scans
  peers,       \* keys of ReactNativeLanDiscovery.peers
  stray,       \* history: those a start() registered before it threw in a stopped phone
  lost,        \* history: those whose off() threw or was skipped, in no list any more
  advState,    \* ElectronLanAdvertiser.state
  onAir,       \* how many Bonjour instances are up
  refreshes,   \* calls of refresh() between its stop() and its start()
  failedStops  \* history: stops of the desktop that threw

phoneVars == <<phoneState, prompts, listening, scanning, peers, stray, lost>>
advVars   == <<advState, onAir, refreshes, failedStops>>
lanVars   == <<phoneState, prompts, listening, scanning, peers, stray, lost,
               advState, onAir, refreshes, failedStops>>

LanTypeOK ==
  /\ phoneState \in {"idle", "starting", "ready", "stopping", "stopped", "failed"}
  /\ prompts \subseteq LanCall
  /\ listening \in Nat
  /\ scanning \in BOOLEAN
  /\ peers \subseteq Node
  /\ stray \in Nat /\ lost \in Nat
  /\ advState \in {"idle", "ready", "stopping", "stopped"}
  /\ onAir \in Nat
  /\ refreshes \subseteq LanCall
  /\ failedStops \in Nat

LanInit ==
  /\ phoneState = "idle" /\ prompts = {} /\ listening = 0 /\ scanning = FALSE /\ peers = {}
  /\ stray = 0 /\ lost = 0
  /\ advState = "idle" /\ onAir = 0 /\ refreshes = {} /\ failedStops = 0

-----------------------------------------------------------------------------
(* ReactNativeLanDiscovery                                                 *)

\* start() up to its await: only a start that is over keeps another one out
PhoneStarts(c) ==
  /\ phoneState # "ready" /\ c \notin prompts
  /\ listening + 3 * Cardinality(prompts) + 3 <= MaxListeners
  /\ phoneState' = "starting"
  /\ prompts' = prompts \cup {c}
  /\ UNCHANGED <<listening, scanning, peers, stray, lost>>

Granted(c) ==
  /\ c \in prompts
  /\ prompts' = prompts \ {c}
  /\ listening' = listening + 3
  /\ scanning' = TRUE
  /\ phoneState' = "ready"
  /\ UNCHANGED <<peers, stray, lost>>

\* on() throws at one of the three listeners, or scan() after them: start()
\* rejects and leaves the state to whoever set it last
GrantedThrows(c) ==
  /\ c \in prompts
  /\ prompts' = prompts \ {c}
  /\ \E n \in 0..3 :
       /\ listening' = listening + n
       /\ stray' = IF phoneState \in {"idle", "stopped"} THEN stray + n ELSE stray
  /\ UNCHANGED <<phoneState, scanning, peers, lost>>

\* the user says no, or permission() rejects
Denied(c) ==
  /\ c \in prompts
  /\ prompts' = prompts \ {c}
  /\ phoneState' \in {"failed", phoneState}
  /\ UNCHANGED <<listening, scanning, peers, stray, lost>>

\* stop(): nothing but the state if there is nothing to stop
NothingToStop_Failed == phoneState \in {"stopped", "idle", "failed"}

NothingToStop == phoneState \in {"stopped", "idle"}

PhoneStops ==
  /\ phoneState' = "stopped"
  /\ IF NothingToStop THEN UNCHANGED <<listening, scanning, peers, stray>>
     ELSE listening' = lost /\ scanning' = FALSE /\ peers' = {} /\ stray' = 0
  /\ UNCHANGED <<prompts, lost>>

\* browser.stop() throws, or the off() of a listener does: the list is empty
\* by then, so that listener and those behind it are out of reach
PhoneStopThrows ==
  /\ phoneState \notin {"idle", "stopped"}
  /\ phoneState' = "stopping"
  /\ \/ UNCHANGED <<listening, scanning, stray, lost>>
     \/ /\ listening' \in lost + 1..listening
        /\ lost' = listening'
        /\ scanning' = FALSE /\ stray' = 0
  /\ UNCHANGED <<prompts, peers>>

\* accept(service), remove(service): heard as long as somebody listens
ServiceEvent(node) ==
  /\ listening > 0
  /\ peers' \in {peers \cup {node}, peers \ {node}}
  /\ UNCHANGED <<phoneState, prompts, listening, scanning, stray, lost>>

PhoneStep ==
  /\ \/ \E c \in LanCall : PhoneStarts(c) \/ Granted(c) \/ GrantedThrows(c) \/ Denied(c)
     \/ PhoneStops \/ PhoneStopThrows
     \/ \E node \in Node : ServiceEvent(node)
  /\ UNCHANGED advVars

-----------------------------------------------------------------------------
(* ElectronLanAdvertiser: start() and stop() have no await of their own    *)

\* stop() with `up` instances up, one of them in the field: it is destroyed,
\* or its stop() or destroy() throws and the field keeps it
StopsHeld(up) ==
  \/ advState' = "stopped" /\ onAir' = up - 1 /\ UNCHANGED failedStops
  \/ /\ failedStops < MaxFailedStops
     /\ advState' = "stopping" /\ onAir' = up /\ failedStops' = failedStops + 1

Unpublish ==
  IF advState \in {"idle", "stopped"}
  THEN advState' = "stopped" /\ UNCHANGED <<onAir, failedStops>>
  ELSE StopsHeld(onAir)

\* the new instance takes the field, whatever a failed stop() has left there;
\* a record that cannot be encoded makes start() stop what the field holds,
\* a publish() that throws makes it stop the new instance
Publish ==
  IF advState = "ready" THEN UNCHANGED <<advState, onAir, failedStops>>
  ELSE \/ advState' = "ready" /\ onAir' = onAir + 1 /\ UNCHANGED failedStops
       \/ Unpublish
       \/ StopsHeld(onAir + 1)

AdvertiserStarts == Publish /\ UNCHANGED refreshes

AdvertiserStops == Unpublish /\ UNCHANGED refreshes

\* refresh() up to the end of its stop(), which rejects it if it throws
RefreshBegins(c) ==
  /\ advState = "ready" /\ c \notin refreshes
  /\ Unpublish
  /\ refreshes' = IF advState' = "stopped" THEN refreshes \cup {c} ELSE refreshes

RefreshGoesOn(c) ==
  /\ c \in refreshes
  /\ Publish
  /\ refreshes' = refreshes \ {c}

AdvertiserStep ==
  /\ \/ AdvertiserStarts \/ AdvertiserStops
     \/ \E c \in LanCall : RefreshBegins(c) \/ RefreshGoesOn(c)
  /\ UNCHANGED phoneVars

LanNext == PhoneStep \/ AdvertiserStep

LanSpec == LanInit /\ [][LanNext]_lanVars

-----------------------------------------------------------------------------
(* What discovery promises.                                                *)

(* A module that says it is idle or stopped does nothing on the network,   *)
(* however starts, prompts, refreshes and stops overlap and whichever      *)
(* native call throws, but for two leaks that are counted exactly.  The    *)
(* phone does not scan, and hears only listeners of a start() that threw   *)
(* after the stop() it overlapped or of an off() that threw; it remembers  *)
(* no peer if it hears nothing.  The desktop has no more Bonjours up than  *)
(* stops of it have thrown, and beyond those never a second one that no    *)
(* stop() could reach.  (A start whose prompt is answered after stop()     *)
(* makes the module ready again, and so does the second half of a          *)
(* refresh.)                                                               *)
StoppedIsSilent ==
  /\ phoneState \in {"idle", "stopped"} =>
       ~ scanning /\ listening = stray + lost /\ (listening = 0 => peers = {})
  /\ advState \in {"idle", "stopped"} => onAir <= failedStops
  /\ onAir <= failedStops + 1

(* A stopped phone has closed the listeners it could close: ADR-007 asks   *)
(* that adapters close the resources they own.  The code does not: a       *)
(* start() that waits for its prompt while stop() passes, and whose scan() *)
(* or on() then throws, leaves its listeners in a phone that says          *)
(* "stopped", and every later stop() returns at once.                      *)
StoppedOwnsNothing == phoneState = "stopped" => listening = lost
=============================================================================
