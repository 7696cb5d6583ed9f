--------------------------- MODULE ModuleRegistry ---------------------------
(***************************************************************************)
(* ModuleRegistry (packages/module-kernel/src/registry.ts): start orders   *)
(* the selected modules by their dependencies and starts one after the     *)
(* other, stop takes them down again.  Modules are those of the            *)
(* application: a start or a stop may reject at any time.                  *)
(*                                                                         *)
(* A call that validate() refuses, for an unknown module, a missing        *)
(* dependency, a conflict, the platform or the configuration, throws       *)
(* before it changes anything and is no step.  One composition at a time:  *)
(* start is not called again before start has failed or stop has resolved. *)
(***************************************************************************)
EXTENDS Integers, Sequences, SequencesExt, FiniteSets

CONSTANTS
  Module,
  Dependencies,  \* the manifests: sequences of the modules a module needs
  Selection      \* the lists start may be called with

ASSUME RegistryAssumption ==
  /\ IsFiniteSet(Module)
  /\ Dependencies \subseteq [Module -> Seq(Module)]
  /\ \A s \in Selection : s \in Seq(Module) /\ IsInjective(s)

VARIABLES
  deps,       \* manifest.dependencies of each module
  kind,       \* required; optional; or absent: optional and not available
  phase,      \* where start or stop is; idle when neither runs
  selected,   \* the argument of start
  ordered,    \* what order() returned
  next,       \* the position of the module being started or stopped
  started,    \* started; composition.modules once start has returned
  optionalFailures,
  run         \* of each module, by the calls of start and stop it has seen

registryVars == <<deps, kind, phase, selected, ordered, next, started,
                  optionalFailures, run>>
manifests == <<deps, kind>>
call      == <<selected, ordered>>

Composed == {m \in ToSet(selected) : kind[m] # "absent"}

RegistryTypeOK ==
  /\ deps \in Dependencies
  /\ kind \in [Module -> {"required", "optional", "absent"}]
  /\ phase \in {"idle", "starting", "discarding", "unwinding", "failed",
                "cyclic", "running", "stopping", "stuck"}
  /\ selected \in Selection \cup {<<>>}
  /\ IsInjective(ordered) /\ ToSet(ordered) \subseteq Composed
  /\ IsInjective(started) /\ ToSet(started) \subseteq ToSet(ordered)
  /\ next \in 0 .. Len(ordered) + 1
  /\ optionalFailures \subseteq ToSet(selected)
  /\ run \in [Module -> {"down", "starting", "up", "broken", "stopping", "unstopped"}]

RegistryInit ==
  /\ deps \in Dependencies
  /\ kind \in [Module -> {"required", "optional", "absent"}]
  /\ phase = "idle"
  /\ selected = <<>> /\ ordered = <<>> /\ next = 0
  /\ started = <<>> /\ optionalFailures = {}
  /\ run = [m \in Module |-> "down"]

-----------------------------------------------------------------------------
(* order(): depth first, a module after those it needs.                    *)

Walk == [visiting : SUBSET Module, ordered : Seq(Module), cyclic : BOOLEAN]

NewWalk == [visiting |-> {}, ordered |-> <<>>, cyclic |-> FALSE]

\* The composed ones of a list of modules, one after the other.
VisitEach(visit, list, walk, composed) ==
  LET after[i \in 0 .. Len(list)] ==
        IF i = 0 THEN walk
        ELSE IF list[i] \in composed THEN visit[list[i]][after[i - 1]] ELSE after[i - 1]
  IN after[Len(list)]

\* visit(module), where visit is that of the modules below; a cycle throws,
\* and there is one when no module is left that is not being visited.
VisitBy(visit, last, composed) ==
  [m \in Module |-> [walk \in Walk |->
    IF m \in ToSet(walk.ordered) \/ walk.cyclic THEN walk
    ELSE IF m \in walk.visiting \/ last THEN [walk EXCEPT !.cyclic = TRUE]
    ELSE LET below == VisitEach(visit, deps[m], [walk EXCEPT !.visiting = @ \cup {m}], composed)
         IN [below EXCEPT !.visiting = @ \ {m}, !.ordered = Append(@, m)]]]

\* The modules being visited grow by one with every call below another: n
\* is the number of those that are left.
Visits(composed) ==
  LET visits[n \in Nat] ==
        VisitBy(IF n = 0 THEN <<>> ELSE visits[n - 1], n = 0, composed)
  IN visits

Order(list, composed) ==
  VisitEach(Visits(composed)[Cardinality(Module)], list, NewWalk, composed)

-----------------------------------------------------------------------------
(* start                                                                   *)

\* What validate() lets through, the rest of it aside.
Valid(sel) == \A m \in ToSet(sel) : ToSet(deps[m]) \subseteq ToSet(sel)

NewCall == started' = <<>>

Start ==
  /\ phase \in {"idle", "failed", "cyclic"}
  /\ \E sel \in Selection :
       LET walk == Order(sel, {m \in ToSet(sel) : kind[m] # "absent"})
       IN /\ Valid(sel)
          /\ selected' = sel
          /\ optionalFailures' = {m \in ToSet(sel) : kind[m] = "absent"}
          /\ IF walk.cyclic
             THEN ordered' = <<>> /\ phase' = "cyclic"
             ELSE ordered' = walk.ordered /\ phase' = "starting"
  /\ NewCall
  /\ next' = 0
  /\ UNCHANGED <<manifests, run>>

Current == ordered[next]

\* The loop calls start on the next module, or returns the composition.
StartNext ==
  /\ phase = "starting"
  /\ next > 0 => run[Current] # "starting"
  /\ IF next = Len(ordered)
     THEN phase' = "running" /\ UNCHANGED <<next, run>>
     ELSE /\ next' = next + 1
          /\ run' = [run EXCEPT ![ordered[next + 1]] = "starting"]
          /\ UNCHANGED phase
  /\ UNCHANGED <<manifests, call, started, optionalFailures>>

ModuleStarts ==
  /\ phase = "starting" /\ next > 0 /\ run[Current] = "starting"
  /\ run' = [run EXCEPT ![Current] = "up"]
  /\ started' = Append(started, Current)
  /\ UNCHANGED <<manifests, call, phase, next, optionalFailures>>

\* An optional module is stopped again and the loop waits for it; a required
\* one ends the loop, and stop is called on all that have started, at once.
ModuleFails ==
  /\ phase = "starting" /\ next > 0 /\ run[Current] = "starting"
  /\ IF kind[Current] = "optional"
     THEN /\ phase' = "discarding"
          /\ run' = [run EXCEPT ![Current] = "stopping"]
     ELSE /\ phase' = "unwinding"
          /\ run' = [m \in Module |-> IF m = Current THEN "broken"
                                     ELSE IF m \in ToSet(started) THEN "stopping" ELSE run[m]]
  /\ UNCHANGED <<manifests, call, next, started, optionalFailures>>

RecordFailure == optionalFailures' = optionalFailures \cup {Current}

ModuleDiscarded ==
  /\ phase = "discarding"
  /\ \E r \in {"down", "unstopped"} : run' = [run EXCEPT ![Current] = r]
  /\ RecordFailure
  /\ phase' = "starting"
  /\ UNCHANGED <<manifests, call, next, started>>

ModuleUnwound ==
  /\ phase = "unwinding"
  /\ \E m \in Module, r \in {"down", "unstopped"} :
       run[m] = "stopping" /\ run' = [run EXCEPT ![m] = r]
  /\ UNCHANGED <<manifests, call, phase, next, started, optionalFailures>>

\* Promise.all in the place of Promise.allSettled.
Unwound_FirstRejection ==
  \/ \A m \in ToSet(started) : run[m] # "stopping"
  \/ \E m \in ToSet(started) : run[m] = "unstopped"

Unwound == \A m \in ToSet(started) : run[m] # "stopping"

StartThrows ==
  /\ phase = "unwinding" /\ Unwound
  /\ phase' = "failed"
  /\ UNCHANGED <<manifests, call, next, started, optionalFailures, run>>

-----------------------------------------------------------------------------
(* stop                                                                    *)

\* The order of stop without the reverse().
StopOrder_AsStarted == started

StopOrder == Reverse(started)

\* Called on a composition that runs, or again after a stop has rejected.
Stop ==
  /\ phase \in {"running", "stuck"}
  /\ phase' = "stopping"
  /\ next' = 0
  /\ UNCHANGED <<manifests, call, started, optionalFailures, run>>

StopNext ==
  /\ phase = "stopping"
  /\ next > 0 => run[StopOrder[next]] # "stopping"
  /\ IF next = Len(started)
     THEN phase' = "idle" /\ UNCHANGED <<next, run>>
     ELSE /\ next' = next + 1
          /\ run' = [run EXCEPT ![StopOrder[next + 1]] = "stopping"]
          /\ UNCHANGED phase
  /\ UNCHANGED <<manifests, call, started, optionalFailures>>

\* A stop that rejects ends the loop: those started before stay as they are.
ModuleStops ==
  /\ phase = "stopping" /\ next > 0 /\ run[StopOrder[next]] = "stopping"
  /\ \/ run' = [run EXCEPT ![StopOrder[next]] = "down"] /\ UNCHANGED phase
     \/ run' = [run EXCEPT ![StopOrder[next]] = "unstopped"] /\ phase' = "stuck"
  /\ UNCHANGED <<manifests, call, next, started, optionalFailures>>

RegistryNext ==
  \/ Start \/ StartNext \/ ModuleStarts \/ ModuleFails
  \/ ModuleDiscarded \/ ModuleUnwound \/ StartThrows
  \/ Stop \/ StopNext \/ ModuleStops

RegistrySpec == RegistryInit /\ [][RegistryNext]_registryVars

-----------------------------------------------------------------------------
(* Properties                                                              *)

\* order() and the reverse() of stop: a module that is starting or up has
\* what it needs up, unless that is optional and reported as failed; also
\* after a stop that rejected half way, and while it is called again.  The
\* unwinding of a failed start is excepted: it stops all modules at once.
DependenciesUp ==
  \A m \in ToSet(ordered) :
    (phase \in {"starting", "running", "stopping", "stuck"} /\ run[m] \in {"starting", "up"})
      => \A d \in ToSet(deps[m]) : run[d] = "up" \/ d \in optionalFailures

\* Once start has thrown, nothing it had started is up or still on its way
\* down, although one stop of several may reject: no module is left that the
\* caller, who got no composition, could not stop.
FailureUnwinds ==
  phase = "failed" => \A m \in Module : run[m] \notin {"starting", "up", "stopping"}
=============================================================================
