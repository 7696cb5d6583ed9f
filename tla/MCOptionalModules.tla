------------------------- MODULE MCOptionalModules --------------------------
(***************************************************************************)
(* Instance of BleBootstrap, OfflineBootstrap, WebPresence, LanDiscovery   *)
(* and IdentityFiles for TLC: the optional parts and the key files of the  *)
(* desktop, which share no state and no call.  Of a behaviour only one of  *)
(* them has steps, or one half of the web service: `part` says which.      *)
(*                                                                         *)
(* ble: two transfers, payloads of two fragments and of one, four          *)
(* notifications for three slots of the reassembly.                        *)
(* handoff: three handoffs, one reference with two dates, another one, a   *)
(* content that is no envelope and one that is too large, a store with one *)
(* place.                                                                  *)
(* presence, signaling: two writers and a reader on one identity or one    *)
(* session, records that run out in another order than they were signed,   *)
(* a clock of two windows.                                                 *)
(* lan: two calls of start() or of refresh() at once, one desktop, nine    *)
(* listeners, two stops of the desktop that throw.                         *)
(* identity: two processes at once, three keys, any number of failures.    *)
(***************************************************************************)
EXTENDS BleBootstrap, OfflineBootstrap, WebPresence, LanDiscovery, IdentityFiles, TLC

MCPayload == {<<"a", "b", "a">>, <<"b">>}

MCContent ==
  [size : {2}, formed : {TRUE}, ref : {"r1"}, expires : {1, 3}]
    \cup [size : {2, 3}, formed : {TRUE}, ref : {"r2"}, expires : {2}]
    \cup [size : {2}, formed : {FALSE}, ref : {"r2"}, expires : {2}]

MCRecord ==
  [issued : {0}, expires : {3}, candidates : {1}, size : {2}, clean : {TRUE}]
    \cup [issued : {1}, expires : {2}, candidates : {1}, size : {2}, clean : {TRUE}]
    \cup [issued : {2}, expires : {4}, candidates : {1}, size : {2}, clean : BOOLEAN]
    \cup [issued : {2}, expires : {4}, candidates : {2}, size : {3, 4}, clean : {TRUE}]

MCRecordBytes == "presence" :> 3 @@ "signaling" :> 2

MCLimit == "put" :> 1 @@ "get" :> 1 @@ "signal" :> 2 @@ "signal-get" :> 1

VARIABLE part

MCInit ==
  /\ BleInit /\ Init /\ WebInit /\ LanInit /\ KeyInit
  /\ part \in {"ble", "handoff", "presence", "signaling", "lan", "identity"}

MCNext ==
  /\ UNCHANGED part
  /\ \/ part = "ble" /\ BleNext /\ UNCHANGED <<vars, webVars, lanVars, keyVars>>
     \/ part = "handoff" /\ Next /\ UNCHANGED <<bleVars, webVars, lanVars, keyVars>>
     \/ part = "presence" /\ (PresenceStep \/ WebTick) /\ UNCHANGED <<bleVars, vars, lanVars, keyVars>>
     \/ part = "signaling" /\ (SignalingStep \/ WebTick) /\ UNCHANGED <<bleVars, vars, lanVars, keyVars>>
     \/ part = "lan" /\ LanNext /\ UNCHANGED <<bleVars, vars, webVars, keyVars>>
     \/ part = "identity" /\ KeyNext /\ UNCHANGED <<bleVars, vars, webVars, lanVars>>

MCSpec ==
  /\ MCInit /\ [][MCNext]_<<bleVars, vars, webVars, lanVars, keyVars, part>>
  /\ WF_bleVars(part = "ble" /\ Hashes)
=============================================================================
