---------------------------- MODULE IdentityFiles ----------------------------
(***************************************************************************)
(* loadOrCreateIdentity (packages/electron-app/src/node-key.ts): the file  *)
(* that holds a key of the desktop, while processes start at once, end at  *)
(* any point, and the power fails.                                         *)
(*                                                                         *)
(* loadOrCreateIdentities() does the same for two files, one after the     *)
(* other, which have nothing in common; one of them is modelled.  The file *)
(* system is external: each call is a step of its own; the name of a file  *)
(* reaches the disk some time after rename(), since nobody syncs the       *)
(* directory, and its bytes at fsync() or some time before.  A key is      *)
(* drawn once, so a temporary file is known by its key.  Modes of files    *)
(* and directories are left out.                                           *)
(***************************************************************************)
EXTENDS FiniteSets

CONSTANTS
  Launch,  \* processes of the application on one data directory
  Key,     \* what randomBytes(32) returns, in any order
  NoKey    \* existsSync(path) is false

ASSUME KeyAssumption == NoKey \notin Key

VARIABLES
  named,    \* whose bytes a reader of `path` finds
  durable,  \* what `path` may name after a power failure
  file,     \* the file made for each key
  launch    \* where each process stands, and its key

keyVars == <<named, durable, file, launch>>

Off == [pc |-> "off"]

KeyTypeOK ==
  /\ named \in Key \cup {NoKey}
  /\ durable \in SUBSET (Key \cup {NoKey}) /\ named \in durable
  /\ file \in [Key -> {"absent", "open", "written", "synced", "torn"}]
  /\ launch \in [Launch -> {Off} \cup
       [pc : {"read", "draw", "opened", "written", "synced", "up", "corrupt"},
        key : Key \cup {NoKey}]]

KeyInit ==
  /\ named = NoKey /\ durable = {NoKey}
  /\ file = [k \in Key |-> "absent"]
  /\ launch = [p \in Launch |-> Off]

-----------------------------------------------------------------------------
(* loadOrCreateIdentity(path, kind)                                        *)

Goto(p, pc, key) == launch' = [launch EXCEPT ![p] = [pc |-> pc, key |-> key]]

\* existsSync(path)
Look(p) ==
  /\ launch[p] = Off
  /\ Goto(p, IF named # NoKey THEN "read" ELSE "draw", NoKey)
  /\ UNCHANGED <<named, durable, file>>

\* the bytes under the name must be 32 and not all zero
Load(p) ==
  /\ launch[p].pc = "read"
  /\ IF file[named] \in {"written", "synced"} THEN Goto(p, "up", named)
     ELSE Goto(p, "corrupt", NoKey)
  /\ UNCHANGED <<named, durable, file>>

\* randomBytes, and open with "wx" of a name nobody else has
OpenTemp(p) ==
  /\ launch[p].pc = "draw"
  /\ \E key \in Key :
       /\ file[key] = "absent"
       /\ file' = [file EXCEPT ![key] = "open"]
       /\ Goto(p, "opened", key)
  /\ UNCHANGED <<named, durable>>

WriteTemp(p) ==
  /\ launch[p].pc = "opened"
  /\ file' = [file EXCEPT ![launch[p].key] = "written"]
  /\ Goto(p, "written", launch[p].key)
  /\ UNCHANGED <<named, durable>>

SyncTemp_Skipped(p) ==
  /\ launch[p].pc = "written"
  /\ Goto(p, "synced", launch[p].key)
  /\ UNCHANGED <<named, durable, file>>

SyncTemp(p) ==
  /\ launch[p].pc = "written"
  /\ file' = [file EXCEPT ![launch[p].key] = "synced"]
  /\ Goto(p, "synced", launch[p].key)
  /\ UNCHANGED <<named, durable>>

\* rename over whatever has the name by now; the caller gets the key drawn
\* here, also when another process renames its own over it afterwards
RenameTemp(p) ==
  LET key == launch[p].key
  IN /\ launch[p].pc = "synced"
     /\ named' = key
     /\ durable' = durable \cup {key}
     /\ Goto(p, "up", key)
     /\ UNCHANGED file

-----------------------------------------------------------------------------
(* The machine.                                                            *)

\* a process ends or is killed, or a call of the file system throws; the
\* temporary file stays
Ends(p) ==
  /\ launch[p] # Off
  /\ launch' = [launch EXCEPT ![p] = Off]
  /\ UNCHANGED <<named, durable, file>>

\* the caches are lost: each rename since the last failure may or may not
\* have reached the disk, and so may bytes that were never synced
PowerFails ==
  /\ \E name \in durable : named' = name /\ durable' = {name}
  /\ \E kept \in SUBSET {k \in Key : file[k] = "written"} :
       file' = [k \in Key |->
         IF k \in kept THEN "synced"
         ELSE IF file[k] \in {"open", "written"} THEN "torn" ELSE file[k]]
  /\ launch' = [p \in Launch |-> Off]

KeyNext ==
  \/ \E p \in Launch :
       Look(p) \/ Load(p) \/ OpenTemp(p) \/ WriteTemp(p) \/ SyncTemp(p) \/ RenameTemp(p) \/ Ends(p)
  \/ PowerFails

KeySpec == KeyInit /\ [][KeyNext]_keyVars

-----------------------------------------------------------------------------
(* What the files promise.                                                 *)

(* No start of the application ever ends in a CorruptIdentityError ("a     *)
(* malformed existing file is a hard error", node-key.ts:40, and would     *)
(* stay one for ever), and none that reads the file gets bytes that a      *)
(* failure of the power could still take away: whenever processes are      *)
(* killed or the power fails, and however many create the file at once,    *)
(* the name denotes no file or a whole one.                                *)
NeverCorrupt ==
  /\ \A p \in Launch : launch[p].pc # "corrupt"
  /\ \A p \in Launch : launch[p].pc = "up" => file[launch[p].key] = "synced"
  /\ \A name \in durable \ {NoKey} : file[name] = "synced"
=============================================================================
