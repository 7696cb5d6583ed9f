-------------------------- MODULE OneUseInvitation --------------------------
(***************************************************************************)
(* What a desktop promises about the invitations it displays: an           *)
(* invitation is offered once, it is redeemed by at most one peer while it *)
(* is open, and once it is redeemed or void nothing changes it again.      *)
(* ("pairing references are server-side and consumed exactly once",        *)
(* packages/electron-app/src/secure-pairing.ts:16.)                        *)
(***************************************************************************)
CONSTANTS
  Ref,      \* the references invitations may carry
  Peer,     \* the peers that may redeem one
  NoPeer    \* the holder of an invitation nobody has redeemed

VARIABLES
  fate,     \* what became of each reference
  holder    \* who redeemed it

vars == <<fate, holder>>

Fate == {"unused", "open", "redeemed", "void"}

TypeOK ==
  /\ fate \in [Ref -> Fate]
  /\ holder \in [Ref -> Peer \cup {NoPeer}]

Init ==
  /\ fate = [r \in Ref |-> "unused"]
  /\ holder = [r \in Ref |-> NoPeer]

Offer(r) ==
  /\ fate[r] = "unused"
  /\ fate' = [fate EXCEPT ![r] = "open"]
  /\ UNCHANGED holder

Redeem(r, p) ==
  /\ fate[r] = "open"
  /\ fate' = [fate EXCEPT ![r] = "redeemed"]
  /\ holder' = [holder EXCEPT ![r] = p]

\* Invitations run out, are withdrawn, or never reach the display.
Void(S) ==
  /\ \A r \in S : fate[r] \in {"unused", "open"}
  /\ fate' = [r \in Ref |-> IF r \in S THEN "void" ELSE fate[r]]
  /\ UNCHANGED holder

Next ==
  \/ \E r \in Ref : Offer(r)
  \/ \E r \in Ref, p \in Peer : Redeem(r, p)
  \/ \E S \in SUBSET Ref : Void(S)

Spec == Init /\ [][Next]_vars

=============================================================================
