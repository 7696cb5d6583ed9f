----------------------------- MODULE DialTarget -----------------------------
(***************************************************************************)
(* How the phone makes one dial target of the candidates it knows for a    *)
(* desktop: normalizeAddress, normalizeCandidate and normalizeCandidates   *)
(* of packages/react-native-app/src/transport-adapter.ts.  All three are   *)
(* pure; throwing is the predicate Accepts being false.                    *)
(*                                                                         *)
(* The text of an address is its kind and its meaning: the scheme prefixes *)
(* that normalizeAddress strips ("ip:", "relay:", ...) only select a kind. *)
(***************************************************************************)
EXTENDS Integers, Sequences, FiniteSets, Functions

CONSTANTS
  NoId,          \* an identity of blanks
  NoRelay        \* relayUrl: null

Bad        == [kind |-> "bad"]
SocketAt(s) == [kind |-> "socket", at |-> s]
RelayAt(r)  == [kind |-> "relay", at |-> r]
TicketOf(t) == [kind |-> "ticket", at |-> t]
NoAddress  == [kind |-> "none"]
\* a JSON ticket: the node it names, the list of its addresses, its field "relay"
JsonOf(id, addrs, relay) ==
  [kind |-> "json", id |-> id, addrs |-> addrs, relay |-> relay]

\* normalizeAddress returns, and does not throw
Dialable(address) == address.kind # "bad"

\* where the list of a JSON ticket has the addresses of a kind
Listed(json, kind) == {i \in DOMAIN json.addrs : json.addrs[i].kind = kind}

\* normalizeCandidate returns, and does not throw.  The field "relay" is only
\* read when no address of the list is a relay.
Normalizes(c) ==
  /\ c.id # NoId
  /\ Dialable(c.address)
  /\ c.address.kind = "json" =>
       /\ c.address.id = c.id
       /\ c.address.addrs # <<>>
       /\ \A i \in DOMAIN c.address.addrs : Dialable(c.address.addrs[i])
       /\ Listed(c.address, "relay") = {} => Dialable(c.address.relay)

\* The sockets and the relay, if any, of a candidate without a ticket.
Sockets_IgnoresJson(c) == IF c.address.kind = "socket" THEN {c.address.at} ELSE {}

Sockets(c) ==
  CASE c.address.kind = "socket" -> {c.address.at}
    [] c.address.kind = "json"   -> {c.address.addrs[i].at : i \in Listed(c.address, "socket")}
    [] OTHER                     -> {}

\* addresses.find(isRelay)
FirstRelay(json) ==
  json.addrs[CHOOSE i \in Listed(json, "relay") : \A j \in Listed(json, "relay") : i <= j]

Relays(c) ==
  CASE c.address.kind = "relay" -> {c.address.at}
    [] c.address.kind = "json"  ->
         IF Listed(c.address, "relay") # {} THEN {FirstRelay(c.address).at}
         ELSE IF c.address.relay = NoAddress THEN {} ELSE {c.address.relay.at}
    [] OTHER                    -> {}

-----------------------------------------------------------------------------
(* normalizeCandidates(candidates)                                         *)

Tickets(cs)    == {c.address.at : c \in {d \in Range(cs) : d.address.kind = "ticket"}}
AllSockets(cs) == UNION {Sockets(c) : c \in Range(cs)}
AllRelays(cs)  == UNION {Relays(c) : c \in Range(cs)}

\* The relay of the candidate with the highest priority, the first of equals.
PreferredRelay(cs) ==
  LET with   == {i \in DOMAIN cs : Relays(cs[i]) # {}}
      before(i, j) == \/ cs[i].priority > cs[j].priority
                      \/ cs[i].priority = cs[j].priority /\ i <= j
      first  == CHOOSE i \in with : \A j \in with : before(i, j)
  IN IF with = {} THEN NoRelay ELSE CHOOSE r \in Relays(cs[first]) : TRUE

Accepts(cs) ==
  /\ cs # <<>>
  /\ Cardinality({c.id : c \in Range(cs)}) = 1
  /\ \A c \in Range(cs) : Normalizes(c)
  /\ Cardinality(Tickets(cs)) <= 1
  /\ Tickets(cs) = {} =>
       /\ Cardinality(AllRelays(cs)) <= 1
       /\ AllSockets(cs) # {} \/ AllRelays(cs) # {}

Target(cs) ==
  IF Tickets(cs) # {}
  THEN [ticket |-> CHOOSE t \in Tickets(cs) : TRUE]
  ELSE [node |-> cs[1].id, sockets |-> AllSockets(cs), relay |-> PreferredRelay(cs)]

-----------------------------------------------------------------------------
(* What is asked of a target made of an accepted list.                     *)

Reversed(cs) == [i \in DOMAIN cs |-> cs[Len(cs) + 1 - i]]

\* The list read backwards is accepted as well, and gives the same target.
OrderIrrelevant(cs) ==
  Accepts(Reversed(cs)) /\ Target(Reversed(cs)) = Target(cs)

\* Every address offered, in JSON tickets too
Offered(cs) ==
  LET jsons == {c \in Range(cs) : c.address.kind = "json"}
  IN {c.address : c \in Range(cs)} \cup UNION {Range(c.address.addrs) : c \in jsons}

\* The target is the ticket offered, if there is one, and nothing else; or it
\* holds every socket offered and no other, and the relay of every candidate:
\* that is the first of a JSON ticket (Relays), whose further relays are not
\* asked for here.
HintsKept(cs, target) ==
  /\ \A t \in Tickets(cs) : target = [ticket |-> t]
  /\ Tickets(cs) = {} =>
       /\ target.node \in {c.id : c \in Range(cs)}
       /\ target.sockets = {a.at : a \in {b \in Offered(cs) : b.kind = "socket"}}
       /\ \A c \in Range(cs) : Relays(c) \subseteq {target.relay}
=============================================================================
