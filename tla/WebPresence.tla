----------------------------- MODULE WebPresence -----------------------------
(***************************************************************************)
(* WebPresenceCore (packages/web-presence/src/core.ts): concurrent         *)
(* requests of a web service on the stores of memory.ts.                   *)
(*                                                                         *)
(* A store may be asynchronous, so every call of one is a step of its own, *)
(* and requests interleave between them; a call itself is atomic, as       *)
(* SECURITY.md asks of production stores.  The limiter answers at once.    *)
(* A request that the route, the codec, the size, a forbidden key or the   *)
(* limiter rejects has changed nothing and is no step; one that fails      *)
(* after the limiter has counted it is.                                    *)
(***************************************************************************)
EXTENDS Integers, Sequences, FiniteSets, FiniteSetsExt, JsMap

CONSTANTS
  Putter, Getter,    \* calls of putPresence and of getPresence
  Writer, Reader,    \* calls of putSignaling and of getSignaling
  Identity, Session,
  Record,            \* what clients sign and send: dates, number of candidates,
                     \* size, and whether no forbidden key is in it
  MaxTtl, MaxSkew,   \* maxTtlMs, maxClockSkewMs
  MaxCandidates,     \* maxCandidates
  MaxRecordBytes,    \* maxPresenceBytes, maxSignalingBytes
  Limit,             \* requests per window: of "put", "get", "signal", "signal-get"
  Window,            \* rateWindowMs
  SessionCap,        \* maxSignalingPerSession
  StoreCap,          \* 200, memory.ts:49
  MaxDeletes,        \* maxDeletesPerRequest
  MaxClock           \* bound on the clock

ASSUME WebAssumption ==
  /\ {MaxTtl, MaxSkew, MaxCandidates, SessionCap, StoreCap, MaxDeletes, MaxClock} \subseteq Nat
  /\ Record \subseteq
       [issued : Nat, expires : Nat, candidates : Nat, size : Nat, clean : BOOLEAN]
  /\ MaxRecordBytes \in [{"presence", "signaling"} -> Nat]
  /\ Window \in Nat \ {0}
  /\ Limit \in [{"put", "get", "signal", "signal-get"} -> Nat \ {0}]

\* A call is of one kind, and at any time there are finitely many.
ASSUME RequestAssumption ==
  /\ IsFiniteSet(Writer) /\ Writer # {}
  /\ Putter \cap (Getter \cup Writer \cup Reader) = {}
  /\ Getter \cap (Writer \cup Reader) = {}
  /\ Writer \cap Reader = {}

VARIABLES
  clock,
  records,    \* MemoryPresenceStore.records: identity -> its record
  signals,    \* MemorySignalingStore.records: session -> its records, in order
  buckets,    \* MemoryRateLimiter.buckets
  request,    \* where each call stands
  published,  \* history: the presence records that were accepted
  allowed     \* history: when the limiter let a request of a key through

webVars == <<clock, records, signals, buckets, request, published, allowed>>

Request == Putter \cup Getter \cup Writer \cup Reader
Time    == 0 .. MaxClock
LimiterKey == ({"put", "get"} \X Identity) \cup ({"signal", "signal-get"} \X Session)

None == [pc |-> "none"]

WebTypeOK ==
  /\ clock \in Time
  /\ IsMapOf(records, Identity, Record)
  /\ IsMapOf(signals, Session, Seq(Record))
  /\ IsMapOf(buckets, LimiterKey, [start : Time, count : Nat])
  /\ published \subseteq Identity \X Record
  /\ allowed \in [LimiterKey -> Seq(Time)]

WebInit ==
  /\ clock = 0
  /\ records = EmptyMap /\ signals = EmptyMap /\ buckets = EmptyMap
  /\ request = [q \in Request |-> None]
  /\ published = {}
  /\ allowed = [key \in LimiterKey |-> <<>>]

-----------------------------------------------------------------------------
(* allow(kind, subject) and MemoryRateLimiter.consume                      *)

Bucket_EveryTick(key) ==
  IF key \notin DOMAIN buckets \/ clock > buckets[key].start
  THEN [start |-> clock, count |-> 0] ELSE buckets[key]

Bucket(key) ==
  IF key \notin DOMAIN buckets \/ clock - buckets[key].start >= Window
  THEN [start |-> clock, count |-> 0] ELSE buckets[key]

Allow(kind, subject) ==
  LET key == <<kind, subject>>
  IN /\ Bucket(key).count < Limit[kind]
     /\ buckets' = MapSet(buckets, key, [Bucket(key) EXCEPT !.count = @ + 1])
     /\ allowed' = [allowed EXCEPT ![key] = Append(@, clock)]

\* bodySize(value, signaling), hasForbiddenKey(value)
Admissible(record, kind) == record.size <= MaxRecordBytes[kind] /\ record.clean

\* validate(meta): a record may be from a clock that is ahead or behind
InTime(record) ==
  /\ record.expires > record.issued
  /\ record.expires - record.issued <= MaxTtl
  /\ record.issued <= clock + MaxSkew
  /\ record.expires > clock - MaxSkew

Answer(q) == request' = [request EXCEPT ![q] = None]

-----------------------------------------------------------------------------
(* Presence.                                                               *)

\* putPresence up to its await, for the identity of the route: the limiter
\* has counted, for the one who signed, a request that validate() rejects
PutPresence(q) ==
  /\ request[q] = None
  /\ \E id, expected \in Identity, record \in Record :
       /\ Admissible(record, "presence")
       /\ Allow("put", id)
       /\ request' = [request EXCEPT ![q] =
            IF id = expected /\ InTime(record) /\ record.candidates <= MaxCandidates
            THEN [pc |-> "put", identity |-> id, record |-> record] ELSE None]
  /\ UNCHANGED <<clock, records, signals, published>>

\* MemoryPresenceStore.putIfNewer
Newer_Unchecked(id, record) == TRUE

Newer(id, record) == id \in DOMAIN records => record.issued > records[id].issued

PutIfNewer(q) ==
  LET id == request[q].identity
      record == request[q].record
  IN /\ request[q].pc = "put"
     /\ IF Newer(id, record)
        THEN /\ records' = MapSet(records, id, record)
             /\ published' = published \cup {<<id, record>>}
        ELSE UNCHANGED <<records, published>>
     /\ Answer(q)
     /\ UNCHANGED <<clock, signals, buckets, allowed>>

GetPresence(q) ==
  /\ request[q] = None
  /\ \E id \in Identity :
       /\ Allow("get", id)
       /\ request' = [request EXCEPT ![q] = [pc |-> "sweep", now |-> clock]]
  /\ UNCHANGED <<clock, records, signals, published>>

\* MemoryPresenceStore.deleteExpired, then get: what is read is only answered
SweepRecords(q) ==
  LET gone == {id \in DOMAIN records : records[id].expires <= request[q].now}
  IN /\ request[q].pc = "sweep"
     /\ \E ids \in SUBSET gone :
          /\ Cardinality(ids) = Min({Cardinality(gone), MaxDeletes})
          /\ records' = MapDelete(records, ids)
     /\ Answer(q)
     /\ UNCHANGED <<clock, signals, buckets, published, allowed>>

-----------------------------------------------------------------------------
(* Signaling.                                                              *)

Held(session) == IF session \in DOMAIN signals THEN signals[session] ELSE <<>>

Live(session, now) == {i \in DOMAIN Held(session) : Held(session)[i].expires > now}

\* putSignaling up to its first await: validate() comes before the limiter
PutSignaling(q) ==
  /\ request[q] = None
  /\ \E session \in Session, record \in Record :
       /\ Admissible(record, "signaling")
       /\ InTime(record)
       /\ Allow("signal", session)
       /\ request' = [request EXCEPT ![q] =
            [pc |-> "sweep", session |-> session, record |-> record, now |-> clock]]
  /\ UNCHANGED <<clock, records, signals, published>>

GetSignaling(q) ==
  /\ request[q] = None
  /\ \E session \in Session :
       /\ Allow("signal-get", session)
       /\ request' = [request EXCEPT ![q] = [pc |-> "sweep", session |-> session, now |-> clock]]
  /\ UNCHANGED <<clock, records, signals, published>>

\* Array.filter: what a list has at some places, in its order
Filter(list, places) ==
  [n \in 1 .. Cardinality(places) |->
    list[CHOOSE i \in places : Cardinality({j \in places : j <= i}) = n]]

\* MemorySignalingStore.deleteExpired: session by session, until enough are
\* gone; a reader's list is only answered
SweepSignals(q) ==
  LET now == request[q].now
      expired(s) == {s} \X (DOMAIN signals[s] \ Live(s, now))
  IN /\ request[q].pc = "sweep"
     /\ \E swept \in SUBSET DOMAIN signals :
          /\ swept = DOMAIN signals \/ Cardinality(UNION {expired(s) : s \in swept}) >= MaxDeletes
          /\ signals' = [s \in DOMAIN signals \ {s \in swept : Live(s, now) = {}} |->
               IF s \in swept THEN Filter(signals[s], Live(s, now)) ELSE signals[s]]
     /\ IF q \in Writer THEN request' = [request EXCEPT ![q].pc = "list"] ELSE Answer(q)
     /\ UNCHANGED <<clock, records, buckets, published, allowed>>

\* list(), and the check of the cap
HasRoomFor_OneMore(q) == Cardinality(Live(request[q].session, request[q].now)) <= SessionCap

HasRoomFor(q) == Cardinality(Live(request[q].session, request[q].now)) < SessionCap

ListSignals(q) ==
  /\ request[q].pc = "list"
  /\ IF HasRoomFor(q) THEN request' = [request EXCEPT ![q].pc = "append"] ELSE Answer(q)
  /\ UNCHANGED <<clock, records, signals, buckets, published, allowed>>

\* MemorySignalingStore.append: a full list loses its first
AppendSignal(q) ==
  LET held == Held(request[q].session)
      kept == IF Len(held) >= StoreCap /\ held # <<>> THEN Tail(held) ELSE held
  IN /\ request[q].pc = "append"
     /\ signals' = MapSet(signals, request[q].session, Append(kept, request[q].record))
     /\ Answer(q)
     /\ UNCHANGED <<clock, records, buckets, published, allowed>>

WebTick ==
  /\ clock < MaxClock
  /\ clock' = clock + 1
  /\ UNCHANGED <<records, signals, buckets, request, published, allowed>>

\* createPresenceRoute: GET is one call of the service, PUT and POST are the
\* other, another method is none
PresenceStep ==
  \/ \E q \in Putter : PutPresence(q) \/ PutIfNewer(q)
  \/ \E q \in Getter : GetPresence(q) \/ SweepRecords(q)

\* createSignalingRoute
SignalingStep ==
  \/ \E q \in Writer : PutSignaling(q) \/ ListSignals(q) \/ AppendSignal(q)
  \/ \E q \in Reader : GetSignaling(q)
  \/ \E q \in Writer \cup Reader : SweepSignals(q)

WebNext == PresenceStep \/ SignalingStep \/ WebTick

WebSpec == WebInit /\ [][WebNext]_webVars

-----------------------------------------------------------------------------
(* What the service promises.                                              *)

(* A record that was accepted and has not run out is there, or a newer one *)
(* is, unless a newer one has run out: an older record comes back only     *)
(* then.  (It does come back: deleteExpired forgets the newer date, and    *)
(* putIfNewer has nothing left to compare with.)                           *)
NewestStands ==
  \A p \in published :
    LET id == p[1]
    IN \/ p[2].expires <= clock
       \/ id \in DOMAIN records /\ records[id].issued >= p[2].issued
       \/ \E n \in published :
            n[1] = id /\ n[2].issued > p[2].issued /\ n[2].expires <= clock

(* "this check prevents unbounded growth" (core.ts:116): the cap of a      *)
(* session is read before the write it guards, with awaits between, so it  *)
(* can be passed, but by no more than the other writers at work.           *)
SignalingBounded ==
  \A session \in Session :
    Cardinality(Live(session, clock)) <= SessionCap + Cardinality(Writer) - 1

(* In no interval as long as a window are twice the requests of one window *)
(* let through, wherever the windows of the bucket begin.                  *)
RateKept ==
  \A key \in LimiterKey : \A i, j \in DOMAIN allowed[key] :
    i <= j /\ allowed[key][j] - allowed[key][i] < Window => j - i + 1 < 2 * Limit[key[1]]
=============================================================================
