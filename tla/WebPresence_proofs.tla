-------------------------- MODULE WebPresence_proofs -------------------------
(***************************************************************************)
(* Theorems about WebPresence, for any number of calls, identities and     *)
(* sessions, and any limits.  Four invariants carry them: what a call      *)
(* remembers while it waits for a store, what became of each accepted      *)
(* record, how many writers are about to append, and where the windows of  *)
(* the limiter lie.                                                        *)
(***************************************************************************)
EXTENDS WebPresence, DataLemmas, FiniteSetTheorems, TLAPS

-----------------------------------------------------------------------------
(* WebPresence: what each call remembers.                                  *)

OfPutter == [pc : {"put"}, identity : Identity, record : Record]
OfGetter == [pc : {"sweep"}, now : Time]
OfWriter ==
  [pc : {"sweep", "list", "append"}, session : Session, record : Record, now : Time]
OfReader == [pc : {"sweep"}, session : Session, now : Time]

Remembers(q, r) ==
  /\ q \in Putter => r \in OfPutter
  /\ q \in Getter => r \in OfGetter
  /\ q \in Writer => r \in OfWriter
  /\ q \in Reader => r \in OfReader
  /\ q \notin Putter => r.now <= clock

RequestInv ==
  /\ clock \in Time
  /\ request = [q \in Request |-> request[q]]
  /\ \A q \in Request : request[q] = None \/ Remembers(q, request[q])

(* No step leaves a call remembering a time still to come.                 *)
LEMMA RequestStep ==
  ASSUME RequestInv, [WebNext]_webVars
  PROVE  RequestInv'
<1> USE DEF Request
<1>1. CASE UNCHANGED <<clock, request>>
  BY <1>1 DEF RequestInv, Remembers
<1>2. ASSUME NEW q \in Request, NEW r, r = None \/ Remembers(q, r),
             request' = [request EXCEPT ![q] = r], UNCHANGED clock
      PROVE  RequestInv'
  BY <1>2 DEF RequestInv, Remembers
<1>3. ASSUME NEW q \in Request, Answer(q), UNCHANGED clock PROVE RequestInv'
  BY <1>2, <1>3 DEF Answer
<1>4. clock \in Time /\ clock <= clock
  BY WebAssumption DEF RequestInv, Time
<1>5. ASSUME NEW q \in Putter, PutPresence(q) PROVE RequestInv'
  <2>1. PICK id, record, r :
          /\ id \in Identity /\ record \in Record
          /\ request' = [request EXCEPT ![q] = r]
          /\ r = None \/ r = [pc |-> "put", identity |-> id, record |-> record]
    BY <1>5 DEF PutPresence
  <2>2. r = None \/ Remembers(q, r)
    BY <2>1, RequestAssumption DEF Remembers, OfPutter
  <2> QED
    BY <1>2, <1>5, <2>1, <2>2 DEF PutPresence
<1>6. ASSUME NEW q \in Getter, GetPresence(q) PROVE RequestInv'
  <2>1. Remembers(q, [pc |-> "sweep", now |-> clock])
    BY <1>4, RequestAssumption DEF Remembers, OfGetter
  <2> QED
    BY <1>2, <1>6, <2>1 DEF GetPresence
<1>7. ASSUME NEW q \in Writer, PutSignaling(q) PROVE RequestInv'
  <2>1. PICK session \in Session, record \in Record :
          request' = [request EXCEPT ![q] =
            [pc |-> "sweep", session |-> session, record |-> record, now |-> clock]]
    BY <1>7 DEF PutSignaling
  <2>2. Remembers(q, [pc |-> "sweep", session |-> session, record |-> record, now |-> clock])
    BY <1>4, RequestAssumption DEF Remembers, OfWriter
  <2> QED
    BY <1>2, <1>7, <2>1, <2>2 DEF PutSignaling
<1>8. ASSUME NEW q \in Reader, GetSignaling(q) PROVE RequestInv'
  <2>1. PICK session \in Session :
          request' = [request EXCEPT ![q] = [pc |-> "sweep", session |-> session, now |-> clock]]
    BY <1>8 DEF GetSignaling
  <2>2. Remembers(q, [pc |-> "sweep", session |-> session, now |-> clock])
    BY <1>4, RequestAssumption DEF Remembers, OfReader
  <2> QED
    BY <1>2, <1>8, <2>1, <2>2 DEF GetSignaling
<1>9. ASSUME NEW q \in Writer, request[q].pc \in {"sweep", "list"}, UNCHANGED clock,
             NEW p \in {"list", "append"}, request' = [request EXCEPT ![q].pc = p]
      PROVE  RequestInv'
  <2>1. Remembers(q, request[q])
    BY <1>9 DEF RequestInv, None
  <2>2. PICK r : r = [request[q] EXCEPT !.pc = p]
    OBVIOUS
  <2>3. Remembers(q, r)
    BY <2>1, <2>2, RequestAssumption DEF Remembers, OfWriter
  <2>4. request' = [request EXCEPT ![q] = r]
    BY <1>9, <2>2
  <2> QED
    BY <1>2, <1>9, <2>3, <2>4
<1>10. ASSUME NEW q \in Writer \cup Reader, SweepSignals(q) PROVE RequestInv'
  <2>1. CASE q \in Writer
    BY <1>9, <1>10, <2>1 DEF SweepSignals
  <2>2. CASE q \notin Writer
    BY <1>3, <1>10, <2>2 DEF SweepSignals
  <2> QED
    BY <2>1, <2>2
<1>11. ASSUME NEW q \in Writer, ListSignals(q) PROVE RequestInv'
  BY <1>3, <1>9, <1>11 DEF ListSignals
<1>12. ASSUME NEW q \in Request, PutIfNewer(q) \/ SweepRecords(q) \/ AppendSignal(q)
       PROVE  RequestInv'
  BY <1>3, <1>12 DEF PutIfNewer, SweepRecords, AppendSignal
<1>13. CASE WebTick
  <2>1. clock' \in Time /\ clock' = clock + 1 /\ request' = request /\ clock \in Nat
    BY <1>4, <1>13, WebAssumption DEF WebTick, Time
  <2>2. ASSUME NEW q \in Request, request[q] # None PROVE Remembers(q, request[q])'
    <3>1. q \notin Putter => request[q].now \in Nat /\ request[q].now <= clock
      BY <2>2 DEF RequestInv, Remembers, OfGetter, OfWriter, OfReader, Time
    <3> QED
      BY <2>1, <2>2, <3>1 DEF RequestInv, Remembers
  <2> QED
    BY <2>1, <2>2 DEF RequestInv
<1> QED
  BY <1>1, <1>5, <1>6, <1>7, <1>8, <1>10, <1>11, <1>12, <1>13
     DEF WebNext, PresenceStep, SignalingStep, webVars

-----------------------------------------------------------------------------
(* Presence: an accepted record stands, or gave way to a newer one.  A     *)
(* record that stands has the date of the accepted one or a later one; if  *)
(* it is of the same date it is the same record, so that the sweep cannot  *)
(* take it earlier than the accepted one runs out.                         *)

Gone(p) ==
  \E n \in published : n[1] = p[1] /\ n[2].issued > p[2].issued /\ n[2].expires <= clock

Stands(p) ==
  p[1] \in DOMAIN records /\ (records[p[1]] = p[2] \/ records[p[1]].issued > p[2].issued)

PresenceInv ==
  /\ IsMapOf(records, Identity, Record)
  /\ published \subseteq Identity \X Record
  /\ \A id \in DOMAIN records : <<id, records[id]>> \in published
  /\ \A p \in published : p[2].expires <= clock \/ Gone(p) \/ Stands(p)

(* A newer record takes the place of one in the store; a sweep takes away  *)
(* what has run out and so was accepted.                                   *)
LEMMA PresenceStepInv ==
  ASSUME RequestInv, PresenceInv, [WebNext]_webVars
  PROVE  PresenceInv'
<1> USE WebAssumption DEF Time
<1>1. CASE UNCHANGED <<clock, records, published>>
  BY <1>1 DEF PresenceInv, Gone, Stands
<1>2. ASSUME NEW q \in Putter, PutIfNewer(q) PROVE PresenceInv'
  <2> DEFINE id == request[q].identity
             record == request[q].record
  <2>1. id \in Identity /\ record \in Record /\ clock' = clock
    BY <1>2 DEF PutIfNewer, RequestInv, None, Request, Remembers, OfPutter
  <2>2. CASE ~ Newer(id, record)
    BY <1>1, <1>2, <2>1, <2>2 DEF PutIfNewer
  <2>3. CASE Newer(id, record)
    <3>1. /\ records' = MapSet(records, id, record) /\ published' = published \cup {<<id, record>>}
          /\ DOMAIN records' = DOMAIN records \cup {id} /\ records'[id] = record
          /\ \A i \in DOMAIN records : i # id => records'[i] = records[i]
      BY <1>2, <2>3 DEF PutIfNewer, MapSet
    <3>2. IsMapOf(records', Identity, Record)
      BY <2>1, <3>1, MapSetType DEF PresenceInv
    <3>3. published' \subseteq Identity \X Record
      BY <2>1, <3>1 DEF PresenceInv
    <3>4. \A i \in DOMAIN records' : <<i, records'[i]>> \in published'
      BY <3>1 DEF PresenceInv
    <3>5. ASSUME NEW p \in published PROVE p[2].expires <= clock \/ Gone(p)' \/ Stands(p)'
      <4>1. CASE p[2].expires <= clock
        BY <4>1
      <4>2. CASE Gone(p)
        BY <2>1, <3>1, <4>2 DEF Gone
      <4>3. CASE Stands(p)
        <5>1. p \in Identity \X Record /\ p[2].issued \in Nat
          BY DEF PresenceInv
        <5>2. CASE p[1] # id
          BY <3>1, <4>3, <5>2 DEF Stands
        <5>3. CASE p[1] = id
          <6>1. id \in DOMAIN records /\ record.issued > records[id].issued
            BY <2>3, <4>3, <5>3 DEF Stands, Newer
          <6>2. records[id] \in Record
            BY <6>1 DEF PresenceInv, IsMapOf
          <6>3. records[id].issued \in Nat /\ record.issued \in Nat
            BY <2>1, <6>2
          <6>4. record.issued > p[2].issued
            BY <4>3, <5>1, <5>3, <6>1, <6>3 DEF Stands
          <6> QED
            BY <3>1, <5>3, <6>4 DEF Stands
        <5> QED
          BY <5>2, <5>3
      <4> QED
        BY <4>1, <4>2, <4>3 DEF PresenceInv
    <3>6. ASSUME NEW p, p = <<id, record>> PROVE Stands(p)'
      BY <3>1, <3>6 DEF Stands
    <3> HIDE DEF id, record
    <3>7. \A p \in published' : p[2].expires <= clock' \/ Gone(p)' \/ Stands(p)'
      BY <2>1, <3>1, <3>5, <3>6
    <3> QED
      BY <3>2, <3>3, <3>4, <3>7 DEF PresenceInv
  <2> QED
    BY <2>2, <2>3
<1>3. ASSUME NEW q \in Getter, SweepRecords(q) PROVE PresenceInv'
  <2> DEFINE gone == {id \in DOMAIN records : records[id].expires <= request[q].now}
  <2>1. PICK ids \in SUBSET gone : records' = MapDelete(records, ids)
    BY <1>3 DEF SweepRecords
  <2>2. /\ DOMAIN records' = DOMAIN records \ ids
        /\ \A id \in DOMAIN records' : records'[id] = records[id]
    BY <2>1 DEF MapDelete
  <2>3. UNCHANGED <<clock, published>> /\ request[q].now \in Time /\ request[q].now <= clock
    <3>1. request[q].pc = "sweep" /\ UNCHANGED <<clock, published>>
      BY <1>3 DEF SweepRecords
    <3>2. Remembers(q, request[q])
      BY <3>1 DEF RequestInv, None, Request
    <3> QED
      BY <3>1, <3>2, RequestAssumption DEF Remembers, OfGetter
  <2>4. IsMapOf(records', Identity, Record)
    BY <2>1, MapDeleteType DEF PresenceInv
  <2>5. ASSUME NEW id \in ids PROVE id \in DOMAIN records /\ records[id].expires <= clock
    <3>1. id \in DOMAIN records /\ records[id].expires <= request[q].now
      BY <2>1
    <3>2. records[id].expires \in Nat
      BY <3>1 DEF PresenceInv, IsMapOf
    <3> QED
      BY <2>3, <3>1, <3>2 DEF RequestInv
  <2>6. ASSUME NEW p \in published PROVE p[2].expires <= clock \/ Gone(p)' \/ Stands(p)'
    <3>1. CASE p[2].expires <= clock \/ Gone(p)
      BY <2>3, <3>1 DEF Gone
    <3>2. CASE Stands(p) /\ p[1] \notin ids
      BY <2>2, <3>2 DEF Stands
    <3>3. CASE Stands(p) /\ p[1] \in ids
      <4>1. <<p[1], records[p[1]]>> \in published /\ records[p[1]].expires <= clock
        BY <2>5, <3>3 DEF PresenceInv
      <4>2. CASE records[p[1]] = p[2]
        BY <4>1, <4>2
      <4>3. CASE records[p[1]].issued > p[2].issued
        BY <2>3, <4>1, <4>3 DEF Gone
      <4> QED
        BY <3>3, <4>2, <4>3 DEF Stands
    <3> QED
      BY <3>1, <3>2, <3>3 DEF PresenceInv
  <2> QED
    BY <2>2, <2>3, <2>4, <2>6 DEF PresenceInv
<1>4. CASE WebTick
  <2>1. UNCHANGED <<records, published>> /\ clock' = clock + 1 /\ clock \in Nat
    BY <1>4 DEF WebTick, RequestInv
  <2>2. \A p \in published : p[2].expires \in Nat
    BY DEF PresenceInv
  <2>3. \A p \in published : p[2].expires <= clock => p[2].expires <= clock'
    BY <2>1, <2>2
  <2>4. \A p \in published : Gone(p) => Gone(p)'
    BY <2>1, <2>3 DEF Gone
  <2> QED
    BY <2>1, <2>3, <2>4 DEF PresenceInv, Stands
<1>5. ASSUME NEW q \in Writer \cup Reader, SweepSignals(q) PROVE PresenceInv'
  BY <1>1, <1>5 DEF SweepSignals
<1>6. ASSUME NEW q, PutPresence(q) \/ GetPresence(q) \/ PutSignaling(q) \/ GetSignaling(q)
                    \/ ListSignals(q) \/ AppendSignal(q)
      PROVE  PresenceInv'
  BY <1>1, <1>6 DEF PutPresence, GetPresence, PutSignaling, GetSignaling, ListSignals, AppendSignal
<1> QED
  BY <1>1, <1>2, <1>3, <1>4, <1>5, <1>6 DEF WebNext, PresenceStep, SignalingStep, webVars

LEMMA NewestInv ==
  ASSUME PresenceInv
  PROVE  NewestStands
<1> SUFFICES ASSUME NEW p \in published, ~ (p[2].expires <= clock), ~ Gone(p)
             PROVE  p[1] \in DOMAIN records /\ records[p[1]].issued >= p[2].issued
  BY DEF NewestStands, Gone
<1>1. Stands(p) /\ p[2].issued \in Nat
  BY WebAssumption DEF PresenceInv
<1>2. records[p[1]] \in Record
  BY <1>1 DEF PresenceInv, Stands, IsMapOf
<1>3. records[p[1]].issued \in Nat
  BY <1>2, WebAssumption
<1> QED
  BY <1>1, <1>3 DEF Stands

-----------------------------------------------------------------------------
(* Signaling: lists, and how many records of them have not run out.        *)

(* Of n places in a list, one is the k-th.                                 *)
LEMMA RankedPlace ==
  ASSUME NEW N \in Nat, NEW S \in SUBSET (1 .. N), NEW k \in 1 .. Cardinality(S)
  PROVE  \E i \in S : Cardinality({j \in S : j <= i}) = k
<1> DEFINE upTo(m) == {j \in S : j <= m}
           T == {m \in Nat : Cardinality(upTo(m)) >= k}
<1>0. \A i \in S : i \in Nat /\ 1 <= i /\ i <= N
  OBVIOUS
<1>1. IsFiniteSet(1 .. N)
  BY FS_Interval
<1>2. IsFiniteSet(S) /\ Cardinality(S) \in Nat
  BY <1>1, FS_Subset, FS_CardinalityType
<1>3. ASSUME NEW m \in Nat PROVE IsFiniteSet(upTo(m)) /\ Cardinality(upTo(m)) \in Nat
  <2>1. upTo(m) \in SUBSET S
    OBVIOUS
  <2> QED
    BY <1>2, <2>1, FS_Subset, FS_CardinalityType
<1>4. N \in T
  <2>1. upTo(N) = S
    BY <1>0
  <2> QED
    BY <1>2, <2>1
<1>5. PICK n \in T : \A m \in T : n <= m
  <2>1. T \subseteq Nat /\ T # {}
    BY <1>4
  <2> HIDE DEF T
  <2> QED
    BY <2>1, LeastNatural
<1>6. n \in Nat /\ Cardinality(upTo(n)) >= k
  BY <1>5
<1>7. n # 0
  <2>1. upTo(0) = {}
    <3>1. \A j \in S : ~ (j <= 0)
      BY <1>0
    <3> QED
      BY <3>1
  <2>2. Cardinality(upTo(0)) = 0
    BY <2>1, FS_EmptySet
  <2> HIDE DEF upTo
  <2> QED
    BY <1>6, <2>2
<1>8. n - 1 \in Nat /\ ~ (Cardinality(upTo(n - 1)) >= k)
  <2>1. n - 1 \in Nat /\ n - 1 \notin T
    <3> HIDE DEF T
    <3> QED
      BY <1>5, <1>6, <1>7
  <2> QED
    BY <2>1
<1>9. upTo(n) = IF n \in S THEN upTo(n - 1) \cup {n} ELSE upTo(n - 1)
  <2>1. \A j \in S : j <= n <=> j = n \/ j <= n - 1
    BY <1>0, <1>6
  <2> QED
    BY <1>0, <1>6, <2>1
<1>10. n \notin upTo(n - 1)
  BY <1>6
<1> HIDE DEF upTo
<1>11. n \in S
  BY <1>6, <1>8, <1>9
<1>12. Cardinality(upTo(n)) = Cardinality(upTo(n - 1)) + 1
  BY <1>3, <1>8, <1>9, <1>10, <1>11, FS_AddElement
<1>13. Cardinality(upTo(n)) = k
  BY <1>2, <1>3, <1>6, <1>8, <1>12
<1> QED
  BY <1>11, <1>13 DEF upTo

(* The places of a list that hold a record which has not run out.          *)
LiveIn(list, now) == {i \in DOMAIN list : list[i].expires > now}

LEMMA LiveFinite ==
  ASSUME NEW V, NEW list \in Seq(V), NEW now
  PROVE  /\ LiveIn(list, now) \in SUBSET DOMAIN list
         /\ IsFiniteSet(LiveIn(list, now)) /\ Cardinality(LiveIn(list, now)) \in Nat
<1>1. DOMAIN list = 1 .. Len(list) /\ Len(list) \in Nat
  OBVIOUS
<1>2. IsFiniteSet(1 .. Len(list))
  BY <1>1, FS_Interval
<1> QED
  BY <1>1, <1>2, FS_Subset, FS_CardinalityType DEF LiveIn

(* A list each of whose records is at a place of its own in another list   *)
(* has no more records that have not run out.                              *)
LEMMA FewerLive ==
  ASSUME NEW V, NEW list \in Seq(V), NEW less \in Seq(V), NEW now,
         NEW f \in [DOMAIN less -> DOMAIN list],
         \A n \in DOMAIN less : less[n] = list[f[n]],
         \A m, n \in DOMAIN less : f[m] = f[n] => m = n
  PROVE  Cardinality(LiveIn(less, now)) <= Cardinality(LiveIn(list, now))
<1> DEFINE g == [n \in LiveIn(less, now) |-> f[n]]
<1>1. g \in Injection(LiveIn(less, now), LiveIn(list, now))
  BY DEF LiveIn, Injection, IsInjective
<1> QED
  BY <1>1, LiveFinite, FS_Injection

(* Array.filter makes a list of the same things, each from a place of its  *)
(* own: no more of them have not run out.                                  *)
LEMMA FilterLive ==
  ASSUME NEW V, NEW list \in Seq(V), NEW places \in SUBSET DOMAIN list, NEW now
  PROVE  /\ Filter(list, places) \in Seq(V)
         /\ Cardinality(LiveIn(Filter(list, places), now)) <= Cardinality(LiveIn(list, now))
<1> DEFINE N == Cardinality(places)
           place(n) == CHOOSE i \in places : Cardinality({j \in places : j <= i}) = n
           f == [n \in 1 .. N |-> place(n)]
<1>1. DOMAIN list = 1 .. Len(list) /\ Len(list) \in Nat
  OBVIOUS
<1>2. N \in Nat
  <2>1. IsFiniteSet(1 .. Len(list))
    BY <1>1, FS_Interval
  <2> QED
    BY <1>1, <2>1, FS_Subset, FS_CardinalityType
<1>3. ASSUME NEW n \in 1 .. N
      PROVE  place(n) \in places /\ Cardinality({j \in places : j <= place(n)}) = n
  <2>1. \E i \in places : Cardinality({j \in places : j <= i}) = n
    BY <1>1, RankedPlace
  <2> QED
    BY <2>1
<1> HIDE DEF place
<1>4. Filter(list, places) = [n \in 1 .. N |-> list[place(n)]]
  BY DEF Filter, place
<1>5. Filter(list, places) \in Seq(V)
  <2>1. \A n \in 1 .. N : place(n) \in DOMAIN list
    BY <1>3
  <2>2. \A n \in 1 .. N : list[place(n)] \in V
    BY <1>1, <2>1
  <2> HIDE DEF N
  <2> QED
    BY <1>2, <1>4, <2>2
<1>6. f \in [DOMAIN Filter(list, places) -> DOMAIN list] /\ DOMAIN f = 1 .. N
  BY <1>3, <1>4
<1>7. \A n \in DOMAIN f : Filter(list, places)[n] = list[f[n]]
  BY <1>4
<1>8. ASSUME NEW m \in DOMAIN f, NEW n \in DOMAIN f, f[m] = f[n] PROVE m = n
  <2>1. place(m) = place(n)
    BY <1>6, <1>8
  <2>2. /\ Cardinality({j \in places : j <= place(m)}) = m
        /\ Cardinality({j \in places : j <= place(n)}) = n
    BY <1>3, <1>6
  <2> QED
    BY <2>1, <2>2
<1>9. DOMAIN f = DOMAIN Filter(list, places)
  BY <1>6
<1> HIDE DEF f
<1>10. Cardinality(LiveIn(Filter(list, places), now)) <= Cardinality(LiveIn(list, now))
  BY <1>5, <1>6, <1>7, <1>8, <1>9, FewerLive
<1> QED
  BY <1>5, <1>10

(* Adding one record adds one at most that has not run out, whether the    *)
(* list was full or not.                                                   *)
LEMMA OneMoreLive ==
  ASSUME NEW V, NEW list \in Seq(V), NEW r \in V, NEW now
  PROVE  /\ Append(list, r) \in Seq(V)
         /\ Cardinality(LiveIn(Append(list, r), now)) <= Cardinality(LiveIn(list, now)) + 1
<1> DEFINE more == Append(list, r)
           last == Len(list) + 1
<1>1. /\ more \in Seq(V) /\ Len(list) \in Nat /\ DOMAIN list = 1 .. Len(list)
      /\ DOMAIN more = 1 .. Len(list) + 1 /\ \A i \in DOMAIN list : more[i] = list[i]
  OBVIOUS
<1>2. LiveIn(more, now) \in SUBSET (LiveIn(list, now) \cup {last})
  BY <1>1 DEF LiveIn
<1> HIDE DEF last, more
<1>3. /\ IsFiniteSet(LiveIn(list, now) \cup {last})
      /\ Cardinality(LiveIn(list, now) \cup {last}) <= Cardinality(LiveIn(list, now)) + 1
      /\ Cardinality(LiveIn(list, now) \cup {last}) \in Nat
  <2>1. IsFiniteSet(LiveIn(list, now)) /\ Cardinality(LiveIn(list, now)) \in Nat
    BY LiveFinite
  <2>2. Cardinality(LiveIn(list, now) \cup {last}) =
          IF last \in LiveIn(list, now) THEN Cardinality(LiveIn(list, now))
          ELSE Cardinality(LiveIn(list, now)) + 1
    BY <2>1, FS_AddElement
  <2>3. IsFiniteSet(LiveIn(list, now) \cup {last})
    BY <2>1, FS_AddElement
  <2> QED
    BY <2>1, <2>2, <2>3
<1>4. Cardinality(LiveIn(more, now)) <= Cardinality(LiveIn(list, now) \cup {last})
  BY <1>2, <1>3, FS_Subset
<1>5. Cardinality(LiveIn(more, now)) \in Nat /\ Cardinality(LiveIn(list, now)) \in Nat
  BY <1>1, LiveFinite
<1>6. Cardinality(LiveIn(more, now)) <= Cardinality(LiveIn(list, now)) + 1
  BY <1>3, <1>4, <1>5
<1> QED
  BY <1>1, <1>6 DEF more

(* A full list loses its first record: no more of them have not run out.   *)
LEMMA TailLive ==
  ASSUME NEW V, NEW list \in Seq(V), list # <<>>, NEW now
  PROVE  /\ Tail(list) \in Seq(V)
         /\ Cardinality(LiveIn(Tail(list), now)) <= Cardinality(LiveIn(list, now))
<1> DEFINE f == [i \in DOMAIN Tail(list) |-> i + 1]
<1>1. /\ Tail(list) \in Seq(V) /\ Len(list) \in Nat
      /\ DOMAIN Tail(list) = 1 .. Len(list) - 1 /\ DOMAIN list = 1 .. Len(list)
      /\ \A i \in 1 .. Len(list) - 1 : Tail(list)[i] = list[i + 1]
  OBVIOUS
<1>2. f \in [DOMAIN Tail(list) -> DOMAIN list]
  BY <1>1
<1>3. \A i \in DOMAIN Tail(list) : Tail(list)[i] = list[f[i]]
  BY <1>1
<1>4. \A i, j \in DOMAIN Tail(list) : f[i] = f[j] => i = j
  BY <1>1
<1> HIDE DEF f
<1> QED
  BY <1>1, <1>2, <1>3, <1>4, FewerLive

(* The writers that have seen room in a session and will append to it.     *)
Appending(s) == {q \in Writer : request[q].pc = "append" /\ request[q].session = s}

(* A record that has not run out, or a writer about to append one, is      *)
(* either among the first SessionCap or of one of the other writers.       *)
SignalInv ==
  /\ IsMapOf(signals, Session, Seq(Record))
  /\ \A s \in Session :
       Cardinality(Live(s, clock)) + Cardinality(Appending(s))
         <= SessionCap + Cardinality(Writer) - 1

LEMMA HeldList ==
  ASSUME SignalInv, NEW s \in Session, NEW now
  PROVE  /\ Held(s) \in Seq(Record) /\ Live(s, now) = LiveIn(Held(s), now)
         /\ IsFiniteSet(Live(s, now)) /\ Cardinality(Live(s, now)) \in Nat
<1>1. Held(s) \in Seq(Record)
  BY DEF SignalInv, IsMapOf, Held
<1>2. Live(s, now) = LiveIn(Held(s), now)
  BY DEF Live, LiveIn
<1> QED
  BY <1>1, <1>2, LiveFinite

LEMMA AppendingFinite ==
  /\ Cardinality(Writer) \in Nat /\ Cardinality(Writer) # 0 /\ SessionCap \in Nat
  /\ \A s : IsFiniteSet(Appending(s)) /\ Cardinality(Appending(s)) \in Nat
  /\ \A s : Cardinality(Appending(s)) <= Cardinality(Writer)
<1>1. \A s : Appending(s) \in SUBSET Writer
  BY DEF Appending
<1> QED
  BY <1>1, RequestAssumption, WebAssumption, FS_Subset, FS_CardinalityType, FS_EmptySet

(* A step that adds neither a record nor a writer about to append.         *)
LEMMA NoMoreSignals ==
  ASSUME SignalInv, IsMapOf(signals', Session, Seq(Record)),
         \A s \in Session : Cardinality(Live(s, clock))' <= Cardinality(Live(s, clock)),
         \A s \in Session : Cardinality(Live(s, clock))' \in Nat,
         \A s \in Session : Appending(s)' \subseteq Appending(s)
  PROVE  SignalInv'
<1>1. ASSUME NEW s \in Session
      PROVE  (Cardinality(Live(s, clock)) + Cardinality(Appending(s))
                <= SessionCap + Cardinality(Writer) - 1)'
  <2>1. Appending(s)' \in SUBSET Appending(s)
    OBVIOUS
  <2>2. Cardinality(Appending(s)') <= Cardinality(Appending(s)) /\ Cardinality(Appending(s)') \in Nat
    BY <2>1, AppendingFinite, FS_Subset, FS_CardinalityType
  <2>3. Cardinality(Live(s, clock)) + Cardinality(Appending(s)) <= SessionCap + Cardinality(Writer) - 1
    BY DEF SignalInv
  <2>4. /\ Cardinality(Live(s, clock)) \in Nat /\ Cardinality(Appending(s)) \in Nat
        /\ SessionCap \in Nat /\ Cardinality(Writer) \in Nat
    BY HeldList, AppendingFinite
  <2>5. Cardinality(Live(s, clock))' \in Nat /\ Cardinality(Live(s, clock))' <= Cardinality(Live(s, clock))
    OBVIOUS
  <2> QED
    BY <2>2, <2>3, <2>4, <2>5
<1> QED
  BY <1>1 DEF SignalInv

LEMMA SameSignals ==
  ASSUME SignalInv, UNCHANGED <<clock, signals>>,
         \A s \in Session : Appending(s)' \subseteq Appending(s)
  PROVE  SignalInv'
<1>1. \A s \in Session : Live(s, clock)' = Live(s, clock)
  BY DEF Live, Held
<1>2. \A s \in Session : Cardinality(Live(s, clock)) \in Nat
  BY HeldList
<1>3. \A s \in Session : Cardinality(Live(s, clock))' = Cardinality(Live(s, clock))
  BY <1>1
<1>4. IsMapOf(signals', Session, Seq(Record))
  BY DEF SignalInv
<1> QED
  BY <1>2, <1>3, <1>4, NoMoreSignals

(* Of a list that is swept, what has not run out stays.                    *)
LEMMA SweepSignalsKeeps ==
  ASSUME RequestInv, SignalInv, NEW q \in Writer \cup Reader, SweepSignals(q)
  PROVE  SignalInv'
<1>1. PICK now : now = request[q].now
  OBVIOUS
<1>2. PICK swept \in SUBSET DOMAIN signals :
        signals' = [s \in DOMAIN signals \ {s \in swept : Live(s, now) = {}} |->
          IF s \in swept THEN Filter(signals[s], Live(s, now)) ELSE signals[s]]
  BY <1>1 DEF SweepSignals
<1>3. /\ clock' = clock /\ q \in Request
      /\ \A r \in Writer : request'[r].pc = "append" =>
           request[r].pc = "append" /\ request'[r].session = request[r].session
  <2>1. clock' = clock /\ q \in Request /\ request[q].pc = "sweep"
    BY DEF SweepSignals, Request
  <2>2. \A r \in Request \ {q} : request'[r] = request[r]
    BY DEF SweepSignals, Answer, RequestInv
  <2>3. request'[q].pc # "append"
    <3>1. CASE q \in Writer
      <4>1. Remembers(q, request[q])
        BY <2>1 DEF RequestInv, None
      <4>2. request'[q] = [request[q] EXCEPT !.pc = "list"]
        BY <2>1, <3>1 DEF SweepSignals, RequestInv
      <4> QED
        BY <3>1, <4>1, <4>2 DEF Remembers, OfWriter
    <3>2. CASE q \notin Writer
      <4>1. request'[q] = None
        BY <2>1, <3>2 DEF SweepSignals, Answer, RequestInv
      <4> QED
        BY <4>1 DEF None
    <3> QED
      BY <3>1, <3>2
  <2> QED
    BY <2>1, <2>2, <2>3 DEF Request
<1>4. \A s \in Session : Appending(s)' \subseteq Appending(s)
  BY <1>3 DEF Appending
<1>5. ASSUME NEW s \in Session, s \in DOMAIN signals'
      PROVE  /\ signals'[s] \in Seq(Record)
             /\ Cardinality(LiveIn(signals'[s], clock)) <= Cardinality(LiveIn(Held(s), clock))
  <2>1. s \in DOMAIN signals /\ signals[s] \in Seq(Record) /\ Held(s) = signals[s]
    BY <1>2, <1>5, HeldList DEF Held
  <2>2. CASE s \notin swept
    <3>1. signals'[s] = signals[s]
      BY <1>2, <1>5, <2>2
    <3>2. Cardinality(LiveIn(Held(s), clock)) \in Nat
      BY <2>1, LiveFinite
    <3> QED
      BY <2>1, <3>1, <3>2
  <2>3. CASE s \in swept
    <3>1. signals'[s] = Filter(signals[s], Live(s, now))
      BY <1>2, <1>5, <2>3
    <3>2. Live(s, now) \in SUBSET DOMAIN signals[s]
      BY <2>1 DEF Live
    <3> QED
      BY <2>1, <3>1, <3>2, FilterLive
  <2> QED
    BY <2>2, <2>3
<1>6. IsMapOf(signals', Session, Seq(Record))
  <2>1. DOMAIN signals' \subseteq Session /\ signals' = [s \in DOMAIN signals' |-> signals'[s]]
    BY <1>2 DEF SignalInv, IsMapOf
  <2> QED
    BY <1>5, <2>1 DEF IsMapOf
<1>7. ASSUME NEW s \in Session
      PROVE  Cardinality(Live(s, clock))' \in Nat
             /\ Cardinality(Live(s, clock))' <= Cardinality(Live(s, clock))
  <2>1. Live(s, clock) = LiveIn(Held(s), clock) /\ Cardinality(Live(s, clock)) \in Nat
    BY HeldList
  <2>2. CASE s \in DOMAIN signals'
    <3>1. Live(s, clock)' = LiveIn(signals'[s], clock)
      BY <1>3, <2>2 DEF Live, Held, LiveIn
    <3>2. Cardinality(LiveIn(signals'[s], clock)) \in Nat
      BY <1>5, <2>2, LiveFinite
    <3> QED
      BY <1>5, <2>1, <2>2, <3>1, <3>2
  <2>3. CASE s \notin DOMAIN signals'
    <3>1. Live(s, clock)' = {}
      BY <2>3 DEF Live, Held
    <3>2. Cardinality(Live(s, clock))' = 0
      BY <3>1, FS_EmptySet
    <3> QED
      BY <2>1, <3>2
  <2> QED
    BY <2>2, <2>3
<1> QED
  BY <1>4, <1>6, <1>7, NoMoreSignals

(* A writer that sees room sees what has not run out by now, or more.      *)
LEMMA ListSignalsKeeps ==
  ASSUME RequestInv, SignalInv, NEW q \in Writer, ListSignals(q)
  PROVE  SignalInv'
<1>1. q \in Request /\ request[q].pc = "list" /\ UNCHANGED <<clock, signals>>
  BY DEF ListSignals, Request
<1>2. request[q].session \in Session /\ request[q].now \in Time /\ request[q].now <= clock
  <2>1. Remembers(q, request[q])
    BY <1>1 DEF RequestInv, None
  <2> QED
    BY <2>1, RequestAssumption DEF Remembers, OfWriter
<1>3. CASE ~ HasRoomFor(q)
  <2>1. \A r \in Writer : request'[r].pc = "append" =>
          request[r].pc = "append" /\ request'[r].session = request[r].session
    <3>1. request' = [request EXCEPT ![q] = None]
      BY <1>3 DEF ListSignals, Answer
    <3> QED
      BY <1>1, <3>1 DEF None, RequestInv, Request
  <2>2. \A s \in Session : Appending(s)' \subseteq Appending(s)
    BY <2>1 DEF Appending
  <2> QED
    BY <1>1, <2>2, SameSignals
<1>4. CASE HasRoomFor(q)
  <2> DEFINE t == request[q].session
  <2>1. request' = [request EXCEPT ![q].pc = "append"]
    BY <1>4 DEF ListSignals
  <2>2. \A r \in Writer \ {q} : request'[r] = request[r]
    BY <2>1 DEF RequestInv
  <2>3. request'[q].session = t
    <3>1. request[q] \in OfWriter
      BY <1>1 DEF RequestInv, None, Remembers
    <3>2. request'[q] = [request[q] EXCEPT !.pc = "append"]
      BY <1>1, <2>1 DEF RequestInv
    <3> QED
      BY <3>1, <3>2 DEF OfWriter
  <2>4. ASSUME NEW s \in Session
        PROVE  (Cardinality(Live(s, clock)) + Cardinality(Appending(s))
                  <= SessionCap + Cardinality(Writer) - 1)'
    <3>1. Live(s, clock)' = Live(s, clock) /\ Cardinality(Live(s, clock)) \in Nat
      BY <1>1, HeldList DEF Live, Held
    <3>2. /\ Cardinality(Writer) \in Nat /\ SessionCap \in Nat
          /\ Cardinality(Appending(s)) \in Nat
      BY AppendingFinite
    <3>3. CASE s # t
      <4>1. Appending(s)' \in SUBSET Appending(s)
        BY <2>2, <2>3, <3>3 DEF Appending
      <4>2. Cardinality(Appending(s)') <= Cardinality(Appending(s)) /\ Cardinality(Appending(s)') \in Nat
        BY <4>1, AppendingFinite, FS_Subset, FS_CardinalityType
      <4> QED
        BY <3>1, <3>2, <4>2 DEF SignalInv
    <3>4. CASE s = t
      <4>1. Live(s, clock) \in SUBSET Live(s, request[q].now)
        <5>1. ASSUME NEW i \in DOMAIN Held(s) PROVE Held(s)[i].expires \in Nat
          <6>1. Held(s)[i] \in Record
            BY HeldList
          <6> QED
            BY <6>1, WebAssumption
        <5>2. clock \in Nat /\ request[q].now \in Nat
          BY <1>2 DEF RequestInv, Time
        <5> QED
          BY <1>2, <5>1, <5>2 DEF Live
      <4>2. Cardinality(Live(s, clock)) <= Cardinality(Live(s, request[q].now))
        BY <4>1, HeldList, FS_Subset
      <4>3. Cardinality(Live(s, request[q].now)) < SessionCap
        BY <1>4, <3>4 DEF HasRoomFor
      <4>4. Appending(s)' \in SUBSET Writer
        BY DEF Appending
      <4>5. Cardinality(Appending(s)') <= Cardinality(Writer) /\ Cardinality(Appending(s)') \in Nat
        BY <4>4, RequestAssumption, FS_Subset, FS_CardinalityType
      <4>6. Cardinality(Live(s, request[q].now)) \in Nat
        BY HeldList
      <4> QED
        BY <3>1, <3>2, <4>2, <4>3, <4>5, <4>6
    <3> QED
      BY <3>3, <3>4
  <2> QED
    BY <1>1, <2>4 DEF SignalInv
<1> QED
  BY <1>3, <1>4

(* A writer that appends is one less about to append.                      *)
LEMMA AppendSignalKeeps ==
  ASSUME RequestInv, SignalInv, NEW q \in Writer, AppendSignal(q)
  PROVE  SignalInv'
<1> DEFINE t == request[q].session
           held == Held(t)
           kept == IF Len(held) >= StoreCap /\ held # <<>> THEN Tail(held) ELSE held
           more == Append(kept, request[q].record)
<1>1. /\ q \in Request /\ request[q].pc = "append" /\ clock' = clock
      /\ signals' = MapSet(signals, t, more) /\ request' = [request EXCEPT ![q] = None]
  BY DEF AppendSignal, Request, Answer
<1>2. t \in Session /\ request[q].record \in Record
  <2>1. Remembers(q, request[q])
    BY <1>1 DEF RequestInv, None
  <2> QED
    BY <2>1 DEF Remembers, OfWriter
<1>3. held \in Seq(Record) /\ Live(t, clock) = LiveIn(held, clock)
  BY <1>2, HeldList
<1>4. /\ kept \in Seq(Record)
      /\ Cardinality(LiveIn(kept, clock)) <= Cardinality(LiveIn(held, clock))
  <2>1. Cardinality(LiveIn(held, clock)) \in Nat
    BY <1>3, LiveFinite
  <2> HIDE DEF held
  <2>2. CASE kept = held
    BY <1>3, <2>1, <2>2
  <2>3. CASE held # <<>> /\ kept = Tail(held)
    BY <1>3, <2>3, TailLive
  <2> QED
    BY <2>2, <2>3
<1> HIDE DEF kept, held
<1>5. /\ more \in Seq(Record)
      /\ Cardinality(LiveIn(more, clock)) <= Cardinality(LiveIn(kept, clock)) + 1
  BY <1>2, <1>4, OneMoreLive
<1>6. /\ Cardinality(LiveIn(more, clock)) \in Nat /\ Cardinality(LiveIn(kept, clock)) \in Nat
      /\ Cardinality(LiveIn(held, clock)) \in Nat
  BY <1>3, <1>4, <1>5, LiveFinite
<1> HIDE DEF more
<1>7. IsMapOf(signals', Session, Seq(Record))
  BY <1>1, <1>2, <1>5, MapSetType DEF SignalInv
<1>8. \A r \in Writer : request'[r] = IF r = q THEN None ELSE request[r]
  BY <1>1 DEF RequestInv, Request
<1>9. ASSUME NEW s \in Session
      PROVE  (Cardinality(Live(s, clock)) + Cardinality(Appending(s))
                <= SessionCap + Cardinality(Writer) - 1)'
  <2>1. /\ Cardinality(Writer) \in Nat /\ SessionCap \in Nat
        /\ Cardinality(Appending(s)) \in Nat /\ Cardinality(Live(s, clock)) \in Nat
    BY AppendingFinite, HeldList
  <2>2. Cardinality(Live(s, clock)) + Cardinality(Appending(s)) <= SessionCap + Cardinality(Writer) - 1
    BY DEF SignalInv
  <2>3. CASE s = t
    <3>1. Live(s, clock)' = LiveIn(more, clock)
      BY <1>1, <2>3 DEF Live, Held, LiveIn, MapSet
    <3>2. Cardinality(Live(s, clock))' = Cardinality(LiveIn(more, clock))
      BY <3>1
    <3>3. Appending(s)' = Appending(s) \ {q} /\ q \in Appending(s)
      BY <1>1, <1>8, <2>3 DEF Appending, None
    <3>4. Cardinality(Appending(s)') = Cardinality(Appending(s)) - 1
      BY <3>3, AppendingFinite, FS_RemoveElement
    <3>5. Live(s, clock) = LiveIn(held, clock)
      BY <1>3, <2>3
    <3> HIDE DEF t
    <3> QED
      BY <1>4, <1>5, <1>6, <2>1, <2>2, <3>2, <3>4, <3>5
  <2>4. CASE s # t
    <3>1. Live(s, clock)' = Live(s, clock)
      BY <1>1, <2>4 DEF Live, Held, MapSet
    <3>2. Appending(s)' \in SUBSET Appending(s)
      BY <1>8 DEF Appending, None
    <3>3. Cardinality(Appending(s)') <= Cardinality(Appending(s)) /\ Cardinality(Appending(s)') \in Nat
      BY <3>2, AppendingFinite, FS_Subset, FS_CardinalityType
    <3> QED
      BY <2>1, <2>2, <3>1, <3>3
  <2> QED
    BY <2>3, <2>4
<1> QED
  BY <1>7, <1>9 DEF SignalInv

LEMMA SignalStep ==
  ASSUME RequestInv, SignalInv, [WebNext]_webVars
  PROVE  SignalInv'
<1>1. ASSUME NEW q \in Request, NEW r, r.pc # "append", request' = [request EXCEPT ![q] = r],
             UNCHANGED <<clock, signals>>
      PROVE  SignalInv'
  <2>1. \A w \in Writer : request'[w].pc = "append" => request'[w] = request[w]
    BY <1>1 DEF RequestInv, Request
  <2>2. \A s \in Session : Appending(s)' \subseteq Appending(s)
    BY <2>1 DEF Appending
  <2> QED
    BY <1>1, <2>2, SameSignals
<1>2. CASE UNCHANGED webVars
  BY <1>2, SameSignals DEF webVars, Appending
<1>3. ASSUME NEW q \in Putter, PutPresence(q) PROVE SignalInv'
  <2>1. PICK id, record, r :
          /\ id \in Identity /\ record \in Record
          /\ request' = [request EXCEPT ![q] = r]
          /\ r = None \/ r = [pc |-> "put", identity |-> id, record |-> record]
    BY <1>3 DEF PutPresence
  <2>2. r.pc # "append"
    BY <2>1 DEF None
  <2> QED
    BY <1>1, <1>3, <2>1, <2>2 DEF PutPresence, Request
<1>4. ASSUME NEW q \in Request, PutIfNewer(q) \/ SweepRecords(q) PROVE SignalInv'
  BY <1>1, <1>4 DEF PutIfNewer, SweepRecords, Answer, None
<1>5. ASSUME NEW q \in Getter, GetPresence(q) PROVE SignalInv'
  BY <1>1, <1>5 DEF GetPresence, Request
<1>6. ASSUME NEW q \in Writer, PutSignaling(q) PROVE SignalInv'
  <2>1. PICK session \in Session, record \in Record :
          request' = [request EXCEPT ![q] =
            [pc |-> "sweep", session |-> session, record |-> record, now |-> clock]]
    BY <1>6 DEF PutSignaling
  <2> QED
    BY <1>1, <1>6, <2>1 DEF PutSignaling, Request
<1>7. ASSUME NEW q \in Reader, GetSignaling(q) PROVE SignalInv'
  <2>1. PICK session \in Session :
          request' = [request EXCEPT ![q] = [pc |-> "sweep", session |-> session, now |-> clock]]
    BY <1>7 DEF GetSignaling
  <2> QED
    BY <1>1, <1>7, <2>1 DEF GetSignaling, Request
<1>8. CASE WebTick
  <2>1. ASSUME NEW s \in Session
        PROVE  Cardinality(Live(s, clock))' \in Nat
               /\ Cardinality(Live(s, clock))' <= Cardinality(Live(s, clock))
    <3>1. \A i \in DOMAIN Held(s) : Held(s)[i].expires \in Nat
      BY HeldList, WebAssumption
    <3>2. clock \in Nat /\ clock' = clock + 1 /\ signals' = signals
      BY <1>8 DEF RequestInv, Time, WebTick
    <3>3. Live(s, clock)' \in SUBSET Live(s, clock)
      BY <3>1, <3>2 DEF Live, Held
    <3> QED
      BY <3>3, HeldList, FS_Subset, FS_CardinalityType
  <2>2. \A s \in Session : Appending(s)' \subseteq Appending(s)
    BY <1>8 DEF WebTick, Appending
  <2>3. IsMapOf(signals', Session, Seq(Record))
    BY <1>8 DEF WebTick, SignalInv
  <2> QED
    BY <2>1, <2>2, <2>3, NoMoreSignals
<1> QED
  BY <1>2, <1>3, <1>4, <1>5, <1>6, <1>7, <1>8, SweepSignalsKeeps, ListSignalsKeeps, AppendSignalKeeps
     DEF WebNext, PresenceStep, SignalingStep, Request

LEMMA SignalBound ==
  ASSUME SignalInv
  PROVE  SignalingBounded
<1> SUFFICES ASSUME NEW s \in Session
             PROVE  Cardinality(Live(s, clock)) <= SessionCap + Cardinality(Writer) - 1
  BY DEF SignalingBounded
<1>1. Cardinality(Live(s, clock)) + Cardinality(Appending(s)) <= SessionCap + Cardinality(Writer) - 1
  BY DEF SignalInv
<1> QED
  BY <1>1, HeldList, AppendingFinite

-----------------------------------------------------------------------------
(* The limiter: windows of a key and what was let through in them.         *)

(* Times in order, none after now.                                         *)
InOrder(at, now) ==
  /\ \A i \in DOMAIN at : at[i] <= now
  /\ \A i, j \in DOMAIN at : i <= j => at[i] <= at[j]

(* The last count of the times are of the window that began at start, and  *)
(* the others that are at least as many places before it as a window has   *)
(* requests are a window older.                                            *)
Counts(at, limit, bucket) ==
  /\ bucket.count \in 1 .. limit
  /\ bucket.count <= Len(at)
  /\ at[Len(at) - bucket.count + 1] = bucket.start
  /\ \A i \in DOMAIN at :
       i + limit <= Len(at) - bucket.count + 1 => at[i] + Window <= bucket.start

WithinRate(at, limit) ==
  \A i, j \in DOMAIN at : i <= j /\ at[j] - at[i] < Window => j - i + 1 < 2 * limit

(* Times are numbers.                                                      *)
LEMMA NumbersOfTimes ==
  ASSUME NEW T \in SUBSET Nat, NEW at \in Seq(T)
  PROVE  at \in Seq(Nat) /\ \A i \in DOMAIN at : at[i] \in Nat
<1>1. Len(at) \in Nat /\ DOMAIN at = 1 .. Len(at) /\ \A i \in 1 .. Len(at) : at[i] \in T
  OBVIOUS
<1>2. \A i \in 1 .. Len(at) : at[i] \in Nat
  BY <1>1
<1>3. at = [i \in 1 .. Len(at) |-> at[i]]
  OBVIOUS
<1> QED
  BY <1>1, <1>2, <1>3

LEMMA OneMoreInOrder ==
  ASSUME NEW at \in Seq(Nat), NEW t \in Nat, InOrder(at, t)
  PROVE  InOrder(Append(at, t), t)
BY DEF InOrder

(* A request more of the window.                                           *)
LEMMA SameWindow ==
  ASSUME NEW at \in Seq(Nat), NEW t \in Nat, InOrder(at, t), NEW limit \in Nat \ {0},
         NEW s \in Nat, NEW n \in Nat, Counts(at, limit, [start |-> s, count |-> n]),
         WithinRate(at, limit), n < limit
  PROVE  /\ Counts(Append(at, t), limit, [start |-> s, count |-> n + 1])
         /\ WithinRate(Append(at, t), limit)
<1> DEFINE more == Append(at, t)
           first == Len(at) - n + 1
<1>0. Window \in Nat
  BY WebAssumption
<1>1. /\ Len(at) \in Nat /\ DOMAIN at = 1 .. Len(at) /\ \A i \in DOMAIN at : at[i] \in Nat
      /\ Len(more) = Len(at) + 1 /\ DOMAIN more = 1 .. Len(at) + 1
      /\ more[Len(at) + 1] = t /\ \A i \in DOMAIN at : more[i] = at[i]
  OBVIOUS
<1>2. /\ n \in 1 .. limit /\ n <= Len(at) /\ at[first] = s /\ first \in DOMAIN at
      /\ \A i \in DOMAIN at : i + limit <= first => at[i] + Window <= s
  BY <1>1 DEF Counts
<1>3. s <= t
  BY <1>2 DEF InOrder
<1> HIDE DEF more
<1>4. Counts(more, limit, [start |-> s, count |-> n + 1])
  <2>1. Len(more) - (n + 1) + 1 = first
    BY <1>1
  <2>2. \A i \in DOMAIN more : i + limit <= first => i \in DOMAIN at
    BY <1>1
  <2>3. \A i \in DOMAIN more : i + limit <= first => more[i] + Window <= s
    BY <1>1, <1>2, <2>2
  <2>4. n + 1 \in 1 .. limit /\ n + 1 <= Len(more) /\ more[first] = s
    BY <1>1, <1>2
  <2> QED
    BY <2>1, <2>3, <2>4 DEF Counts
<1>5. ASSUME NEW i \in DOMAIN at, t - at[i] < Window PROVE Len(at) + 1 - i + 1 < 2 * limit
  <2>1. ~ (i + limit <= first)
    BY <1>0, <1>1, <1>2, <1>3, <1>5
  <2> QED
    BY <1>1, <1>2, <2>1
<1>6. WithinRate(more, limit)
  <2> SUFFICES ASSUME NEW i \in DOMAIN more, NEW j \in DOMAIN more,
                      i <= j, more[j] - more[i] < Window
               PROVE  j - i + 1 < 2 * limit
    BY DEF WithinRate
  <2>1. CASE j # Len(at) + 1
    <3>1. i \in DOMAIN at /\ j \in DOMAIN at
      BY <1>1, <2>1
    <3> QED
      BY <1>1, <3>1 DEF WithinRate
  <2>2. CASE j = Len(at) + 1 /\ i # j
    <3>1. i \in DOMAIN at /\ more[i] = at[i] /\ more[j] = t
      BY <1>1, <2>2
    <3>2. t - at[i] < Window
      BY <2>2, <3>1
    <3>3. Len(at) + 1 - i + 1 < 2 * limit
      BY <1>5, <3>1, <3>2
    <3> QED
      BY <1>1, <2>2, <3>1, <3>3
  <2>3. CASE i = j
    BY <1>1, <2>3
  <2> QED
    BY <2>1, <2>2, <2>3
<1> QED
  BY <1>4, <1>6 DEF more

(* The first request of a window: of the first one, or of one that begins  *)
(* when the window before is over.                                         *)
LEMMA NextWindow ==
  ASSUME NEW at \in Seq(Nat), NEW t \in Nat, InOrder(at, t), NEW limit \in Nat \ {0},
         WithinRate(at, limit),
         \/ at = <<>>
         \/ \E s, n \in Nat : Counts(at, limit, [start |-> s, count |-> n]) /\ s + Window <= t
  PROVE  /\ Counts(Append(at, t), limit, [start |-> t, count |-> 1])
         /\ WithinRate(Append(at, t), limit)
<1> DEFINE more == Append(at, t)
<1>0. Window \in Nat \ {0}
  BY WebAssumption
<1>1. /\ Len(at) \in Nat /\ DOMAIN at = 1 .. Len(at) /\ \A i \in DOMAIN at : at[i] \in Nat
      /\ Len(more) = Len(at) + 1 /\ DOMAIN more = 1 .. Len(at) + 1
      /\ more[Len(at) + 1] = t /\ \A i \in DOMAIN at : more[i] = at[i]
  OBVIOUS
<1>2. ASSUME NEW i \in DOMAIN at, i + limit <= Len(at) + 1 PROVE at[i] + Window <= t
  <2>1. PICK s, n \in Nat : Counts(at, limit, [start |-> s, count |-> n]) /\ s + Window <= t
    BY <1>1, <1>2
  <2>2. /\ n \in 1 .. limit /\ n <= Len(at) /\ at[Len(at) - n + 1] = s
        /\ Len(at) - n + 1 \in DOMAIN at
    BY <1>1, <2>1 DEF Counts
  <2>3. at[i] <= s
    <3>1. i <= Len(at) - n + 1
      BY <1>1, <1>2, <2>2
    <3> QED
      BY <2>2, <3>1 DEF InOrder
  <2> QED
    BY <1>0, <1>1, <2>1, <2>3
<1> HIDE DEF more
<1>3. Counts(more, limit, [start |-> t, count |-> 1])
  <2>1. Len(more) - 1 + 1 = Len(at) + 1
    BY <1>1
  <2>2. \A i \in DOMAIN more : i + limit <= Len(at) + 1 => more[i] + Window <= t
    BY <1>1, <1>2
  <2>3. 1 \in 1 .. limit /\ 1 <= Len(more) /\ more[Len(at) + 1] = t
    BY <1>1
  <2> QED
    BY <2>1, <2>2, <2>3 DEF Counts
<1>4. ASSUME NEW i \in DOMAIN at, t - at[i] < Window PROVE Len(at) + 1 - i + 1 < 2 * limit
  <2>1. ~ (i + limit <= Len(at) + 1)
    BY <1>0, <1>1, <1>2, <1>4
  <2> QED
    BY <1>1, <2>1
<1>5. WithinRate(more, limit)
  <2> SUFFICES ASSUME NEW i \in DOMAIN more, NEW j \in DOMAIN more,
                      i <= j, more[j] - more[i] < Window
               PROVE  j - i + 1 < 2 * limit
    BY DEF WithinRate
  <2>1. CASE j # Len(at) + 1
    <3>1. i \in DOMAIN at /\ j \in DOMAIN at
      BY <1>1, <2>1
    <3> QED
      BY <1>1, <3>1 DEF WithinRate
  <2>2. CASE j = Len(at) + 1 /\ i # j
    <3>1. i \in DOMAIN at /\ more[i] = at[i] /\ more[j] = t
      BY <1>1, <2>2
    <3>2. t - at[i] < Window
      BY <2>2, <3>1
    <3>3. Len(at) + 1 - i + 1 < 2 * limit
      BY <1>4, <3>1, <3>2
    <3> QED
      BY <1>1, <2>2, <3>1, <3>3
  <2>3. CASE i = j
    BY <1>1, <2>3
  <2> QED
    BY <2>1, <2>2, <2>3
<1> QED
  BY <1>3, <1>5 DEF more

(* What is in a bucket is a window of what was let through.                *)
BucketInv ==
  /\ IsMapOf(buckets, LimiterKey, [start : Time, count : Nat])
  /\ allowed \in [LimiterKey -> Seq(Time)]
  /\ \A key \in LimiterKey :
       /\ InOrder(allowed[key], clock)
       /\ WithinRate(allowed[key], Limit[key[1]])
       /\ key \notin DOMAIN buckets => allowed[key] = <<>>
       /\ key \in DOMAIN buckets => Counts(allowed[key], Limit[key[1]], buckets[key])

(* The limiter lets a request of a key through.                            *)
LEMMA AllowKeeps ==
  ASSUME RequestInv, BucketInv, NEW kind, NEW subject, <<kind, subject>> \in LimiterKey,
         Allow(kind, subject), UNCHANGED clock
  PROVE  BucketInv'
<1> DEFINE key == <<kind, subject>>
           at == allowed[key]
           limit == Limit[kind]
           bucket == Bucket(key)
           counted == [bucket EXCEPT !.count = @ + 1]
<1>1. /\ bucket.count < limit /\ buckets' = MapSet(buckets, key, counted)
      /\ allowed' = [allowed EXCEPT ![key] = Append(at, clock)]
  BY DEF Allow
<1>2. limit \in Nat \ {0} /\ clock \in Time /\ Time \subseteq Nat
  BY WebAssumption DEF LimiterKey, RequestInv, Time
<1>3. at \in Seq(Time) /\ at \in Seq(Nat) /\ key[1] = kind
  <2>1. at \in Seq(Time) /\ key[1] = kind
    BY DEF BucketInv
  <2> HIDE DEF at
  <2>2. at \in Seq(Nat)
    BY <1>2, <2>1, NumbersOfTimes
  <2> QED
    BY <2>1, <2>2
<1>4. InOrder(at, clock) /\ WithinRate(at, limit)
  BY <1>3 DEF BucketInv
<1>5. /\ counted \in [start : Time, count : Nat]
      /\ Counts(Append(at, clock), limit, counted) /\ WithinRate(Append(at, clock), limit)
  <2>1. CASE key \notin DOMAIN buckets \/ clock - buckets[key].start >= Window
    <3>1. bucket = [start |-> clock, count |-> 0]
      BY <2>1 DEF Bucket
    <3>2. counted = [start |-> clock, count |-> 1]
      BY <3>1
    <3>3. \/ at = <<>>
          \/ \E s, n \in Nat : Counts(at, limit, [start |-> s, count |-> n]) /\ s + Window <= clock
      <4>1. CASE key \notin DOMAIN buckets
        BY <4>1 DEF BucketInv
      <4>2. CASE key \in DOMAIN buckets
        <5>1. PICK s \in Time, n \in Nat : buckets[key] = [start |-> s, count |-> n]
          BY <4>2 DEF BucketInv, IsMapOf
        <5>2. Counts(at, limit, [start |-> s, count |-> n])
          BY <1>3, <4>2, <5>1 DEF BucketInv
        <5>3. s + Window <= clock
          BY <1>2, <2>1, <4>2, <5>1, WebAssumption
        <5> QED
          BY <1>2, <5>2, <5>3
      <4> QED
        BY <4>1, <4>2
    <3> HIDE DEF counted, bucket, at, limit
    <3> QED
      BY <1>2, <1>3, <1>4, <3>2, <3>3, NextWindow
  <2>2. CASE key \in DOMAIN buckets /\ ~ (clock - buckets[key].start >= Window)
    <3>1. PICK s \in Time, n \in Nat : buckets[key] = [start |-> s, count |-> n]
      BY <2>2 DEF BucketInv, IsMapOf
    <3>2. bucket = [start |-> s, count |-> n]
      BY <2>2, <3>1 DEF Bucket
    <3>3. counted = [start |-> s, count |-> n + 1] /\ n < limit
      BY <1>1, <3>2
    <3>4. Counts(at, limit, [start |-> s, count |-> n])
      BY <1>3, <2>2, <3>1 DEF BucketInv
    <3> HIDE DEF counted, bucket, at, limit
    <3> QED
      BY <1>2, <1>3, <1>4, <3>1, <3>3, <3>4, SameWindow
  <2> QED
    BY <2>1, <2>2
<1>6. InOrder(Append(at, clock), clock)
  BY <1>2, <1>3, <1>4, OneMoreInOrder
<1>7. Append(at, clock) \in Seq(Time)
  BY <1>2, <1>3
<1> HIDE DEF counted, bucket
<1>8. IsMapOf(buckets', LimiterKey, [start : Time, count : Nat])
  BY <1>1, <1>5, MapSetType DEF BucketInv
<1>9. allowed' \in [LimiterKey -> Seq(Time)]
  BY <1>1, <1>7 DEF BucketInv
<1>10. /\ DOMAIN buckets' = DOMAIN buckets \cup {key} /\ buckets'[key] = counted
       /\ \A k \in DOMAIN buckets : k # key => buckets'[k] = buckets[k]
  BY <1>1 DEF MapSet
<1>11. ASSUME NEW k \in LimiterKey
       PROVE  /\ InOrder(allowed'[k], clock)
              /\ WithinRate(allowed'[k], Limit[k[1]])
              /\ k \notin DOMAIN buckets' => allowed'[k] = <<>>
              /\ k \in DOMAIN buckets' => Counts(allowed'[k], Limit[k[1]], buckets'[k])
  <2>1. CASE k = key
    <3>1. allowed'[k] = Append(at, clock)
      BY <1>1, <2>1 DEF BucketInv
    <3> QED
      BY <1>3, <1>5, <1>6, <1>10, <2>1, <3>1
  <2>2. CASE k # key
    <3>1. allowed'[k] = allowed[k]
      BY <1>1, <2>2 DEF BucketInv
    <3> QED
      BY <1>10, <2>2, <3>1 DEF BucketInv
  <2> QED
    BY <2>1, <2>2
<1> QED
  BY <1>8, <1>9, <1>11 DEF BucketInv

LEMMA BucketStep ==
  ASSUME RequestInv, BucketInv, [WebNext]_webVars
  PROVE  BucketInv'
<1>1. CASE UNCHANGED <<clock, buckets, allowed>>
  BY <1>1 DEF BucketInv
<1>2. ASSUME NEW q, PutPresence(q) \/ GetPresence(q) PROVE BucketInv'
  <2>1. PICK kind \in {"put", "get"}, id \in Identity : Allow(kind, id)
    BY <1>2 DEF PutPresence, GetPresence
  <2> QED
    BY <1>2, <2>1, AllowKeeps DEF PutPresence, GetPresence, LimiterKey
<1>3. ASSUME NEW q, PutSignaling(q) \/ GetSignaling(q) PROVE BucketInv'
  <2>1. PICK kind \in {"signal", "signal-get"}, session \in Session : Allow(kind, session)
    BY <1>3 DEF PutSignaling, GetSignaling
  <2> QED
    BY <1>3, <2>1, AllowKeeps DEF PutSignaling, GetSignaling, LimiterKey
<1>4. CASE WebTick
  <2>1. /\ UNCHANGED <<buckets, allowed>> /\ clock' = clock + 1
        /\ clock \in Nat /\ Time \subseteq Nat
    BY <1>4, WebAssumption DEF WebTick, RequestInv, Time
  <2>2. ASSUME NEW key \in LimiterKey PROVE InOrder(allowed[key], clock')
    <3>1. allowed[key] \in Seq(Time) /\ InOrder(allowed[key], clock)
      BY DEF BucketInv
    <3>2. \A i \in DOMAIN allowed[key] : allowed[key][i] \in Nat
      BY <2>1, <3>1, NumbersOfTimes
    <3> QED
      BY <2>1, <3>1, <3>2 DEF InOrder
  <2> QED
    BY <2>1, <2>2 DEF BucketInv
<1>5. ASSUME NEW q, PutIfNewer(q) \/ SweepRecords(q) \/ SweepSignals(q) \/ ListSignals(q) \/ AppendSignal(q)
      PROVE  BucketInv'
  BY <1>1, <1>5 DEF PutIfNewer, SweepRecords, SweepSignals, ListSignals, AppendSignal
<1> QED
  BY <1>1, <1>2, <1>3, <1>4, <1>5 DEF WebNext, PresenceStep, SignalingStep, webVars

-----------------------------------------------------------------------------
LEMMA WebInitial ==
  ASSUME WebInit
  PROVE  RequestInv /\ PresenceInv /\ SignalInv /\ BucketInv
<1> USE DEF WebInit, EmptyMap
<1>1. RequestInv
  BY WebAssumption DEF RequestInv, Time
<1>2. DOMAIN records = {} /\ DOMAIN signals = {} /\ DOMAIN buckets = {}
  OBVIOUS
<1>3. PresenceInv
  BY <1>2, EmptyMapType DEF PresenceInv
<1>4. SignalInv
  <2>1. IsMapOf(signals, Session, Seq(Record))
    BY EmptyMapType
  <2>2. \A s \in Session : Live(s, clock) = {}
    BY <1>2 DEF Live, Held
  <2>3. \A s \in Session : Appending(s) = {}
    BY DEF Appending, None, Request
  <2>4. Cardinality({}) = 0
    BY FS_EmptySet
  <2>5. 0 + 0 <= SessionCap + Cardinality(Writer) - 1
    BY AppendingFinite
  <2> QED
    BY <2>1, <2>2, <2>3, <2>4, <2>5 DEF SignalInv
<1>5. BucketInv
  <2>1. IsMapOf(buckets, LimiterKey, [start : Time, count : Nat])
    BY EmptyMapType
  <2>2. \A key \in LimiterKey : allowed[key] = <<>>
    OBVIOUS
  <2>3. DOMAIN <<>> = {}
    OBVIOUS
  <2> QED
    BY <1>2, <2>1, <2>2, <2>3 DEF BucketInv, InOrder, WithinRate
<1> QED
  BY <1>1, <1>3, <1>4, <1>5

LEMMA WebInvariance ==
  WebSpec => [](RequestInv /\ PresenceInv /\ SignalInv /\ BucketInv)
<1>1. WebInit => RequestInv /\ PresenceInv /\ SignalInv /\ BucketInv
  BY WebInitial
<1>2. RequestInv /\ PresenceInv /\ SignalInv /\ BucketInv /\ [WebNext]_webVars
        => (RequestInv /\ PresenceInv /\ SignalInv /\ BucketInv)'
  BY RequestStep, PresenceStepInv, SignalStep, BucketStep
<1> QED
  BY <1>1, <1>2, PTL DEF WebSpec

(* The state of WebPresenceCore's stores stays of its type: a map of       *)
(* records, one of lists, one of buckets (memory.ts:5,31,68).              *)
THEOREM WebTypeCorrect == WebSpec => []WebTypeOK
<1>1. RequestInv /\ PresenceInv /\ SignalInv /\ BucketInv => WebTypeOK
  BY DEF RequestInv, PresenceInv, SignalInv, BucketInv, WebTypeOK
<1> QED
  BY <1>1, WebInvariance, PTL

(* However putIfNewer of several calls and the sweeps of readers           *)
(* interleave, a presence record that was accepted stands until it runs    *)
(* out, unless a newer one took its place or has run out.                  *)
THEOREM AcceptedRecordsStand == WebSpec => []NewestStands
<1>1. PresenceInv => NewestStands
  BY NewestInv
<1> QED
  BY <1>1, WebInvariance, PTL

(* putSignaling reads the cap (core.ts:116) before it appends: of the      *)
(* records of a session that have not run out there are never more than    *)
(* the cap and one for each other writer at work.                          *)
THEOREM SignalingStaysBounded == WebSpec => []SignalingBounded
<1>1. SignalInv => SignalingBounded
  BY SignalBound
<1> QED
  BY <1>1, WebInvariance, PTL

(* MemoryRateLimiter.consume counts in windows that begin with a request:  *)
(* in no interval as long as a window, wherever it begins, does it let     *)
(* twice the limit of a key through.                                       *)
THEOREM LimiterKeepsTheRate == WebSpec => []RateKept
<1>1. BucketInv => RateKept
  BY DEF BucketInv, RateKept, WithinRate
<1> QED
  BY <1>1, WebInvariance, PTL

=============================================================================
