----------------------------- MODULE GateProof -----------------------------
(***************************************************************************)
(* The gate for every set of requests, settings, threads and limits: the   *)
(* requests let through in a window and the table of keys are bounded,     *)
(* refusals have a live cause and records that are accepted are complete.  *)
(***************************************************************************)
EXTENDS Gate, FiniteSetTheorems, SequenceTheorems, WellFoundedInduction, TLAPS

Times == 0 .. MaxTime

\* A request in progress is one that was offered; past its checks it is for a
\* sound record, and past the second lookup for one whose target is stored.
RequestKnows ==
    \A t \in Threads :
        /\ req[t].pc # "idle" => req[t].q \in Offers
        /\ req[t].pc \in {"target", "insert"} => req[t].q.record \in Sound
        /\ req[t].pc = "target" => Target[req[t].q.record] # None
        /\ req[t].pc = "insert" /\ Target[req[t].q.record] # None
             => Target[req[t].q.record] \in records

\* A stamp in the table belongs to a request that was let through.
StampsGranted ==
    \A q \in Offers : \A i \in DOMAIN events[Key(q)] :
        granted[Origin(q)][events[Key(q)][i]] > 0

GInv == TypeOK /\ RequestKnows /\ StampsGranted /\ KeysBounded /\ RelayedIsComplete

----------------------------------------------------------------------------
\* A set of positions has a first one.
LEMMA FirstPosition ==
    ASSUME NEW P \in SUBSET Nat, P # {}
    PROVE  \E i \in P : \A j \in P : i <= j
<1>1. PICK i \in P : \A j \in P : ~ (<<j, i>> \in OpToRel(<, Nat))
  BY WFMin, NatLessThanWellFounded, Zenon
<1>2. \A j \in P : i <= j
  <2> TAKE j \in P
  <2>1. ~ (<<j, i>> \in OpToRel(<, Nat))
    BY <1>1
  <2>2. ~ (j < i)
    BY <2>1, Zenon DEF OpToRel
  <2> QED
    BY <2>2
<1> QED
  BY <1>2

\* Expire keeps stamps of the queue, and none at all unless one is live.
LEMMA ExpireKeeps ==
    ASSUME NEW queue \in Seq(Times), NEW cutoff \in Int
    PROVE  /\ Expire(queue, cutoff) \in Seq(Times)
           /\ \A i \in DOMAIN Expire(queue, cutoff) :
                 \E j \in DOMAIN queue : queue[j] = Expire(queue, cutoff)[i]
           /\ Expire(queue, cutoff) # <<>> =>
                 \E j \in DOMAIN queue : queue[j] > cutoff
<1> DEFINE live == {i \in DOMAIN queue : queue[i] > cutoff}
           first == CHOOSE i \in live : \A j \in live : i <= j
           kept == SubSeq(queue, first, Len(queue))
<1>1. CASE live = {}
  <2>1. Expire(queue, cutoff) = <<>>
    BY <1>1 DEF Expire
  <2> QED
    BY <2>1
<1>2. CASE live # {}
  <2>1. Expire(queue, cutoff) = kept
    BY <1>2 DEF Expire
  <2>2. DOMAIN queue = 1 .. Len(queue) /\ Len(queue) \in Nat
    OBVIOUS
  <2>3. live \in SUBSET Nat
    BY <2>2
  <2>4. \E i \in live : \A j \in live : i <= j
    <3> HIDE DEF live
    <3> QED
      BY <1>2, <2>3, FirstPosition
  <2>5. first \in live
    <3> HIDE DEF live
    <3> QED
      BY <2>4
  <2>6. first \in 1 .. Len(queue)
    <3> HIDE DEF first
    <3> QED
      BY <2>2, <2>5
  <2>7. \A i \in first .. Len(queue) : queue[i] \in Times
    <3> HIDE DEF first
    <3> QED
      BY <2>2, <2>6
  <2>8. /\ kept \in Seq(Times)
        /\ Len(kept) = Len(queue) - first + 1
        /\ \A i \in 1 .. Len(queue) - first + 1 : kept[i] = queue[first + i - 1]
    <3> HIDE DEF first
    <3> QED
      BY <2>2, <2>6, <2>7, SubSeqProperties
  <2>9. \A i \in DOMAIN kept : \E j \in DOMAIN queue : queue[j] = kept[i]
    <3> HIDE DEF first, kept
    <3> TAKE i \in DOMAIN kept
    <3>1. DOMAIN kept = 1 .. Len(kept)
      BY <2>8
    <3>2. /\ i \in 1 .. Len(queue) - first + 1
          /\ first + i - 1 \in DOMAIN queue
      BY <2>2, <2>6, <2>8, <3>1
    <3> QED
      BY <2>8, <3>2
  <2> QED
    <3> HIDE DEF first, kept
    <3> QED
      BY <1>2, <2>1, <2>8, <2>9
<1> QED
  BY <1>1, <1>2

\* There are finitely many keys.
LEMMA KeysFinite == IsFiniteSet(Keys)
<1> DEFINE f == [q \in Offers |-> Key(q)]
<1>1. f \in Surjection(Offers, Keys)
  BY Zenon DEF Surjection, Keys
<1> QED
  BY <1>1, FS_Surjection, GateAssumption

\* A table of the limiter, the keys that have a live stamp in it, and one that
\* holds no stamps but those of another.
Tables == [Keys -> Seq(Times)]
LiveKeys(table, cutoff) ==
    {k \in Keys : \E i \in DOMAIN table[k] : table[k][i] > cutoff}
Within(small, large) ==
    \A k \in Keys : \A i \in DOMAIN small[k] :
        \E j \in DOMAIN large[k] : large[k][j] = small[k][i]

LEMMA WithinReflexive ==
    ASSUME NEW table \in Tables PROVE Within(table, table)
BY DEF Within

LEMMA WithinTransitive ==
    ASSUME NEW a \in Tables, NEW b \in Tables, NEW c \in Tables,
           Within(a, b), Within(b, c)
    PROVE  Within(a, c)
BY DEF Within

LEMMA WithinHasFewerKeys ==
    ASSUME NEW a \in Tables, NEW b \in Tables, Within(a, b)
    PROVE  KeysOf(a) \subseteq KeysOf(b)
<1> SUFFICES ASSUME NEW k \in Keys, a[k] # <<>> PROVE b[k] # <<>>
  BY DEF KeysOf
<1>1. a[k] \in Seq(Times) /\ b[k] \in Seq(Times)
  BY DEF Tables
<1>2. 1 \in DOMAIN a[k]
  BY <1>1
<1>3. DOMAIN b[k] # {}
  BY <1>2 DEF Within
<1> QED
  BY <1>3

LEMMA PruneKeeps ==
    ASSUME NEW table \in Tables, NEW cutoff \in Int
    PROVE  /\ Prune(table, cutoff) \in Tables
           /\ Within(Prune(table, cutoff), table)
           /\ KeysOf(Prune(table, cutoff)) \subseteq LiveKeys(table, cutoff)
<1>1. ASSUME NEW k \in Keys PROVE table[k] \in Seq(Times)
  BY DEF Tables
<1> QED
  BY <1>1, ExpireKeeps DEF Tables, Prune, Within, KeysOf, LiveKeys

LEMMA WithinHasFewerLive ==
    ASSUME NEW a \in Tables, NEW b \in Tables, Within(a, b), NEW cutoff \in Int
    PROVE  LiveKeys(a, cutoff) \subseteq LiveKeys(b, cutoff)
BY DEF Within, LiveKeys

\* The key table of a smaller table is not larger.
LEMMA FewerKeys ==
    ASSUME NEW a \in Tables, NEW b \in Tables, Within(a, b)
    PROVE  /\ Cardinality(KeysOf(a)) \in Nat /\ Cardinality(KeysOf(b)) \in Nat
           /\ Cardinality(KeysOf(a)) <= Cardinality(KeysOf(b))
<1>1. IsFiniteSet(KeysOf(b))
  BY KeysFinite, FS_Subset DEF KeysOf
<1>2. KeysOf(a) \subseteq KeysOf(b)
  BY WithinHasFewerKeys
<1> QED
  BY <1>1, <1>2, FS_Subset, FS_CardinalityType

(***************************************************************************)
(* What one decision of the limiter does to its table, and why it refuses: *)
(* the key has a live stamp, or MaxKeys keys have.                         *)
(***************************************************************************)
LEMMA Decision ==
    ASSUME events \in Tables, KeysBounded, NEW key \in Keys, NEW now \in Times
    PROVE  LET verdict == Decide(key, now)
               cutoff == now - Window
           IN  /\ verdict.events \in Tables
               /\ Cardinality(KeysOf(verdict.events)) <= MaxKeys
               /\ \A k \in Keys : \A i \in DOMAIN verdict.events[k] :
                     \/ \E j \in DOMAIN events[k] : events[k][j] = verdict.events[k][i]
                     \/ k = key /\ verdict.allowed /\ verdict.events[k][i] = now
               /\ ~ verdict.allowed =>
                     \/ key \in LiveKeys(events, cutoff)
                     \/ Cardinality(LiveKeys(events, cutoff)) >= MaxKeys
<1> DEFINE cutoff == now - Window
           kept == IF ops + 1 = PruneEvery THEN Prune(events, cutoff) ELSE events
           table == IF key \notin KeysOf(kept) /\ Full(kept) THEN Prune(kept, cutoff) ELSE kept
           room == key \in KeysOf(table) \/ ~ Full(table)
           queue == Expire(table[key], cutoff)
           allowed == room /\ Len(queue) < Requests
           left == IF ~ room THEN table
                   ELSE [table EXCEPT ![key] = IF allowed THEN Append(queue, now) ELSE queue]
<1>1. Decide(key, now).allowed = allowed /\ Decide(key, now).events = left
  BY DEF Decide
<1>2. cutoff \in Int /\ now \in Int
  BY GateAssumption DEF Times
<1>3. kept \in Tables /\ Within(kept, events)
  <2> HIDE DEF cutoff
  <2> QED
    BY <1>2, PruneKeeps, WithinReflexive
<1>4. table \in Tables /\ Within(table, kept)
  <2> HIDE DEF cutoff, kept
  <2> QED
    BY <1>2, <1>3, PruneKeeps, WithinReflexive
<1>5. Within(table, events)
  <2> HIDE DEF kept, table
  <2> QED
    BY <1>3, <1>4, WithinTransitive
<1>6. /\ Cardinality(KeysOf(table)) \in Nat
      /\ Cardinality(KeysOf(table)) <= MaxKeys
  <2> HIDE DEF table
  <2> QED
    BY <1>4, <1>5, FewerKeys, GateAssumption DEF KeysBounded
<1>7. table[key] \in Seq(Times)
  <2> HIDE DEF table
  <2> QED
    BY <1>4 DEF Tables
<1>8. /\ queue \in Seq(Times)
      /\ \A i \in DOMAIN queue : \E j \in DOMAIN table[key] : table[key][j] = queue[i]
      /\ queue # <<>> => key \in LiveKeys(table, cutoff)
  <2> HIDE DEF table, cutoff
  <2> QED
    BY <1>2, <1>7, ExpireKeeps DEF LiveKeys
<1>9. left \in Tables
  <2>1. Append(queue, now) \in Seq(Times)
    <3> HIDE DEF queue
    <3> QED
      BY <1>8
  <2> HIDE DEF table, queue, room, allowed
  <2> QED
    BY <1>4, <1>8, <2>1 DEF Tables
<1>10. Cardinality(KeysOf(left)) <= MaxKeys
  <2>1. CASE ~ room
    <3>1. left = table
      BY <2>1
    <3> HIDE DEF table, left
    <3> QED
      BY <1>6, <3>1
  <2>2. CASE room
    <3>1. KeysOf(left) \subseteq KeysOf(table) \cup {key}
      <4>1. \A k \in Keys : k # key => left[k] = table[k]
        <5> HIDE DEF table, queue, room, allowed
        <5> QED
          BY <1>4 DEF Tables
      <4> HIDE DEF left, table
      <4> QED
        BY <4>1 DEF KeysOf
    <3>2. IsFiniteSet(KeysOf(table))
      <4> HIDE DEF table
      <4> QED
        BY KeysFinite, FS_Subset DEF KeysOf
    <3>3. Cardinality(KeysOf(table) \cup {key}) <= MaxKeys
      <4>1. key \in KeysOf(table) \/ Cardinality(KeysOf(table)) < MaxKeys
        <5> HIDE DEF table
        <5> QED
          BY <1>6, <2>2, GateAssumption DEF Full
      <4> HIDE DEF table
      <4>2. Cardinality(KeysOf(table) \cup {key}) =
              IF key \in KeysOf(table) THEN Cardinality(KeysOf(table))
              ELSE Cardinality(KeysOf(table)) + 1
        BY <3>2, FS_AddElement, Zenon
      <4>3. MaxKeys \in Nat
        BY GateAssumption
      <4> QED
        BY <1>6, <4>1, <4>2, <4>3
    <3> HIDE DEF table, left
    <3>4. IsFiniteSet(KeysOf(table) \cup {key})
      BY <3>2, FS_AddElement
    <3>5. /\ Cardinality(KeysOf(left)) <= Cardinality(KeysOf(table) \cup {key})
          /\ IsFiniteSet(KeysOf(left))
      BY <3>1, <3>4, FS_Subset
    <3>6. /\ Cardinality(KeysOf(left)) \in Nat
          /\ Cardinality(KeysOf(table) \cup {key}) \in Nat
      BY <3>4, <3>5, FS_CardinalityType
    <3> QED
      BY <3>3, <3>5, <3>6, GateAssumption
  <2> QED
    BY <2>1, <2>2
<1>11. ASSUME NEW k \in Keys, NEW i \in DOMAIN left[k]
       PROVE  \/ \E j \in DOMAIN events[k] : events[k][j] = left[k][i]
              \/ k = key /\ allowed /\ left[k][i] = now
  <2>1. CASE left[k] = table[k]
    <3> HIDE DEF table, left
    <3> QED
      BY <1>5, <1>11, <2>1 DEF Within
  <2>2. CASE k = key /\ left[k] = queue
    <3>1. PICK j \in DOMAIN table[key] : table[key][j] = left[k][i]
      <4> HIDE DEF table, left, queue
      <4> QED
        BY <1>8, <1>11, <2>2
    <3> HIDE DEF table, left
    <3> QED
      BY <1>5, <2>2, <3>1 DEF Within
  <2>3. CASE k = key /\ allowed /\ left[k] = Append(queue, now)
    <3>1. /\ DOMAIN Append(queue, now) = 1 .. Len(queue) + 1
          /\ DOMAIN queue = 1 .. Len(queue) /\ Len(queue) \in Nat
          /\ \A n \in 1 .. Len(queue) : Append(queue, now)[n] = queue[n]
          /\ Append(queue, now)[Len(queue) + 1] = now
      <4> HIDE DEF queue
      <4> QED
        BY <1>8, AppendProperties
    <3>2. CASE i = Len(queue) + 1
      <4> HIDE DEF left, queue, allowed
      <4> QED
        BY <2>3, <3>1, <3>2
    <3>3. CASE i \in DOMAIN queue
      <4>1. left[k][i] = queue[i]
        <5> HIDE DEF left, queue
        <5> QED
          BY <2>3, <3>1, <3>3
      <4>2. PICK j \in DOMAIN table[key] : table[key][j] = left[k][i]
        <5> HIDE DEF table, left, queue
        <5> QED
          BY <1>8, <3>3, <4>1
      <4> HIDE DEF table, left
      <4> QED
        BY <1>5, <2>3, <4>2 DEF Within
    <3> QED
      <4> HIDE DEF left, queue
      <4> QED
        BY <1>11, <2>3, <3>1, <3>2, <3>3
  <2> QED
    <3> HIDE DEF table, queue, room, allowed
    <3> QED
      BY <1>4, <2>1, <2>2, <2>3 DEF Tables
<1>12. ASSUME ~ allowed
       PROVE  \/ key \in LiveKeys(events, cutoff)
              \/ Cardinality(LiveKeys(events, cutoff)) >= MaxKeys
  <2>1. CASE room
    <3>1. Len(queue) >= Requests /\ Len(queue) \in Nat
      <4> HIDE DEF queue, room
      <4> QED
        BY <1>8, <1>12, <2>1, GateAssumption
    <3>2. queue # <<>>
      <4> HIDE DEF queue
      <4> QED
        BY <3>1, GateAssumption
    <3>3. key \in LiveKeys(table, cutoff)
      BY <1>8, <3>2
    <3> HIDE DEF table, cutoff
    <3> QED
      BY <1>2, <1>4, <1>5, <3>3, WithinHasFewerLive
  <2>2. CASE ~ room
    <3>1. table = Prune(kept, cutoff)
      <4> HIDE DEF kept
      <4> QED
        BY <2>2
    <3>2. KeysOf(table) \subseteq LiveKeys(events, cutoff)
      <4> HIDE DEF kept, table, cutoff
      <4> QED
        BY <1>2, <1>3, <3>1, PruneKeeps, WithinHasFewerLive
    <3>3. Cardinality(KeysOf(table)) >= MaxKeys
      <4> HIDE DEF table
      <4> QED
        BY <2>2 DEF Full
    <3> HIDE DEF table, cutoff
    <3>4. IsFiniteSet(LiveKeys(events, cutoff))
      BY KeysFinite, FS_Subset DEF LiveKeys
    <3>5. /\ Cardinality(LiveKeys(events, cutoff)) \in Nat
          /\ Cardinality(KeysOf(table)) <= Cardinality(LiveKeys(events, cutoff))
      BY <3>2, <3>4, FS_Subset, FS_CardinalityType
    <3> QED
      BY <1>6, <3>3, <3>5, GateAssumption
  <2> QED
    BY <2>1, <2>2
<1> HIDE DEF left, allowed, cutoff
<1> QED
  BY <1>1, <1>9, <1>10, <1>11, <1>12 DEF cutoff

\* The limiter's key stands for the origin of a request.
LEMMA KeyIsOrigin ==
    ASSUME NEW q \in Offers, NEW r \in Offers
    PROVE  Key(q) = Key(r) <=> Origin(q) = Origin(r)
BY DEF Key, Origin, ClientIp

----------------------------------------------------------------------------
(***************************************************************************)
(* The invariant, action by action.                                        *)
(***************************************************************************)
RequestType == [pc : PC, q : Offers \cup {None}, now : Times]

LEMMA GateStart == GateInit => GInv
<1> SUFFICES ASSUME GateInit PROVE GInv
  OBVIOUS
<1>1. TypeOK
  <2>1. Idle \in [pc : PC, q : Offers \cup {None}, now : 0 .. MaxTime]
    BY GateAssumption DEF Idle, PC
  <2>2. events \in [Keys -> Seq(0 .. MaxTime)]
    BY DEF GateInit
  <2>3. ops \in 0 .. PruneEvery - 1 /\ clock \in 0 .. MaxTime
    BY GateAssumption DEF GateInit
  <2> QED
    BY <2>1, <2>2, <2>3 DEF TypeOK, GateInit
<1>2. RequestKnows /\ RelayedIsComplete
  BY DEF GateInit, RequestKnows, RelayedIsComplete, Idle
<1>3. StampsGranted
  <2>1. \A q \in Offers : events[Key(q)] = <<>>
    BY DEF GateInit, Keys
  <2> QED
    BY <2>1 DEF StampsGranted
<1>4. KeysBounded
  <2>1. KeysOf(events) = {}
    BY DEF GateInit, KeysOf
  <2> QED
    BY <2>1, FS_EmptySet, GateAssumption DEF KeysBounded
<1> QED
  BY <1>1, <1>2, <1>3, <1>4 DEF GInv

\* What holds of the request that a thread decides on.
LEMMA Deciding ==
    ASSUME GInv, NEW t \in Threads, req[t].pc = "allow"
    PROVE  /\ req[t].q \in Offers /\ Key(req[t].q) \in Keys /\ Origin(req[t].q) \in Origins
           /\ req[t].now \in Times /\ events \in Tables /\ KeysBounded
BY DEF GInv, TypeOK, RequestKnows, Keys, Origins, Times, Tables, PC

LEMMA ArriveKeeps ==
    ASSUME GInv, NEW t \in Threads, NEW q \in Offers, Arrive(t, q) PROVE GInv'
<1>1. TypeOK'
  <2>1. req \in [Threads -> RequestType]
    BY DEF GInv, TypeOK, RequestType, Times
  <2>2. [pc |-> "allow", q |-> q, now |-> clock] \in RequestType
    BY DEF GInv, TypeOK, RequestType, Times, PC
  <2>3. req' \in [Threads -> RequestType]
    BY <2>1, <2>2 DEF Arrive
  <2> QED
    BY <2>3 DEF GInv, TypeOK, Arrive, limiter, RequestType, Times
<1>2. RequestKnows'
  BY DEF GInv, TypeOK, RequestKnows, Arrive, limiter
<1>3. StampsGranted'
  BY DEF GInv, StampsGranted, Arrive, limiter
<1>4. KeysBounded'
  BY DEF GInv, KeysBounded, KeysOf, Arrive, limiter
<1>5. RelayedIsComplete'
  BY DEF GInv, RelayedIsComplete, Arrive, limiter
<1> QED
  BY <1>1, <1>2, <1>3, <1>4, <1>5 DEF GInv

LEMMA LookupKeeps ==
    ASSUME GInv, NEW t \in Threads, Lookup(t) PROVE GInv'
<1>1. TypeOK'
  <2>1. Idle \in RequestType
    BY GateAssumption DEF RequestType, Times, PC, Idle
  <2>2. req \in [Threads -> RequestType]
    BY DEF GInv, TypeOK, RequestType, Times
  <2>3. [req[t] EXCEPT !.pc = IF Target[req[t].q.record] = None THEN "insert" ELSE "target"] \in RequestType
    BY <2>2 DEF RequestType, PC
  <2>4. req' \in [Threads -> RequestType]
    BY <2>1, <2>2, <2>3 DEF Lookup
  <2> QED
    BY <2>4 DEF GInv, TypeOK, Lookup, limiter, RequestType, Times
<1>2. RequestKnows'
  BY DEF GInv, TypeOK, RequestKnows, Lookup, limiter, Idle
<1>3. StampsGranted'
  BY DEF GInv, StampsGranted, Lookup, limiter
<1>4. KeysBounded'
  BY DEF GInv, KeysBounded, KeysOf, Lookup, limiter
<1>5. RelayedIsComplete'
  BY DEF GInv, RelayedIsComplete, Lookup, limiter
<1> QED
  BY <1>1, <1>2, <1>3, <1>4, <1>5 DEF GInv

LEMMA LookupTargetKeeps ==
    ASSUME GInv, NEW t \in Threads, LookupTarget(t) PROVE GInv'
<1>1. TypeOK'
  <2>1. Idle \in RequestType
    BY GateAssumption DEF RequestType, Times, PC, Idle
  <2>2. req \in [Threads -> RequestType]
    BY DEF GInv, TypeOK, RequestType, Times
  <2>3. [req[t] EXCEPT !.pc = "insert"] \in RequestType
    BY <2>2 DEF RequestType, PC
  <2>4. req' \in [Threads -> RequestType]
    BY <2>1, <2>2, <2>3 DEF LookupTarget
  <2> QED
    BY <2>4 DEF GInv, TypeOK, LookupTarget, limiter, RequestType, Times
<1>2. RequestKnows'
  BY DEF GInv, TypeOK, RequestKnows, LookupTarget, limiter, Idle
<1>3. StampsGranted'
  BY DEF GInv, StampsGranted, LookupTarget, limiter
<1>4. KeysBounded'
  BY DEF GInv, KeysBounded, KeysOf, LookupTarget, limiter
<1>5. RelayedIsComplete'
  BY DEF GInv, RelayedIsComplete, LookupTarget, limiter
<1> QED
  BY <1>1, <1>2, <1>3, <1>4, <1>5 DEF GInv

LEMMA InsertKeeps ==
    ASSUME GInv, NEW t \in Threads, Insert(t) PROVE GInv'
<1>1. TypeOK'
  <2>1. Idle \in RequestType
    BY GateAssumption DEF RequestType, Times, PC, Idle
  <2>2. req \in [Threads -> RequestType]
    BY DEF GInv, TypeOK, RequestType, Times
  <2>3. req' \in [Threads -> RequestType]
    BY <2>1, <2>2 DEF Insert
  <2>4. req[t].q.record \in Records
    BY GateAssumption DEF GInv, RequestKnows, Insert
  <2>5. records' \subseteq Records /\ relayed' \subseteq records'
    BY <2>4 DEF GInv, TypeOK, Insert
  <2> QED
    BY <2>3, <2>5 DEF GInv, TypeOK, Insert, limiter, RequestType, Times
<1>2. RequestKnows'
  BY DEF GInv, TypeOK, RequestKnows, Insert, limiter, Idle
<1>3. StampsGranted'
  BY DEF GInv, StampsGranted, Insert, limiter
<1>4. KeysBounded'
  BY DEF GInv, KeysBounded, KeysOf, Insert, limiter
<1>5. RelayedIsComplete'
  BY DEF GInv, RelayedIsComplete, RequestKnows, Insert, limiter
<1> QED
  BY <1>1, <1>2, <1>3, <1>4, <1>5 DEF GInv

LEMMA TickKeeps == ASSUME GInv, Tick PROVE GInv'
<1>1. TypeOK'
  BY GateAssumption, SMTT(30) DEF GInv, TypeOK, Tick, limiter
<1>2. RequestKnows' /\ StampsGranted' /\ KeysBounded' /\ RelayedIsComplete'
  BY DEF GInv, RequestKnows, StampsGranted, KeysBounded, KeysOf, RelayedIsComplete, Tick, limiter
<1> QED
  BY <1>1, <1>2 DEF GInv

LEMMA SynchroniseKeeps ==
    ASSUME GInv, NEW r \in Records, Synchronise(r) PROVE GInv'
<1>1. TypeOK'
  BY DEF GInv, TypeOK, Synchronise, limiter
<1>2. RequestKnows' /\ StampsGranted' /\ KeysBounded' /\ RelayedIsComplete'
  BY DEF GInv, RequestKnows, StampsGranted, KeysBounded, KeysOf, RelayedIsComplete,
         Synchronise, limiter
<1> QED
  BY <1>1, <1>2 DEF GInv

\* One more request of o let through with stamp x.
Counted(g, o, x) == [g EXCEPT ![o][x] = @ + 1]

LEMMA Counting ==
    ASSUME NEW g \in [Origins -> [Times -> Nat]], NEW o \in Origins, NEW x \in Times
    PROVE  /\ Counted(g, o, x) \in [Origins -> [Times -> Nat]]
           /\ Counted(g, o, x)[o][x] = g[o][x] + 1
           /\ g[o][x] \in Nat
           /\ \A p \in Origins, y \in Times : Counted(g, o, x)[p][y] >= g[p][y]
<1> DEFINE row == [g[o] EXCEPT ![x] = g[o][x] + 1]
<1>1. g[o] \in [Times -> Nat]
  OBVIOUS
<1>2. row \in [Times -> Nat] /\ row[x] = g[o][x] + 1 /\ \A y \in Times : row[y] >= g[o][y]
  BY <1>1
<1>3. Counted(g, o, x) = [g EXCEPT ![o] = row]
  BY DEF Counted
<1> HIDE DEF row
<1> QED
  BY <1>1, <1>2, <1>3

LEMMA AllowKeeps ==
    ASSUME GInv, NEW t \in Threads, Allow(t) PROVE GInv'
<1> DEFINE q == req[t].q
           now == req[t].now
           verdict == Decide(Key(q), now)
<1>1. req[t].pc = "allow"
  BY DEF Allow
<1>2. /\ q \in Offers /\ Key(q) \in Keys /\ Origin(q) \in Origins
      /\ now \in Times /\ events \in Tables /\ KeysBounded
  BY <1>1, Deciding
<1>3. /\ verdict.events \in Tables
      /\ Cardinality(KeysOf(verdict.events)) <= MaxKeys
      /\ \A k \in Keys : \A i \in DOMAIN verdict.events[k] :
            \/ \E j \in DOMAIN events[k] : events[k][j] = verdict.events[k][i]
            \/ k = Key(q) /\ verdict.allowed /\ verdict.events[k][i] = now
  <2> HIDE DEF q, now
  <2> QED
    BY <1>2, Decision
<1>4. /\ events' = verdict.events
      /\ granted' = IF verdict.allowed
                    THEN Counted(granted, Origin(q), now)
                    ELSE granted
      /\ req' = [req EXCEPT ![t] =
           IF verdict.allowed /\ q.kind = "submit" THEN [@ EXCEPT !.pc = "lookup", !.now = 0]
           ELSE Idle]
      /\ ops' = (ops + 1) % PruneEvery
      /\ clock' = clock /\ records' = records /\ relayed' = relayed
  BY DEF Allow, Counted
<1> HIDE DEF verdict
<1>5. granted \in [Origins -> [Times -> Nat]] /\ granted' \in [Origins -> [Times -> Nat]]
  <2>1. granted \in [Origins -> [Times -> Nat]]
    BY DEF GInv, TypeOK, Times
  <2> HIDE DEF q, now
  <2> QED
    BY <1>2, <1>4, <2>1, Counting
<1>6. TypeOK'
  <2>1. Idle \in RequestType
    BY GateAssumption DEF RequestType, Times, PC, Idle
  <2>2. req \in [Threads -> RequestType]
    BY DEF GInv, TypeOK, RequestType, Times
  <2>3. [req[t] EXCEPT !.pc = "lookup", !.now = 0] \in RequestType
    <3>1. 0 \in Times /\ "lookup" \in PC
      BY GateAssumption DEF PC, Times
    <3> QED
      BY <2>2, <3>1 DEF RequestType
  <2>4. req' \in [Threads -> RequestType]
    BY <1>4, <2>1, <2>2, <2>3
  <2>5. ops' \in 0 .. PruneEvery - 1
    <3>1. ops \in Nat
      BY GateAssumption DEF GInv, TypeOK
    <3>2. PruneEvery \in Nat \ {0}
      BY GateAssumption
    <3> QED
      BY <1>4, <3>1, <3>2
  <2> QED
    BY <1>3, <1>4, <1>5, <2>4, <2>5
       DEF GInv, TypeOK, RequestType, Times, Tables
<1>7. RequestKnows'
  BY <1>2, <1>4 DEF GInv, TypeOK, RequestKnows, Idle
<1>8. StampsGranted'
  <2> SUFFICES ASSUME NEW r \in Offers, NEW i \in DOMAIN events'[Key(r)]
               PROVE  granted'[Origin(r)][events'[Key(r)][i]] > 0
    BY DEF StampsGranted
  <2>1. Key(r) \in Keys /\ Origin(r) \in Origins
    BY DEF Keys, Origins
  <2> HIDE DEF q, now
  <2>2. \A o \in Origins, x \in Times : granted'[o][x] >= granted[o][x]
    BY <1>2, <1>4, <1>5, Counting
  <2>3. CASE \E j \in DOMAIN events[Key(r)] : events[Key(r)][j] = events'[Key(r)][i]
    <3>1. PICK j \in DOMAIN events[Key(r)] : events[Key(r)][j] = events'[Key(r)][i]
      BY <2>3
    <3>2. granted[Origin(r)][events[Key(r)][j]] > 0 /\ events[Key(r)][j] \in Times
      BY <1>2, <2>1 DEF GInv, StampsGranted, Tables
    <3> QED
      BY <1>5, <2>1, <2>2, <3>1, <3>2
  <2>4. CASE Key(r) = Key(q) /\ verdict.allowed /\ events'[Key(r)][i] = now
    <3>1. Origin(r) = Origin(q)
      BY <1>2, <2>4, KeyIsOrigin
    <3>2. granted'[Origin(q)][now] = granted[Origin(q)][now] + 1
      BY <1>2, <1>4, <1>5, <2>4, Counting
    <3> QED
      BY <1>2, <1>5, <2>4, <3>1, <3>2
  <2> QED
    BY <1>3, <1>4, <2>1, <2>3, <2>4
<1>9. KeysBounded'
  BY <1>3, <1>4 DEF KeysBounded, KeysOf
<1>10. RelayedIsComplete'
  BY <1>4 DEF GInv, RelayedIsComplete
<1> QED
  BY <1>6, <1>7, <1>8, <1>9, <1>10 DEF GInv

LEMMA GateStep == GInv /\ [GateNext]_gateVars => GInv'
<1> SUFFICES ASSUME GInv, [GateNext]_gateVars PROVE GInv'
  OBVIOUS
<1>1. CASE Tick
  BY <1>1, TickKeeps
<1>2. CASE \E r \in Records : Synchronise(r)
  BY <1>2, SynchroniseKeeps
<1>3. ASSUME NEW t \in Threads, NEW q \in Offers, Arrive(t, q) PROVE GInv'
  BY <1>3, ArriveKeeps
<1>4. ASSUME NEW t \in Threads, Allow(t) PROVE GInv'
  BY <1>4, AllowKeeps
<1>5. ASSUME NEW t \in Threads, Lookup(t) PROVE GInv'
  BY <1>5, LookupKeeps
<1>6. ASSUME NEW t \in Threads, LookupTarget(t) PROVE GInv'
  BY <1>6, LookupTargetKeeps
<1>7. ASSUME NEW t \in Threads, Insert(t) PROVE GInv'
  BY <1>7, InsertKeeps
<1>8. CASE UNCHANGED gateVars
  BY <1>8 DEF gateVars, GInv, TypeOK, RequestKnows, StampsGranted, KeysBounded, KeysOf,
     RelayedIsComplete
<1> QED
  BY <1>1, <1>2, <1>3, <1>4, <1>5, <1>6, <1>7, <1>8 DEF GateNext

LEMMA GateInvariance == GateSpec => []GInv
BY GateStart, GateStep, PTL DEF GateSpec

----------------------------------------------------------------------------
(***************************************************************************)
(* The state of the gate has its type, whatever requests arrive and        *)
(* however the threads of the pool interleave.                             *)
(***************************************************************************)
THEOREM GateTypeCorrect == GateSpec => []TypeOK
BY GateInvariance, PTL DEF GInv

(***************************************************************************)
(* FixedWindowRateLimiter never remembers more than max_keys clients.      *)
(***************************************************************************)
THEOREM TableIsBounded == GateSpec => []KeysBounded
BY GateInvariance, PTL DEF GInv

(***************************************************************************)
(* A record that submit_record accepted is sound, and its target is stored *)
(* although the target was looked up in an earlier step than the insert.   *)
(***************************************************************************)
THEOREM AcceptedIsComplete == GateSpec => []RelayedIsComplete
BY GateInvariance, PTL DEF GInv

\* Origins with a request let through since cutoff are as many as live keys.
LEMMA LiveKeysAreBusy ==
    ASSUME GInv, NEW cutoff \in Int
    PROVE  /\ \A q \in Offers : Key(q) \in LiveKeys(events, cutoff) => Busy(Origin(q), cutoff)
           /\ IsFiniteSet({o \in Origins : Busy(o, cutoff)})
           /\ Cardinality(LiveKeys(events, cutoff))
                <= Cardinality({o \in Origins : Busy(o, cutoff)})
<1> DEFINE busy == {o \in Origins : Busy(o, cutoff)}
           some(k) == CHOOSE q \in Offers : Key(q) = k
           f == [k \in LiveKeys(events, cutoff) |-> Origin(some(k))]
<1>1. ASSUME NEW q \in Offers, Key(q) \in LiveKeys(events, cutoff)
      PROVE  Busy(Origin(q), cutoff)
  <2>1. PICK i \in DOMAIN events[Key(q)] : events[Key(q)][i] > cutoff
    BY <1>1 DEF LiveKeys
  <2>2. events[Key(q)][i] \in 0 .. MaxTime
    <3>1. events \in [Keys -> Seq(Times)] /\ Key(q) \in Keys
      BY DEF GInv, TypeOK, Keys, Times
    <3>2. events[Key(q)][i] \in Times
      BY <3>1
    <3> QED
      BY <3>2 DEF Times
  <2>3. granted[Origin(q)][events[Key(q)][i]] > 0
    BY DEF GInv, StampsGranted
  <2> QED
    BY <2>1, <2>2, <2>3 DEF Busy
<1>2. IsFiniteSet(busy)
  <2>1. [q \in Offers |-> Origin(q)] \in Surjection(Offers, Origins)
    BY Zenon DEF Surjection, Origins
  <2>2. IsFiniteSet(Origins)
    BY <2>1, FS_Surjection, GateAssumption
  <2> QED
    BY <2>2, FS_Subset
<1>3. \A k \in LiveKeys(events, cutoff) : some(k) \in Offers /\ Key(some(k)) = k
  BY DEF LiveKeys, Keys
<1>4. \A k \in LiveKeys(events, cutoff) : Origin(some(k)) \in busy
  <2> HIDE DEF some
  <2> QED
    BY <1>1, <1>3 DEF Origins
<1>5. \A j, k \in LiveKeys(events, cutoff) : Origin(some(j)) = Origin(some(k)) => j = k
  <2> HIDE DEF some
  <2> QED
    BY <1>3, KeyIsOrigin
<1>6. f \in Injection(LiveKeys(events, cutoff), busy)
  <2> HIDE DEF some, busy
  <2> QED
    BY <1>4, <1>5 DEF Injection, IsInjective
<1> QED
  <2> HIDE DEF f, busy
  <2>1. Cardinality(LiveKeys(events, cutoff)) <= Cardinality(busy)
    BY <1>2, <1>6, FS_Injection
  <2> QED
    BY <1>1, <1>2, <2>1 DEF busy

\* One step: who leaves "allow" without a grant was refused for a live cause.
LEMMA RefusalStep ==
    ASSUME GInv, [GateNext]_gateVars, NEW t \in Threads,
           req[t].pc = "allow", req'[t].pc # "allow", granted' = granted
    PROVE  LET cutoff == req[t].now - Window
           IN  \/ Busy(Origin(req[t].q), cutoff)
               \/ Cardinality({o \in Origins : Busy(o, cutoff)}) >= MaxKeys
<1> DEFINE q == req[t].q
           now == req[t].now
           cutoff == now - Window
           verdict == Decide(Key(q), now)
<1>1. /\ q \in Offers /\ Key(q) \in Keys /\ Origin(q) \in Origins
      /\ now \in Times /\ events \in Tables /\ KeysBounded
  BY Deciding
<1>2. req \in [Threads -> RequestType]
  BY DEF GInv, TypeOK, RequestType, Times
<1>3. Allow(t)
  <2>1. ASSUME NEW u \in Threads, u # t,
               \/ \E p \in Offers : Arrive(u, p)
               \/ Allow(u) \/ Lookup(u) \/ LookupTarget(u) \/ Insert(u)
        PROVE  FALSE
    <3>1. \E v : req' = [req EXCEPT ![u] = v]
      BY <2>1 DEF Arrive, Allow, Lookup, LookupTarget, Insert
    <3> QED
      BY <1>2, <2>1, <3>1
  <2>2. ~ Tick /\ ~ (\E r \in Records : Synchronise(r)) /\ ~ UNCHANGED gateVars
    BY DEF Tick, Synchronise, gateVars
  <2>3. /\ \A p \in Offers : ~ Arrive(t, p)
        /\ ~ Lookup(t) /\ ~ LookupTarget(t) /\ ~ Insert(t)
    BY DEF Arrive, Lookup, LookupTarget, Insert
  <2> QED
    BY <2>1, <2>2, <2>3 DEF GateNext
<1>4. ~ verdict.allowed
  <2>1. granted \in [Origins -> [Times -> Nat]]
    BY DEF GInv, TypeOK, Times
  <2>2. granted' = IF verdict.allowed
                   THEN Counted(granted, Origin(q), now)
                   ELSE granted
    BY <1>3 DEF Allow, Counted
  <2> HIDE DEF verdict, q, now
  <2> SUFFICES ASSUME verdict.allowed PROVE FALSE
    OBVIOUS
  <2>3. granted' = Counted(granted, Origin(q), now)
    BY <2>2
  <2>4. /\ Counted(granted, Origin(q), now)[Origin(q)][now] = granted[Origin(q)][now] + 1
        /\ granted[Origin(q)][now] \in Nat
    BY <1>1, <2>1, Counting
  <2>5. granted[Origin(q)][now] = granted[Origin(q)][now] + 1
    BY <2>3, <2>4, Zenon
  <2>6. \A n \in Nat : n # n + 1
    OBVIOUS
  <2> QED
    BY <2>4, <2>5, <2>6
<1>5. \/ Key(q) \in LiveKeys(events, cutoff)
      \/ Cardinality(LiveKeys(events, cutoff)) >= MaxKeys
  <2> HIDE DEF q, now
  <2> QED
    BY <1>1, <1>4, Decision
<1>6. cutoff \in Int
  BY <1>1, GateAssumption DEF Times
<1> HIDE DEF cutoff, q
<1>7. /\ Key(q) \in LiveKeys(events, cutoff) => Busy(Origin(q), cutoff)
      /\ IsFiniteSet({o \in Origins : Busy(o, cutoff)})
      /\ Cardinality(LiveKeys(events, cutoff))
           <= Cardinality({o \in Origins : Busy(o, cutoff)})
  BY <1>1, <1>6, LiveKeysAreBusy
<1>8. /\ Cardinality({o \in Origins : Busy(o, cutoff)}) \in Nat
      /\ Cardinality(LiveKeys(events, cutoff)) \in Nat
  <2>1. IsFiniteSet(LiveKeys(events, cutoff))
    BY KeysFinite, FS_Subset DEF LiveKeys
  <2> QED
    BY <1>7, <2>1, FS_CardinalityType
<1>9. \/ Busy(Origin(q), cutoff)
      \/ Cardinality({o \in Origins : Busy(o, cutoff)}) >= MaxKeys
  BY <1>5, <1>7, <1>8, GateAssumption
<1> QED
  BY <1>9 DEF cutoff, q

(***************************************************************************)
(* A client is refused only when it, or max_keys clients, had requests let *)
(* through within the window: refusals and expired keys never lock anybody *)
(* out (FixedWindowRateLimiter.allow and _prune).                          *)
(***************************************************************************)
THEOREM RefusalsHaveCause == GateSpec => RefusedOnlyWhenBusy
<1>1. GInv /\ [GateNext]_gateVars =>
        [\A t \in Threads :
           req[t].pc = "allow" /\ req'[t].pc # "allow" /\ granted' = granted =>
             LET cutoff == req[t].now - Window
             IN  \/ Busy(Origin(req[t].q), cutoff)
                 \/ Cardinality({o \in Origins : Busy(o, cutoff)}) >= MaxKeys]_gateVars
  BY RefusalStep
<1> QED
  BY <1>1, GateInvariance, PTL DEF GateSpec, RefusedOnlyWhenBusy

----------------------------------------------------------------------------
(***************************************************************************)
(* The bound on a window.  As long as nobody with a later stamp has asked, *)
(* all requests let through in the window that ends at s still have their  *)
(* stamp in the queue.  The first one that expires such a stamp has read   *)
(* the clock after s: from then on only the other threads that had read it *)
(* before can still be let through with a stamp of that window.            *)
(***************************************************************************)
Stamped(queue, s) == {i \in DOMAIN queue : s - Window < queue[i] /\ queue[i] <= s}
Late(s) == {t \in Threads : req[t].pc = "allow" /\ req[t].now <= s}

QueuesShort == \A k \in Keys : Len(events[k]) <= Requests
StampsPast == \A t \in Threads : req[t].now <= clock
GrantsFinite == \A o \in Origins, s \in Times : IsFiniteSet(InWindow(o, s))
GrantsCounted ==
    \A q \in Offers, s \in Times :
        \/ Cardinality(InWindow(Origin(q), s)) <= Cardinality(Stamped(events[Key(q)], s))
        \/ /\ clock > s
           /\ Cardinality(InWindow(Origin(q), s)) + Cardinality(Late(s))
                <= Requests + Cardinality(Threads) - 1

BInv == GInv /\ QueuesShort /\ StampsPast /\ GrantsFinite /\ GrantsCounted

\* Expire takes a number of expired stamps from the head of the queue.
LEMMA ExpireDrops ==
    ASSUME NEW queue \in Seq(Times), NEW cutoff \in Int
    PROVE  \E d \in 0 .. Len(queue) :
             /\ Len(Expire(queue, cutoff)) = Len(queue) - d
             /\ \A i \in 1 .. Len(queue) - d : Expire(queue, cutoff)[i] = queue[i + d]
             /\ \A i \in 1 .. d : ~ (queue[i] > cutoff)
<1> DEFINE live == {i \in DOMAIN queue : queue[i] > cutoff}
           first == CHOOSE i \in live : \A j \in live : i <= j
           kept == SubSeq(queue, first, Len(queue))
<1>0. DOMAIN queue = 1 .. Len(queue) /\ Len(queue) \in Nat
  OBVIOUS
<1>1. CASE live = {}
  <2>1. Expire(queue, cutoff) = <<>>
    BY <1>1 DEF Expire
  <2>2. \A i \in 1 .. Len(queue) : ~ (queue[i] > cutoff)
    BY <1>0, <1>1
  <2>3. Len(Expire(queue, cutoff)) = 0
    BY <2>1
  <2> WITNESS Len(queue) \in 0 .. Len(queue)
  <2> QED
    BY <1>0, <2>2, <2>3
<1>2. CASE live # {}
  <2>1. Expire(queue, cutoff) = kept
    BY <1>2 DEF Expire
  <2>2. live \in SUBSET Nat
    BY <1>0
  <2>3. \E i \in live : \A j \in live : i <= j
    <3> HIDE DEF live
    <3> QED
      BY <1>2, <2>2, FirstPosition
  <2>4. first \in live /\ \A j \in live : first <= j
    <3> HIDE DEF live
    <3> QED
      BY <2>3
  <2>5. first \in 1 .. Len(queue)
    <3> HIDE DEF first
    <3> QED
      BY <1>0, <2>4
  <2>6. /\ Len(kept) = Len(queue) - first + 1
        /\ \A i \in 1 .. Len(queue) - first + 1 : kept[i] = queue[first + i - 1]
    <3>1. \A i \in first .. Len(queue) : queue[i] \in Times
      <4> HIDE DEF first
      <4> QED
        BY <1>0, <2>5
    <3> HIDE DEF first
    <3> QED
      BY <1>0, <2>5, <3>1, SubSeqProperties
  <2>7. \A i \in 1 .. first - 1 : ~ (queue[i] > cutoff)
    <3> SUFFICES ASSUME NEW i \in 1 .. first - 1, queue[i] > cutoff PROVE FALSE
      OBVIOUS
    <3>1. i \in 1 .. Len(queue) /\ i < first
      <4> HIDE DEF first
      <4> QED
        BY <1>0, <2>5
    <3>2. i \in live
      BY <1>0, <3>1
    <3>3. i \in Nat /\ first \in Nat
      <4> HIDE DEF first, live
      <4> QED
        BY <1>0, <2>5, <3>1
    <3> HIDE DEF first, live
    <3> QED
      BY <2>4, <3>1, <3>2, <3>3
  <2> DEFINE d == first - 1
  <2> HIDE DEF first, kept, live
  <2>8. d \in 0 .. Len(queue) /\ Len(queue) - d = Len(queue) - first + 1
    BY <1>0, <2>5
  <2>9. \A i \in 1 .. Len(queue) - d : kept[i] = queue[i + d]
    <3> TAKE i \in 1 .. Len(queue) - d
    <3>1. i \in 1 .. Len(queue) - first + 1 /\ first + i - 1 = i + d
      BY <1>0, <2>5, <2>8
    <3> QED
      BY <2>6, <3>1
  <2>10. Len(kept) = Len(queue) - d /\ \A i \in 1 .. d : ~ (queue[i] > cutoff)
    BY <2>6, <2>7, <2>8
  <2> HIDE DEF d
  <2> QED
    BY <2>1, <2>8, <2>9, <2>10
<1> QED
  BY <1>1, <1>2

\* There are finitely many stamps in a window, as many as the queue is long.
LEMMA StampedBounded ==
    ASSUME NEW queue \in Seq(Times), NEW s \in Times
    PROVE  /\ IsFiniteSet(Stamped(queue, s))
           /\ Cardinality(Stamped(queue, s)) \in Nat
           /\ Cardinality(Stamped(queue, s)) <= Len(queue)
<1>1. DOMAIN queue = 1 .. Len(queue) /\ Len(queue) \in Nat
  OBVIOUS
<1>2. IsFiniteSet(1 .. Len(queue)) /\ Cardinality(1 .. Len(queue)) = Len(queue)
  BY <1>1, FS_Interval, SMTT(30)
<1>3. Stamped(queue, s) \in SUBSET (1 .. Len(queue))
  BY <1>1 DEF Stamped
<1>4. /\ IsFiniteSet(Stamped(queue, s))
      /\ Cardinality(Stamped(queue, s)) <= Cardinality(1 .. Len(queue))
  BY <1>2, <1>3, FS_Subset
<1> QED
  BY <1>2, <1>4, FS_CardinalityType

\* What Expire drops is not in a window that begins after the cutoff.
LEMMA ExpireCounts ==
    ASSUME NEW queue \in Seq(Times), NEW cutoff \in Int
    PROVE  /\ Len(Expire(queue, cutoff)) <= Len(queue)
           /\ \A s \in Times : cutoff <= s - Window =>
                Cardinality(Stamped(queue, s)) <= Cardinality(Stamped(Expire(queue, cutoff), s))
<1> DEFINE rest == Expire(queue, cutoff)
<1>1. rest \in Seq(Times)
  BY ExpireKeeps
<1> HIDE DEF rest
<1>2. PICK d \in 0 .. Len(queue) :
             /\ Len(rest) = Len(queue) - d
             /\ \A i \in 1 .. Len(queue) - d : rest[i] = queue[i + d]
             /\ \A i \in 1 .. d : ~ (queue[i] > cutoff)
  BY ExpireDrops DEF rest
<1>3. /\ Len(queue) \in Nat /\ d \in Nat /\ d <= Len(queue)
      /\ DOMAIN queue = 1 .. Len(queue) /\ DOMAIN rest = 1 .. Len(queue) - d
  BY <1>1, <1>2
<1>4. ASSUME NEW s \in Times, cutoff <= s - Window
      PROVE  Cardinality(Stamped(queue, s)) <= Cardinality(Stamped(rest, s))
  <2> DEFINE f == [i \in Stamped(queue, s) |-> i - d]
  <2>1. ASSUME NEW i \in Stamped(queue, s) PROVE i \in Nat /\ i > d /\ i - d \in Stamped(rest, s)
    <3>1. i \in 1 .. Len(queue) /\ s - Window < queue[i] /\ queue[i] <= s
      BY <1>3 DEF Stamped
    <3>2. queue[i] \in Times /\ s \in Int /\ Window \in Int
      BY <1>3, <3>1, GateAssumption DEF Times
    <3>3. queue[i] > cutoff
      BY <1>4, <3>1, <3>2 DEF Times
    <3>4. i > d
      BY <1>2, <1>3, <3>1, <3>3
    <3>5. i - d \in 1 .. Len(queue) - d /\ (i - d) + d = i
      BY <1>3, <3>1, <3>4
    <3>6. rest[i - d] = queue[i]
      BY <1>2, <3>5
    <3> QED
      BY <1>3, <3>1, <3>4, <3>5, <3>6 DEF Stamped
  <2>2. \A i, j \in Stamped(queue, s) : i - d = j - d => i = j
    BY <1>3, <2>1
  <2>3. f \in Injection(Stamped(queue, s), Stamped(rest, s))
    BY <2>1, <2>2 DEF Injection, IsInjective
  <2> HIDE DEF f
  <2>4. IsFiniteSet(Stamped(rest, s))
    BY <1>1, StampedBounded
  <2> QED
    BY <2>3, <2>4, FS_Injection
<1> QED
  BY <1>2, <1>3, <1>4 DEF rest

\* A new stamp is one more in the windows it falls in.
LEMMA AppendCounts ==
    ASSUME NEW queue \in Seq(Times), NEW now \in Times, NEW s \in Times
    PROVE  Cardinality(Stamped(Append(queue, now), s)) =
             Cardinality(Stamped(queue, s)) + (IF s - Window < now /\ now <= s THEN 1 ELSE 0)
<1> DEFINE longer == Append(queue, now)
           n == Len(queue) + 1
<1>1. /\ DOMAIN longer = 1 .. n /\ Len(queue) \in Nat /\ DOMAIN queue = 1 .. Len(queue)
      /\ \A i \in 1 .. Len(queue) : longer[i] = queue[i]
      /\ longer[n] = now
  BY AppendProperties
<1>2. IsFiniteSet(Stamped(queue, s)) /\ Cardinality(Stamped(queue, s)) \in Nat
  BY StampedBounded
<1> HIDE DEF longer
<1>3. n \notin Stamped(queue, s)
  BY <1>1 DEF Stamped
<1>4. CASE s - Window < now /\ now <= s
  <2>1. Stamped(longer, s) = Stamped(queue, s) \cup {n}
    BY <1>1, <1>4 DEF Stamped
  <2> HIDE DEF n
  <2>2. Cardinality(Stamped(queue, s) \cup {n}) = Cardinality(Stamped(queue, s)) + 1
    BY <1>2, <1>3, FS_AddElement
  <2> QED
    BY <1>4, <2>1, <2>2 DEF longer
<1>5. CASE ~ (s - Window < now /\ now <= s)
  <2>1. Stamped(longer, s) = Stamped(queue, s)
    BY <1>1, <1>5 DEF Stamped
  <2> QED
    BY <1>2, <1>5, <2>1 DEF longer
<1> QED
  BY <1>4, <1>5

\* What a decision does to the lengths of the queues and to the stamps in the
\* windows that have not ended when the request read the clock.
LEMMA DecisionCounts ==
    ASSUME events \in Tables, QueuesShort, NEW key \in Keys, NEW now \in Times
    PROVE  LET verdict == Decide(key, now)
           IN  \A k \in Keys :
                 /\ Len(verdict.events[k]) <= Requests
                 /\ \A s \in Times : now <= s =>
                      Cardinality(Stamped(events[k], s))
                        + (IF verdict.allowed /\ k = key /\ s - Window < now THEN 1 ELSE 0)
                      <= Cardinality(Stamped(verdict.events[k], s))
<1> DEFINE cutoff == now - Window
           kept == IF ops + 1 = PruneEvery THEN Prune(events, cutoff) ELSE events
           table == IF key \notin KeysOf(kept) /\ Full(kept) THEN Prune(kept, cutoff) ELSE kept
           room == key \in KeysOf(table) \/ ~ Full(table)
           queue == Expire(table[key], cutoff)
           allowed == room /\ Len(queue) < Requests
           left == IF ~ room THEN table
                   ELSE [table EXCEPT ![key] = IF allowed THEN Append(queue, now) ELSE queue]
           Keeps(small, large) ==
             \A k \in Keys : /\ Len(small[k]) <= Len(large[k])
                             /\ \A s \in Times : now <= s =>
                                  Cardinality(Stamped(large[k], s))
                                    <= Cardinality(Stamped(small[k], s))
<1>1. Decide(key, now).allowed = allowed /\ Decide(key, now).events = left
  BY DEF Decide
<1>2. /\ cutoff \in Int /\ now \in Int /\ Window \in Int /\ Requests \in Nat
      /\ \A s \in Times : s \in Int /\ (now <= s => cutoff <= s - Window)
  BY GateAssumption DEF Times
<1>3. ASSUME NEW a \in Tables PROVE Prune(a, cutoff) \in Tables /\ Keeps(Prune(a, cutoff), a)
  <2>1. \A k \in Keys : a[k] \in Seq(Times) /\ Prune(a, cutoff)[k] = Expire(a[k], cutoff)
    BY DEF Tables, Prune
  <2> HIDE DEF cutoff
  <2> QED
    BY <1>2, <2>1, ExpireCounts, PruneKeeps
<1>4. \A a \in Tables : Keeps(a, a)
  <2> SUFFICES ASSUME NEW a \in Tables, NEW k \in Keys
               PROVE  /\ Len(a[k]) <= Len(a[k])
                      /\ \A s \in Times :
                           Cardinality(Stamped(a[k], s)) <= Cardinality(Stamped(a[k], s))
    OBVIOUS
  <2>1. a[k] \in Seq(Times)
    BY DEF Tables
  <2>2. Len(a[k]) \in Nat /\ \A s \in Times : Cardinality(Stamped(a[k], s)) \in Nat
    BY <2>1, StampedBounded
  <2> QED
    BY <2>2
<1>5. ASSUME NEW a \in Tables, NEW b \in Tables, NEW c \in Tables, Keeps(a, b), Keeps(b, c)
      PROVE  Keeps(a, c)
  <2>1. ASSUME NEW k \in Keys, NEW x \in Tables
        PROVE  Len(x[k]) \in Nat /\ \A s \in Times : Cardinality(Stamped(x[k], s)) \in Nat
    <3>1. x[k] \in Seq(Times)
      BY DEF Tables
    <3> QED
      BY <3>1, StampedBounded
  <2> TAKE k \in Keys
  <2>2. Len(a[k]) <= Len(c[k])
    BY <1>5, <2>1, SMTT(30)
  <2>3. ASSUME NEW s \in Times, now <= s
        PROVE  Cardinality(Stamped(c[k], s)) <= Cardinality(Stamped(a[k], s))
    <3>1. /\ Cardinality(Stamped(c[k], s)) <= Cardinality(Stamped(b[k], s))
          /\ Cardinality(Stamped(b[k], s)) <= Cardinality(Stamped(a[k], s))
      BY <1>5, <2>3
    <3>2. \A x \in Tables : Cardinality(Stamped(x[k], s)) \in Nat
      BY <2>1
    <3> QED
      BY <3>1, <3>2
  <2> QED
    BY <2>2, <2>3
<1>6. kept \in Tables /\ Keeps(kept, events)
  <2> HIDE DEF cutoff, Keeps
  <2> QED
    BY <1>3, <1>4
<1>7. table \in Tables /\ Keeps(table, kept)
  <2> HIDE DEF cutoff, Keeps, kept
  <2> QED
    BY <1>3, <1>4, <1>6
<1>8. Keeps(table, events)
  <2> HIDE DEF Keeps, kept, table
  <2> QED
    BY <1>5, <1>6, <1>7
<1>9. table[key] \in Seq(Times) /\ events[key] \in Seq(Times)
  <2> HIDE DEF table
  <2> QED
    BY <1>7 DEF Tables
<1>10. /\ queue \in Seq(Times) /\ Len(queue) \in Nat
       /\ Len(queue) <= Len(table[key])
       /\ \A s \in Times : now <= s =>
            Cardinality(Stamped(table[key], s)) <= Cardinality(Stamped(queue, s))
  <2>1. queue \in Seq(Times)
    <3> HIDE DEF table, cutoff
    <3> QED
      BY <1>2, <1>9, ExpireKeeps
  <2>2. Len(queue) \in Nat
    <3> HIDE DEF queue
    <3> QED
      BY <2>1
  <2> HIDE DEF table, cutoff
  <2> QED
    BY <1>2, <1>9, <2>1, <2>2, ExpireCounts
<1>11. ASSUME NEW k \in Keys
       PROVE  /\ Len(left[k]) <= Requests
              /\ \A s \in Times : now <= s =>
                   Cardinality(Stamped(events[k], s))
                     + (IF allowed /\ k = key /\ s - Window < now THEN 1 ELSE 0)
                   <= Cardinality(Stamped(left[k], s))
  <2>1. /\ events[k] \in Seq(Times) /\ table[k] \in Seq(Times)
        /\ Len(table[k]) <= Len(events[k])
        /\ \A s \in Times : now <= s =>
             Cardinality(Stamped(events[k], s)) <= Cardinality(Stamped(table[k], s))
    <3> HIDE DEF table
    <3> QED
      BY <1>7, <1>8 DEF Tables
  <2>2. Len(events[k]) <= Requests
    BY DEF QueuesShort
  <2>3. Len(table[k]) \in Nat /\ Len(events[k]) \in Nat
    <3> HIDE DEF table
    <3> QED
      BY <2>1
  <2>4. Len(table[k]) <= Requests
    <3> HIDE DEF table
    <3> QED
      BY <1>2, <2>1, <2>2, <2>3
  <2>5. \A s \in Times : /\ Cardinality(Stamped(events[k], s)) \in Nat
                         /\ Cardinality(Stamped(table[k], s)) \in Nat
                         /\ Cardinality(Stamped(queue, s)) \in Nat
    <3> HIDE DEF table, queue
    <3> QED
      BY <1>10, <2>1, StampedBounded
  <2>6. CASE k # key \/ ~ room
    <3>1. left[k] = table[k] /\ ~ (allowed /\ k = key)
      <4> HIDE DEF table, queue
      <4> QED
        BY <1>7, <2>6 DEF Tables
    <3> HIDE DEF left, table, allowed, queue
    <3> QED
      BY <2>1, <2>4, <2>5, <3>1
  <2>7. CASE k = key /\ room /\ ~ allowed
    <3>1. left[k] = queue
      <4> HIDE DEF table, queue, room, allowed
      <4> QED
        BY <1>7, <2>7 DEF Tables
    <3>2. Len(queue) <= Requests
      <4> HIDE DEF table, queue
      <4> QED
        BY <1>2, <1>10, <2>3, <2>4, <2>7
    <3>3. ASSUME NEW s \in Times, now <= s
          PROVE  Cardinality(Stamped(events[k], s)) + 0 <= Cardinality(Stamped(queue, s))
      <4> HIDE DEF table, queue
      <4> QED
        BY <1>10, <2>1, <2>5, <2>7, <3>3
    <3> HIDE DEF left, table, allowed, queue, room
    <3> QED
      BY <2>7, <3>1, <3>2, <3>3
  <2>8. CASE k = key /\ room /\ allowed
    <3>1. left[k] = Append(queue, now) /\ Len(queue) < Requests
      <4>1. left[k] = Append(queue, now)
        <5> HIDE DEF table, queue, room, allowed
        <5> QED
          BY <1>7, <2>8 DEF Tables
      <4> QED
        BY <2>8, <4>1
    <3>2. Len(Append(queue, now)) = Len(queue) + 1
      <4> HIDE DEF queue
      <4> QED
        BY <1>10
    <3>3. \A s \in Times : now <= s =>
            Cardinality(Stamped(Append(queue, now), s)) =
              Cardinality(Stamped(queue, s)) + (IF s - Window < now THEN 1 ELSE 0)
      <4> HIDE DEF queue
      <4> QED
        BY <1>10, AppendCounts
    <3>4. Len(left[k]) <= Requests
      <4> HIDE DEF left, queue
      <4> QED
        BY <1>2, <1>10, <3>1, <3>2
    <3>5. ASSUME NEW s \in Times, now <= s
          PROVE  Cardinality(Stamped(events[k], s)) + (IF s - Window < now THEN 1 ELSE 0)
                   <= Cardinality(Stamped(left[k], s))
      <4>1. Cardinality(Stamped(events[k], s)) <= Cardinality(Stamped(queue, s))
        <5> HIDE DEF table, queue
        <5> QED
          BY <1>10, <2>1, <2>5, <2>8, <3>5
      <4> HIDE DEF left, queue
      <4> QED
        BY <2>5, <3>1, <3>3, <3>5, <4>1
    <3> HIDE DEF left, queue, allowed, room
    <3> QED
      BY <2>8, <3>4, <3>5
  <2> QED
    <3> HIDE DEF left, room
    <3> QED
      BY <2>6, <2>7, <2>8
<1> HIDE DEF left, allowed
<1> QED
  BY <1>1, <1>11

\* One more request let through is one more in the windows of its stamp.
Grants(g, o, s) ==
    UNION {{x} \X (1 .. g[o][x]) : x \in {y \in Times : s - Window < y /\ y <= s}}

LEMMA GrantsAre == \A o, s : InWindow(o, s) = Grants(granted, o, s)
BY DEF InWindow, Grants, Times

LEMMA GrantCounts ==
    ASSUME NEW g \in [Origins -> [Times -> Nat]], NEW o \in Origins, NEW x \in Times,
           NEW p \in Origins, NEW s \in Times, IsFiniteSet(Grants(g, p, s))
    PROVE  /\ IsFiniteSet(Grants(Counted(g, o, x), p, s))
           /\ Cardinality(Grants(Counted(g, o, x), p, s)) =
                Cardinality(Grants(g, p, s))
                  + (IF p = o /\ s - Window < x /\ x <= s THEN 1 ELSE 0)
<1> DEFINE h == Counted(g, o, x)
           n == g[o][x] + 1
<1>1. /\ h \in [Origins -> [Times -> Nat]] /\ g[o][x] \in Nat
      /\ h[o][x] = n
  BY Counting
<1>2. ASSUME NEW y \in Times, p # o \/ y # x PROVE h[p][y] = g[p][y]
  <2>1. h = [g EXCEPT ![o] = [g[o] EXCEPT ![x] = g[o][x] + 1]]
    BY DEF Counted
  <2>2. g[o] \in [Times -> Nat]
    OBVIOUS
  <2> HIDE DEF h
  <2> QED
    BY <1>2, <2>1, <2>2
<1>3. Cardinality(Grants(g, p, s)) \in Nat
  BY FS_CardinalityType
<1> HIDE DEF h
<1>4. CASE p = o /\ s - Window < x /\ x <= s
  <2>1. Grants(h, p, s) = Grants(g, p, s) \cup {<<x, n>>}
    <3>1. 1 .. h[o][x] = (1 .. g[o][x]) \cup {n}
      <4>1. \A c \in Nat : 1 .. c + 1 = (1 .. c) \cup {c + 1}
        OBVIOUS
      <4> QED
        BY <1>1, <4>1
    <3>2. {x} \X (1 .. h[o][x]) = ({x} \X (1 .. g[o][x])) \cup {<<x, n>>}
      <4> HIDE DEF n
      <4> QED
        BY <3>1
    <3>3. \A y \in Times : y # x => {y} \X (1 .. h[p][y]) = {y} \X (1 .. g[p][y])
      BY <1>2
    <3> HIDE DEF n
    <3> QED
      BY <1>4, <3>2, <3>3 DEF Grants
  <2>2. <<x, n>> \notin Grants(g, p, s)
    <3> SUFFICES ASSUME NEW y \in Times, <<x, n>> \in {y} \X (1 .. g[p][y]) PROVE FALSE
      BY DEF Grants
    <3>1. y = x /\ n \in 1 .. g[p][y]
      <4> HIDE DEF n
      <4> QED
        OBVIOUS
    <3> QED
      BY <1>1, <1>4, <3>1
  <2> HIDE DEF n
  <2>3. /\ IsFiniteSet(Grants(g, p, s) \cup {<<x, n>>})
        /\ Cardinality(Grants(g, p, s) \cup {<<x, n>>}) = Cardinality(Grants(g, p, s)) + 1
    BY <2>2, FS_AddElement
  <2> QED
    BY <1>4, <2>1, <2>3 DEF h
<1>5. CASE ~ (p = o /\ s - Window < x /\ x <= s)
  <2>1. Grants(h, p, s) = Grants(g, p, s)
    <3>1. \A y \in Times : s - Window < y /\ y <= s => h[p][y] = g[p][y]
      BY <1>2, <1>5
    <3> QED
      BY <3>1 DEF Grants
  <2> QED
    BY <1>3, <1>5, <2>1 DEF h
<1> QED
  BY <1>4, <1>5

\* The threads that may still be let through with a stamp up to s.
LEMMA LateBounded ==
    ASSUME NEW s
    PROVE  /\ IsFiniteSet(Late(s)) /\ Cardinality(Late(s)) \in Nat
           /\ Cardinality(Threads) \in Nat \ {0}
           /\ Cardinality(Late(s)) <= Cardinality(Threads)
<1>1. IsFiniteSet(Threads) /\ Threads # {}
  BY GateAssumption
<1>2. Cardinality(Threads) \in Nat /\ Cardinality(Threads) # 0
  BY <1>1, FS_CardinalityType, FS_EmptySet
<1>3. Late(s) \in SUBSET Threads
  BY DEF Late
<1> QED
  BY <1>1, <1>2, <1>3, FS_Subset, FS_CardinalityType

LEMMA CountsStart == GateInit => BInv
<1> SUFFICES ASSUME GateInit PROVE BInv
  OBVIOUS
<1>1. GInv
  BY GateStart
<1>2. QueuesShort
  <2>1. \A k \in Keys : Len(events[k]) = 0
    BY DEF GateInit
  <2> QED
    BY <2>1, GateAssumption DEF QueuesShort
<1>3. StampsPast
  BY DEF GateInit, StampsPast, Idle
<1>4. \A o \in Origins, s \in Times : InWindow(o, s) = {}
  <2>1. \A o \in Origins, x \in Times : granted[o][x] = 0
    BY DEF GateInit, Times
  <2>2. \A o \in Origins, x \in Times : 1 .. granted[o][x] = {}
    BY <2>1
  <2> QED
    BY <2>2, GrantsAre DEF Grants
<1>5. GrantsFinite
  BY <1>4, FS_EmptySet DEF GrantsFinite
<1>6. GrantsCounted
  <2> SUFFICES ASSUME NEW q \in Offers, NEW s \in Times
               PROVE  Cardinality(InWindow(Origin(q), s)) <= Cardinality(Stamped(events[Key(q)], s))
    BY DEF GrantsCounted
  <2>1. Origin(q) \in Origins /\ Key(q) \in Keys
    BY DEF Origins, Keys
  <2>2. Cardinality(InWindow(Origin(q), s)) = 0
    BY <1>4, <2>1, FS_EmptySet
  <2>3. events[Key(q)] \in Seq(Times)
    BY <1>1, <2>1 DEF GInv, TypeOK, Times
  <2>4. Cardinality(Stamped(events[Key(q)], s)) \in Nat
    BY <2>3, StampedBounded
  <2> QED
    BY <2>2, <2>4
<1> QED
  BY <1>1, <1>2, <1>3, <1>5, <1>6 DEF BInv

\* A step that leaves the limiter and the grants alone, and after which no
\* more threads are late.
LEMMA CountsStay ==
    ASSUME BInv, GInv', UNCHANGED <<events, granted>>, StampsPast', clock' \in Int, clock' >= clock,
           \A s \in Times : clock > s => Late(s)' \subseteq Late(s)
    PROVE  BInv'
<1>1. QueuesShort' /\ GrantsFinite'
  BY DEF BInv, QueuesShort, GrantsFinite, InWindow
<1>2. GrantsCounted'
  <2> SUFFICES ASSUME NEW q \in Offers, NEW s \in Times,
                      ~ (Cardinality(InWindow(Origin(q), s)) <= Cardinality(Stamped(events[Key(q)], s)))
               PROVE  /\ clock' > s
                      /\ Cardinality(InWindow(Origin(q), s)) + Cardinality(Late(s)')
                           <= Requests + Cardinality(Threads) - 1
    BY DEF GrantsCounted, InWindow, Stamped
  <2>1. /\ clock > s
        /\ Cardinality(InWindow(Origin(q), s)) + Cardinality(Late(s))
             <= Requests + Cardinality(Threads) - 1
    BY DEF BInv, GrantsCounted
  <2>2. Late(s)' \in SUBSET Late(s) /\ clock \in Int /\ s \in Int
    BY <2>1 DEF BInv, GInv, TypeOK, Times
  <2>3. /\ Cardinality(Late(s)') \in Nat /\ Cardinality(Late(s)) \in Nat
        /\ Cardinality(Late(s)') <= Cardinality(Late(s))
    BY <2>2, LateBounded, FS_Subset, FS_CardinalityType
  <2>4. Origin(q) \in Origins
    BY DEF Origins
  <2>5. Cardinality(InWindow(Origin(q), s)) \in Nat
    BY <2>4, FS_CardinalityType DEF BInv, GrantsFinite
  <2>6. Requests + Cardinality(Threads) - 1 \in Int
    BY LateBounded, GateAssumption
  <2> QED
    BY <2>1, <2>2, <2>3, <2>5, <2>6
<1> QED
  BY <1>1, <1>2 DEF BInv

\* allow under the lock: with a stamp within the window or before it nothing
\* of the window expires; with a later one the queue still held all of it.
LEMMA AllowCounts ==
    ASSUME BInv, NEW t \in Threads, Allow(t) PROVE BInv'
<1> DEFINE q == req[t].q
           now == req[t].now
           verdict == Decide(Key(q), now)
<1>1. req[t].pc = "allow" /\ GInv /\ GInv'
  BY AllowKeeps DEF Allow, BInv
<1>2. /\ q \in Offers /\ Key(q) \in Keys /\ Origin(q) \in Origins
      /\ now \in Times /\ events \in Tables
  BY <1>1, Deciding
<1>3. /\ events' = verdict.events
      /\ granted' = IF verdict.allowed
                    THEN Counted(granted, Origin(q), now)
                    ELSE granted
      /\ \E v : req' = [req EXCEPT ![t] = v] /\ v.pc # "allow" /\ v.now = 0
      /\ clock' = clock
  <2>1. Idle.pc # "allow" /\ Idle.now = 0
    BY DEF Idle
  <2>2. req \in [Threads -> RequestType]
    BY <1>1 DEF GInv, TypeOK, RequestType, Times
  <2>3. LET v == [req[t] EXCEPT !.pc = "lookup", !.now = 0] IN v.pc # "allow" /\ v.now = 0
    BY <2>2 DEF RequestType
  <2>4. \E v : req' = [req EXCEPT ![t] = v] /\ v.pc # "allow" /\ v.now = 0
    <3> HIDE DEF verdict
    <3> QED
      BY <2>1, <2>2, <2>3 DEF Allow, verdict
  <2> QED
    BY <2>4 DEF Allow, Counted
<1>4. /\ \A k \in Keys : Len(verdict.events[k]) <= Requests
      /\ \A k \in Keys, s \in Times : now <= s =>
           Cardinality(Stamped(events[k], s))
             + (IF verdict.allowed /\ k = Key(q) /\ s - Window < now THEN 1 ELSE 0)
           <= Cardinality(Stamped(verdict.events[k], s))
  <2> HIDE DEF q, now
  <2> QED
    BY <1>2, DecisionCounts DEF BInv
<1> HIDE DEF verdict
<1>5. PICK v : req' = [req EXCEPT ![t] = v] /\ v.pc # "allow" /\ v.now = 0
  BY <1>3
<1>6. /\ req \in [Threads -> RequestType] /\ clock \in Times /\ clock \in Nat
      /\ granted \in [Origins -> [Times -> Nat]] /\ Times \subseteq Nat
  <2>1. Times \subseteq Nat
    BY GateAssumption DEF Times
  <2>2. clock \in Times /\ granted \in [Origins -> [Times -> Nat]]
    BY <1>1 DEF GInv, TypeOK, Times
  <2>3. req \in [Threads -> RequestType]
    BY <1>1 DEF GInv, TypeOK, RequestType, Times
  <2> QED
    BY <2>1, <2>2, <2>3
<1>7. req'[t].pc # "allow" /\ req'[t].now = 0 /\ \A u \in Threads : u # t => req'[u] = req[u]
  BY <1>5, <1>6
<1>8. QueuesShort'
  BY <1>3, <1>4 DEF QueuesShort
<1>9. StampsPast'
  BY <1>3, <1>6, <1>7 DEF BInv, StampsPast
<1> HIDE DEF q, now
<1>10. ASSUME NEW p \in Origins, NEW s \in Times
       PROVE  /\ IsFiniteSet(InWindow(p, s)) /\ Cardinality(InWindow(p, s)) \in Nat
              /\ IsFiniteSet(InWindow(p, s)')
              /\ Cardinality(InWindow(p, s)') = Cardinality(InWindow(p, s))
                   + (IF verdict.allowed /\ p = Origin(q) /\ s - Window < now /\ now <= s
                      THEN 1 ELSE 0)
  <2>1. /\ InWindow(p, s) = Grants(granted, p, s)
        /\ InWindow(p, s)' = Grants(granted', p, s)
    BY GrantsAre DEF InWindow, Grants, Times
  <2>2. IsFiniteSet(InWindow(p, s)) /\ Cardinality(InWindow(p, s)) \in Nat
    BY FS_CardinalityType DEF BInv, GrantsFinite
  <2>3. CASE verdict.allowed
    BY <1>2, <1>3, <1>6, <2>1, <2>2, <2>3, GrantCounts
  <2>4. CASE ~ verdict.allowed
    BY <1>3, <2>1, <2>2, <2>4
  <2> QED
    BY <2>3, <2>4
<1>11. GrantsFinite'
  <2>1. \A p \in Origins, s \in Times : IsFiniteSet(InWindow(p, s)')
    BY <1>10
  <2> QED
    BY <2>1 DEF GrantsFinite
<1>12. GrantsCounted'
  <2> SUFFICES ASSUME NEW r \in Offers, NEW s \in Times
               PROVE  \/ Cardinality(InWindow(Origin(r), s)')
                           <= Cardinality(Stamped(events'[Key(r)], s))
                      \/ /\ clock' > s
                         /\ Cardinality(InWindow(Origin(r), s)') + Cardinality(Late(s)')
                              <= Requests + Cardinality(Threads) - 1
    BY DEF GrantsCounted, Stamped
  <2> DEFINE n == Cardinality(InWindow(Origin(r), s))
             m == Cardinality(InWindow(Origin(r), s)')
             e == Cardinality(Stamped(events[Key(r)], s))
             l == Cardinality(Late(s))
             k == Cardinality(Late(s)')
             all == Cardinality(Threads)
  <2>1. /\ Origin(r) \in Origins /\ Key(r) \in Keys
        /\ Key(r) = Key(q) <=> Origin(r) = Origin(q)
    BY <1>2, KeyIsOrigin DEF Origins, Keys
  <2>2. /\ n \in Nat
        /\ m = n + (IF verdict.allowed /\ Origin(r) = Origin(q) /\ s - Window < now /\ now <= s
                    THEN 1 ELSE 0)
    BY <1>10, <2>1
  <2>3. /\ l \in Nat /\ all \in Nat \ {0} /\ Requests \in Nat /\ l <= all
        /\ s \in Nat /\ now \in Nat /\ Window \in Nat
    BY <1>2, <1>6, LateBounded, GateAssumption
  <2>4. Late(s)' = Late(s) \ {t}
    BY <1>7 DEF Late
  <2>5. k \in Nat /\ k = IF now <= s THEN l - 1 ELSE l
    <3>1. t \in Late(s) <=> now <= s
      BY <1>1 DEF Late, now
    <3>2. k = IF t \in Late(s) THEN l - 1 ELSE l
      BY <2>4, LateBounded, FS_RemoveElement
    <3>3. k \in Nat
      BY <2>4, LateBounded, FS_RemoveElement, FS_CardinalityType
    <3> QED
      BY <3>1, <3>2, <3>3
  <2>6. k <= all - 1
    <3>1. Late(s)' \in SUBSET (Threads \ {t})
      BY <2>4 DEF Late
    <3>2. /\ IsFiniteSet(Threads \ {t})
          /\ Cardinality(Threads \ {t}) = all - 1
      BY FS_RemoveElement, GateAssumption
    <3> QED
      BY <3>1, <3>2, FS_Subset
  <2>7. e \in Nat /\ Len(events[Key(r)]) \in Nat /\ e <= Len(events[Key(r)])
    <3>1. events[Key(r)] \in Seq(Times)
      BY <1>2, <2>1 DEF Tables
    <3> QED
      BY <3>1, StampedBounded
  <2>8. n <= e \/ (clock > s /\ n + l <= Requests + all - 1)
    BY DEF BInv, GrantsCounted
  <2>9. now <= clock
    BY DEF BInv, StampsPast, now
  <2>10. e <= Requests
    BY <2>1, <2>3, <2>7 DEF BInv, QueuesShort
  <2>11. now <= s =>
           e + (IF verdict.allowed /\ Key(r) = Key(q) /\ s - Window < now THEN 1 ELSE 0)
             <= Cardinality(Stamped(events'[Key(r)], s))
    BY <1>3, <1>4, <2>1
  <2>12. Cardinality(Stamped(events'[Key(r)], s)) \in Nat
    <3>1. events'[Key(r)] \in Seq(Times)
      BY <1>1, <2>1 DEF GInv, TypeOK, Times
    <3> QED
      BY <3>1, StampedBounded
  <2> HIDE DEF n, m, e, l, k, all
  <2>13. CASE clock > s /\ n + l <= Requests + all - 1
    <3>1. m + k <= n + l
      BY <2>2, <2>3, <2>5
    <3>2. m \in Nat
      BY <2>2
    <3>3. m + k <= Requests + all - 1
      BY <2>2, <2>3, <2>5, <2>13, <3>1, <3>2
    <3> QED
      BY <1>3, <2>13, <3>3 DEF m, k, all
  <2>14. CASE n <= e /\ now <= s
    <3>1. m <= Cardinality(Stamped(events'[Key(r)], s))
      BY <2>1, <2>2, <2>7, <2>11, <2>12, <2>14
    <3> QED
      BY <3>1 DEF m
  <2>15. CASE n <= e /\ ~ (now <= s)
    <3>1. m = n
      BY <2>2, <2>15
    <3>2. clock > s
      BY <1>6, <2>3, <2>9, <2>15
    <3>3. m + k <= Requests + all - 1
      BY <2>2, <2>3, <2>5, <2>6, <2>7, <2>10, <2>15, <3>1
    <3> QED
      BY <1>3, <3>2, <3>3 DEF m, k, all
  <2> QED
    BY <2>8, <2>13, <2>14, <2>15
<1> QED
  BY <1>1, <1>8, <1>9, <1>11, <1>12 DEF BInv

LEMMA CountsStep == BInv /\ [GateNext]_gateVars => BInv'
<1> SUFFICES ASSUME BInv, [GateNext]_gateVars PROVE BInv'
  OBVIOUS
<1>1. GInv /\ GInv'
  BY GateStep DEF BInv
<1>2. req \in [Threads -> RequestType] /\ clock \in Nat
  BY <1>1, GateAssumption DEF GInv, TypeOK, RequestType, Times
<1>3. CASE Tick
  <2>1. clock' = clock + 1 /\ req' = req /\ UNCHANGED <<events, granted>>
    BY <1>3 DEF Tick, limiter
  <2>2. StampsPast' /\ \A s \in Times : Late(s)' \subseteq Late(s)
    BY <1>2, <2>1 DEF BInv, StampsPast, Late, RequestType, Times
  <2> QED
    BY <1>1, <1>2, <2>1, <2>2, CountsStay
<1>4. CASE (\E r \in Records : Synchronise(r)) \/ UNCHANGED gateVars
  <2>1. clock' = clock /\ req' = req /\ UNCHANGED <<events, granted>>
    BY <1>4 DEF Synchronise, gateVars, limiter
  <2>2. StampsPast' /\ \A s \in Times : Late(s)' \subseteq Late(s)
    BY <2>1 DEF BInv, StampsPast, Late
  <2> QED
    BY <1>1, <1>2, <2>1, <2>2, CountsStay
<1>5. ASSUME NEW t \in Threads, NEW q \in Offers, Arrive(t, q) PROVE BInv'
  <2>1. /\ clock' = clock /\ UNCHANGED <<events, granted>>
        /\ req'[t].now = clock /\ \A u \in Threads : u # t => req'[u] = req[u]
    BY <1>2, <1>5 DEF Arrive, limiter
  <2>2. StampsPast'
    BY <1>2, <2>1 DEF BInv, StampsPast
  <2>3. \A s \in Times : clock > s => Late(s)' \subseteq Late(s)
    <3>1. \A s \in Times : clock > s => ~ (clock <= s)
      BY <1>2 DEF Times
    <3> QED
      BY <2>1, <3>1 DEF Late
  <2> QED
    BY <1>1, <1>2, <2>1, <2>2, <2>3, CountsStay
<1>6. ASSUME NEW t \in Threads, Allow(t) PROVE BInv'
  BY <1>6, AllowCounts
<1>7. ASSUME NEW t \in Threads, Lookup(t) \/ LookupTarget(t) \/ Insert(t) PROVE BInv'
  <2>1. /\ clock' = clock /\ UNCHANGED <<events, granted>>
        /\ \A u \in Threads : u # t => req'[u] = req[u]
    BY <1>2, <1>7 DEF Lookup, LookupTarget, Insert, limiter
  <2>2. req'[t].pc # "allow" /\ req'[t].now \in {0, req[t].now}
    BY <1>2, <1>7 DEF Lookup, LookupTarget, Insert, Idle, RequestType
  <2>3. StampsPast'
    BY <1>2, <2>1, <2>2 DEF BInv, StampsPast
  <2>4. \A s \in Times : Late(s)' \subseteq Late(s)
    BY <2>1, <2>2 DEF Late
  <2> QED
    BY <1>1, <1>2, <2>1, <2>3, <2>4, CountsStay
<1> QED
  BY <1>3, <1>4, <1>5, <1>6, <1>7 DEF GateNext

(***************************************************************************)
(* FixedWindowRateLimiter lets at most write_requests_per_minute requests  *)
(* of a client through in any window, but for one of each other thread     *)
(* that read the clock and was overtaken: for any number of threads, keys  *)
(* and prunes, and for every rate and window.                              *)
(***************************************************************************)
THEOREM WindowsAreBounded == GateSpec => []WindowBound
<1>1. BInv => WindowBound
  <2> SUFFICES ASSUME BInv, NEW o \in Origins, NEW s \in Times
               PROVE  Cardinality(InWindow(o, s)) <= Requests + Cardinality(Threads) - 1
    BY DEF WindowBound, Times
  <2>1. PICK q \in Offers : o = Origin(q)
    BY DEF Origins
  <2>2. Key(q) \in Keys
    BY DEF Keys
  <2>3. events[Key(q)] \in Seq(Times)
    BY <2>2 DEF BInv, GInv, TypeOK, Times
  <2>4. /\ Cardinality(Stamped(events[Key(q)], s)) \in Nat
        /\ Cardinality(Stamped(events[Key(q)], s)) <= Len(events[Key(q)])
        /\ Len(events[Key(q)]) \in Nat /\ Len(events[Key(q)]) <= Requests
    BY <2>2, <2>3, StampedBounded DEF BInv, QueuesShort
  <2>5. /\ Cardinality(Late(s)) \in Nat /\ Cardinality(Threads) \in Nat \ {0}
        /\ Requests \in Nat
    BY LateBounded, GateAssumption
  <2>6. Cardinality(InWindow(o, s)) \in Nat
    BY FS_CardinalityType DEF BInv, GrantsFinite
  <2>7. \/ Cardinality(InWindow(o, s)) <= Cardinality(Stamped(events[Key(q)], s))
        \/ Cardinality(InWindow(o, s)) + Cardinality(Late(s))
             <= Requests + Cardinality(Threads) - 1
    BY <2>1 DEF BInv, GrantsCounted
  <2> QED
    BY <2>4, <2>5, <2>6, <2>7
<1> QED
  BY <1>1, CountsStart, CountsStep, PTL DEF GateSpec
=============================================================================
