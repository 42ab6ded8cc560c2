--------------------------- MODULE PeerSyncProof ---------------------------
(* NothingSkipped and ClosedUnderNeeds for every set of items, threads and  *)
(* page sizes.  NothingSkipped speaks of the stored cursors only; to be     *)
(* inductive it needs the same of the cursors in the threads' memory and in *)
(* the backup, what is left of a page in flight, and that no cursor of the  *)
(* present epoch is ahead of the peer's counter (so that a row added later  *)
(* has a number no cursor has passed).                                      *)
EXTENDS PeerSync, FiniteSetTheorems, TLAPS

\* Every item the cursors c of epoch e have passed is in S or was refused.
Passed(e, c, S) ==
    e = epoch => \A i \in Items :
        0 < seq[i] /\ seq[i] <= c[KindOf[i]] => i \in S \cup Refused

\* No cursor of the present epoch is ahead of the peer.
Behind(e, c) == e <= epoch /\ (e = epoch => \A k \in Kinds : c[k] <= last[k])

\* What the page in flight still has to import.
PageLeft(r) ==
    r.pc = "import" /\ r.epoch = epoch =>
        /\ r.next <= last[r.kind]
        /\ \A i \in Items :
              KindOf[i] = r.kind /\ r.cur[r.kind] < seq[i] /\ seq[i] <= r.next
              => i \in have \cup Refused \/ \E e \in r.page : e.item = i

\* A thread has no cursors before it has loaded them.
Unloaded(r) == r.pc \in {"idle", "load", "reset"} => r.cur = ZeroCursors

Numbered == \A i \in Items : seq[i] <= last[KindOf[i]]

ThreadInv(r) ==
    /\ Passed(r.epoch, r.cur, have)
    /\ Behind(r.epoch, r.cur)
    /\ PageLeft(r)
    /\ Unloaded(r)

StoredInv ==
    /\ Passed(saved.epoch, saved.cur, have)
    /\ Behind(saved.epoch, saved.cur)
    /\ Passed(backup.saved.epoch, backup.saved.cur, backup.have)
    /\ Behind(backup.saved.epoch, backup.saved.cur)

Closed(S) == \A i \in S : Needs[i] \subseteq S

\* The inductive invariant.
IInv ==
    /\ TypeOK
    /\ epoch > 0
    /\ Numbered
    /\ StoredInv
    /\ \A t \in Threads : ThreadInv(thr[t])
    /\ Closed(have) /\ Closed(backup.have)
-----------------------------------------------------------------------------

\* An item between the cursor asked for and the cursor answered is on the page
\* (record_sync_page and its siblings).
LEMMA PageComplete ==
    ASSUME TypeOK, NEW k \in Kinds, NEW after \in Nat, NEW c \in Nat,
           IsCursor(k, after, c),
           NEW i \in Items, KindOf[i] = k, after < seq[i], seq[i] <= c
    PROVE  i \in PageItems(k, after)
<1>1. seq \in [Items -> Nat] /\ Limit[k] \in Nat
  BY BoundsAssumption DEF TypeOK
<1>2. PICK m \in PageItems(k, after) : c = seq[m]
  BY <1>1 DEF IsCursor
<1> DEFINE Upto(x) == {j \in Later(k, after) : seq[j] <= seq[x]}
<1>3. IsFiniteSet(Upto(m)) /\ Upto(i) \subseteq Upto(m)
  <2>1. Upto(m) \subseteq Items
    BY DEF Later
  <2>2. IsFiniteSet(Upto(m))
    BY <2>1, ItemsAssumption, FS_Subset
  <2>3. Upto(i) \subseteq Upto(m)
    BY <1>1, <1>2 DEF Later, PageItems
  <2> QED
    BY <2>2, <2>3
<1>4. Cardinality(Upto(i)) <= Cardinality(Upto(m)) /\ Cardinality(Upto(i)) \in Nat
      /\ Cardinality(Upto(m)) \in Nat
  BY <1>3, FS_Subset, FS_CardinalityType
<1>5. Cardinality(Upto(m)) <= Limit[k]
  BY <1>2 DEF PageItems
<1>6. Cardinality(Upto(i)) <= Limit[k]
  <2> HIDE DEF Upto
  <2> QED
    BY <1>1, <1>4, <1>5
<1>7. i \in Later(k, after)
  BY <1>1 DEF Later
<1> QED
  BY <1>6, <1>7 DEF PageItems

\* The cursor answered is the one asked for or the number of a row.
LEMMA CursorBound ==
    ASSUME TypeOK, Numbered, NEW k \in Kinds, NEW after \in Nat, NEW c \in Nat,
           IsCursor(k, after, c), after <= last[k]
    PROVE  c <= last[k]
BY DEF IsCursor, PageItems, Later, Numbered, TypeOK

LEMMA PageSize ==
    ASSUME NEW k, NEW after
    PROVE  Cardinality(PageItems(k, after)) \in Nat
<1>1. PageItems(k, after) \subseteq Items
  BY DEF PageItems, Later
<1> QED
  BY <1>1, ItemsAssumption, FS_Subset, FS_CardinalityType
-----------------------------------------------------------------------------

LEMMA InitHolds == Init => IInv
<1> SUFFICES ASSUME Init PROVE IInv
  OBVIOUS
<1>1. TypeOK
  BY ItemsAssumption DEF Init, TypeOK, State, Thread, Idle, ZeroCursors, Kinds
<1>2. epoch > 0 /\ Numbered /\ Closed(have) /\ Closed(backup.have)
  BY ItemsAssumption DEF Init, Numbered, ZeroCursors, Closed
<1>3. StoredInv
  BY ItemsAssumption DEF Init, StoredInv, Passed, Behind, ZeroCursors
<1>4. \A t \in Threads : ThreadInv(thr[t])
  BY ItemsAssumption
     DEF Init, ThreadInv, Passed, Behind, PageLeft, Unloaded, Idle, ZeroCursors
<1> QED
  BY <1>1, <1>2, <1>3, <1>4 DEF IInv

\* The steps of one thread change that thread's record only.
LEMMA OneThread ==
    ASSUME IInv, NEW t \in Threads, NEW r \in Thread, SetThread(t, r)
    PROVE  /\ thr' \in [Threads -> Thread]
           /\ thr'[t] = r
           /\ \A u \in Threads : u # t => thr'[u] = thr[u]
BY DEF IInv, TypeOK, SetThread

\* A step of thread t that leaves the peer alone, adds to the tables and
\* keeps the invariant of t, of the stored state and of the closure keeps IInv.
LEMMA ThreadStep ==
    ASSUME IInv, NEW t \in Threads, NEW r \in Thread, SetThread(t, r),
           UNCHANGED <<peerVars, backup>>, faults' \in Nat,
           have \subseteq have', have' \subseteq Items, Closed(have'),
           saved' \in State,
           Passed(saved.epoch, saved.cur, have)', Behind(saved.epoch, saved.cur)',
           ThreadInv(r)'
    PROVE  IInv'
<1>1. /\ thr' \in [Threads -> Thread]
      /\ thr'[t] = r
      /\ \A u \in Threads : u # t => thr'[u] = thr[u]
  BY OneThread
<1>2. TypeOK'
  BY <1>1 DEF IInv, TypeOK, peerVars
<1>3. StoredInv'
  BY DEF IInv, StoredInv, Passed, Behind, peerVars
<1>4. ASSUME NEW u \in Threads PROVE ThreadInv(thr[u])'
  <2>1. CASE u = t
    BY <1>1, <2>1 DEF ThreadInv, Passed, Behind, PageLeft, Unloaded
  <2>2. CASE u # t
    <3>1. thr'[u] = thr[u] /\ ThreadInv(thr[u])
      BY <1>1, <2>2 DEF IInv
    <3>2. Passed(thr[u].epoch, thr[u].cur, have)' /\ Behind(thr[u].epoch, thr[u].cur)'
      BY <3>1 DEF ThreadInv, Passed, Behind, peerVars
    <3>3. PageLeft(thr[u])' /\ Unloaded(thr[u])'
      BY <3>1 DEF ThreadInv, PageLeft, Unloaded, peerVars
    <3> QED
      BY <3>2, <3>3 DEF ThreadInv
  <2> QED
    BY <2>1, <2>2
<1>5. Closed(backup.have)' /\ (epoch > 0)' /\ Numbered'
  BY DEF IInv, Closed, Numbered, peerVars
<1> QED
  BY <1>2, <1>3, <1>4, <1>5 DEF IInv, Closed

\* A thread that returns is idle again.
LEMMA IdleThread ==
    ASSUME IInv
    PROVE  Idle \in Thread /\ ThreadInv(Idle)
BY ItemsAssumption
   DEF IInv, TypeOK, Idle, Thread, ZeroCursors, Kinds, ThreadInv, Passed, Behind,
       PageLeft, Unloaded
-----------------------------------------------------------------------------
(* The peer, the database and failures                                      *)

LEMMA PeerAddHolds ==
    ASSUME IInv, NEW i \in Items, PeerAdd(i)
    PROVE  IInv'
<1> USE ItemsAssumption
<1>1. TypeOK /\ TypeOK'
  <2>1. TypeOK /\ KindOf[i] \in Kinds
    BY DEF IInv
  <2>2. last[KindOf[i]] + 1 \in Nat
    BY <2>1 DEF TypeOK
  <2>3. seq' \in [Items -> Nat] /\ last' \in [Kinds -> Nat]
    BY <2>1, <2>2 DEF TypeOK, PeerAdd
  <2> QED
    BY <2>1, <2>3 DEF TypeOK, PeerAdd
<1> DEFINE k == KindOf[i]
<1>2. /\ k \in Kinds
      /\ last' = [last EXCEPT ![k] = last[k] + 1]
      /\ seq'[i] = last[k] + 1
      /\ \A j \in Items : j # i => seq'[j] = seq[j]
      /\ \A m \in Kinds : last[m] <= last'[m]
      /\ last'[k] = last[k] + 1
  BY <1>1 DEF PeerAdd, TypeOK
<1>3. Numbered'
  BY <1>1, <1>2 DEF IInv, Numbered, TypeOK
<1>4. ASSUME NEW e \in Nat, NEW c \in [Kinds -> Nat], NEW S \in SUBSET Items,
             Passed(e, c, S), Behind(e, c)
      PROVE  Passed(e, c, S)' /\ Behind(e, c)'
  <2>1. epoch' = epoch
    BY DEF PeerAdd
  <2>2. Behind(e, c)'
    BY <1>1, <1>2, <1>4, <2>1 DEF Behind, TypeOK
  <2>3. ASSUME e = epoch, NEW j \in Items, 0 < seq'[j], seq'[j] <= c[KindOf[j]]
        PROVE  j \in S \cup Refused
    <3>1. c[k] <= last[k]
      BY <1>2, <1>4, <2>3 DEF Behind
    <3>2. j # i
      BY <1>1, <1>2, <2>3, <3>1 DEF TypeOK
    <3> QED
      BY <1>2, <1>4, <2>3, <3>2 DEF Passed
  <2> QED
    BY <2>1, <2>2, <2>3 DEF Passed
<1>5. StoredInv'
  <2>1. /\ saved.epoch \in Nat /\ saved.cur \in [Kinds -> Nat] /\ have \in SUBSET Items
        /\ backup.saved.epoch \in Nat /\ backup.saved.cur \in [Kinds -> Nat]
        /\ backup.have \in SUBSET Items
        /\ saved' = saved /\ have' = have /\ backup' = backup
    BY <1>1 DEF TypeOK, State, PeerAdd
  <2> QED
    BY <1>4, <2>1 DEF IInv, StoredInv, Passed, Behind
<1>6. ASSUME NEW t \in Threads PROVE ThreadInv(thr[t])'
  <2>1. /\ thr[t].epoch \in Nat /\ thr[t].cur \in [Kinds -> Nat] /\ thr[t].kind \in Kinds
        /\ thr[t].next \in Nat /\ have \in SUBSET Items
        /\ thr'[t] = thr[t] /\ have' = have /\ epoch' = epoch
        /\ ThreadInv(thr[t])
    BY <1>1 DEF IInv, TypeOK, Thread, PeerAdd
  <2>2. Passed(thr[t].epoch, thr[t].cur, have)' /\ Behind(thr[t].epoch, thr[t].cur)'
    <3>1. Passed(thr[t].epoch, thr[t].cur, have) /\ Behind(thr[t].epoch, thr[t].cur)
      BY <2>1 DEF ThreadInv
    <3> QED
      BY <1>4, <2>1, <3>1 DEF Passed, Behind
  <2>3. PageLeft(thr[t])'
    <3> SUFFICES ASSUME thr[t].pc = "import", thr[t].epoch = epoch
                 PROVE  /\ thr[t].next <= last'[thr[t].kind]
                        /\ \A j \in Items :
                              KindOf[j] = thr[t].kind /\ thr[t].cur[thr[t].kind] < seq'[j]
                                /\ seq'[j] <= thr[t].next
                              => j \in have \cup Refused \/ \E e \in thr[t].page : e.item = j
      BY <2>1 DEF PageLeft
    <3>1. thr[t].next <= last[thr[t].kind]
      BY <2>1 DEF ThreadInv, PageLeft
    <3>2. thr[t].next <= last'[thr[t].kind]
      BY <1>1, <1>2, <2>1, <3>1 DEF TypeOK
    <3>3. ASSUME NEW j \in Items, KindOf[j] = thr[t].kind,
                 thr[t].cur[thr[t].kind] < seq'[j], seq'[j] <= thr[t].next
          PROVE  j \in have \cup Refused \/ \E e \in thr[t].page : e.item = j
      <4>1. j # i
        BY <1>1, <1>2, <2>1, <3>1, <3>3 DEF TypeOK
      <4> QED
        BY <1>2, <2>1, <3>3, <4>1 DEF ThreadInv, PageLeft
    <3> QED
      BY <3>2, <3>3
  <2>4. Unloaded(thr[t])'
    BY <2>1 DEF ThreadInv, Unloaded
  <2> QED
    BY <2>2, <2>3, <2>4 DEF ThreadInv
<1> QED
  BY <1>1, <1>3, <1>5, <1>6 DEF IInv, PeerAdd, Closed

LEMMA PeerRebuildHolds ==
    ASSUME IInv, PeerRebuild
    PROVE  IInv'
<1> USE ItemsAssumption
<1>1. TypeOK /\ TypeOK'
  BY DEF IInv, TypeOK, PeerRebuild, ZeroCursors
<1>2. epoch' = epoch + 1 /\ epoch \in Nat /\ \A i \in Items : seq'[i] = 0
  BY <1>1 DEF PeerRebuild, TypeOK
<1>3. Numbered'
  BY <1>1, <1>2 DEF Numbered, TypeOK
<1>4. StoredInv'
  BY <1>1, <1>2 DEF IInv, StoredInv, Passed, Behind, TypeOK, State, PeerRebuild
<1>5. ASSUME NEW t \in Threads PROVE ThreadInv(thr[t])'
  <2>1. thr'[t] = thr[t] /\ thr[t].epoch \in Nat /\ thr[t].epoch <= epoch /\ Unloaded(thr[t])
    BY <1>1 DEF IInv, ThreadInv, Behind, TypeOK, Thread, PeerRebuild
  <2> QED
    BY <1>2, <2>1 DEF ThreadInv, Passed, Behind, PageLeft, Unloaded
<1> QED
  BY <1>1, <1>2, <1>3, <1>4, <1>5 DEF IInv, PeerRebuild, Closed

LEMMA LocalAddHolds ==
    ASSUME IInv, NEW i \in Items, LocalAdd(i)
    PROVE  IInv'
<1> USE ItemsAssumption
<1>1. TypeOK /\ TypeOK' /\ have' = have \cup {i} /\ Needs[i] \subseteq have
  BY DEF IInv, TypeOK, LocalAdd, Found, peerVars
<1>2. StoredInv' /\ Numbered' /\ Closed(have)' /\ Closed(backup.have)' /\ (epoch > 0)'
  BY <1>1 DEF IInv, StoredInv, Passed, Behind, Numbered, Closed, LocalAdd, peerVars
<1>3. ASSUME NEW t \in Threads PROVE ThreadInv(thr[t])'
  <2>1. thr'[t] = thr[t] /\ ThreadInv(thr[t]) /\ UNCHANGED peerVars
    BY DEF IInv, LocalAdd
  <2>2. Passed(thr[t].epoch, thr[t].cur, have)' /\ Behind(thr[t].epoch, thr[t].cur)'
    BY <1>1, <2>1 DEF ThreadInv, Passed, Behind, peerVars
  <2>3. PageLeft(thr[t])' /\ Unloaded(thr[t])'
    BY <1>1, <2>1 DEF ThreadInv, PageLeft, Unloaded, peerVars
  <2> QED
    BY <2>2, <2>3 DEF ThreadInv
<1> QED
  BY <1>1, <1>2, <1>3 DEF IInv

LEMMA BackupHolds ==
    ASSUME IInv, BackupDatabase
    PROVE  IInv'
<1>1. TypeOK /\ TypeOK'
  BY DEF IInv, TypeOK, BackupDatabase, peerVars
<1>2. StoredInv' /\ Numbered' /\ Closed(have)' /\ Closed(backup.have)' /\ (epoch > 0)'
  BY DEF IInv, StoredInv, Passed, Behind, Numbered, Closed, BackupDatabase, peerVars
<1>3. \A t \in Threads : ThreadInv(thr[t])'
  BY DEF IInv, ThreadInv, Passed, Behind, PageLeft, Unloaded, BackupDatabase, peerVars
<1> QED
  BY <1>1, <1>2, <1>3 DEF IInv

\* Restore and Crash: the threads are gone, the database is one that
\* satisfies the invariant.
LEMMA StopHolds ==
    ASSUME IInv, Restore \/ Crash
    PROVE  IInv'
<1>1. thr' = [t \in Threads |-> Idle] /\ Idle \in Thread /\ UNCHANGED <<peerVars, backup>>
  BY IdleThread DEF Restore, Crash
<1>2. TypeOK /\ TypeOK'
  BY <1>1 DEF IInv, TypeOK, Restore, Crash, peerVars
<1>3. StoredInv' /\ Numbered' /\ Closed(have)' /\ Closed(backup.have)' /\ (epoch > 0)'
  BY <1>1 DEF IInv, StoredInv, Passed, Behind, Numbered, Closed, Restore, Crash, peerVars
<1>4. ASSUME NEW t \in Threads PROVE ThreadInv(thr[t])'
  <2>1. thr'[t] = Idle /\ epoch' = epoch /\ epoch \in Nat /\ epoch > 0
        /\ seq' = seq /\ seq \in [Items -> Nat]
    BY <1>1, <1>2 DEF IInv, TypeOK, peerVars
  <2> QED
    BY <2>1, ItemsAssumption
       DEF ThreadInv, Passed, Behind, PageLeft, Unloaded, Idle, ZeroCursors
<1> QED
  BY <1>2, <1>3, <1>4 DEF IInv
-----------------------------------------------------------------------------
(* sync_peer                                                                *)

LEMMA SyncInfoHolds ==
    ASSUME IInv, NEW t \in Threads, SyncInfo(t)
    PROVE  IInv'
<1>1. TypeOK /\ thr[t] \in Thread /\ ThreadInv(thr[t]) /\ thr[t].pc = "idle"
  BY DEF IInv, TypeOK, SyncInfo
<1>2. PICK r \in Thread : r = [thr[t] EXCEPT !.pc = "load", !.epoch = epoch]
  BY <1>1 DEF TypeOK, Thread
<1>3. r.pc = "load" /\ r.epoch = epoch /\ r.cur = ZeroCursors
  BY <1>1, <1>2 DEF Thread, ThreadInv, Unloaded
<1>4. SetThread(t, r) /\ UNCHANGED <<peerVars, have, saved, backup, faults>>
  BY <1>2 DEF SyncInfo
<1>5. ThreadInv(r)'
  BY <1>1, <1>3, <1>4, ItemsAssumption
     DEF ThreadInv, Passed, Behind, PageLeft, Unloaded, ZeroCursors, TypeOK, peerVars
<1> QED
  BY <1>4, <1>5, ThreadStep DEF IInv, TypeOK, StoredInv, Passed, Behind, peerVars

LEMMA SyncLoadHolds ==
    ASSUME IInv, NEW t \in Threads, SyncLoad(t)
    PROVE  IInv'
<1>1. /\ TypeOK /\ thr[t] \in Thread /\ ThreadInv(thr[t]) /\ thr[t].pc = "load"
      /\ UNCHANGED <<peerVars, have, saved, backup, faults>>
  BY DEF IInv, TypeOK, SyncLoad
<1>2. ASSUME NEW r \in Thread, SetThread(t, r), ThreadInv(r)
      PROVE  IInv'
  <2>1. ThreadInv(r)'
    BY <1>1, <1>2 DEF ThreadInv, Passed, Behind, PageLeft, Unloaded, peerVars
  <2> QED
    BY <1>1, <1>2, <2>1, ThreadStep
       DEF IInv, TypeOK, StoredInv, Passed, Behind, peerVars
<1>3. CASE SetThread(t, [thr[t] EXCEPT !.pc = "fetch"])
  <2> DEFINE r == [thr[t] EXCEPT !.pc = "fetch"]
  <2>1. r \in Thread /\ r.pc = "fetch" /\ r.epoch = thr[t].epoch /\ r.cur = thr[t].cur
    BY <1>1 DEF Thread
  <2>2. ThreadInv(r)
    BY <1>1, <2>1 DEF ThreadInv, Passed, Behind, PageLeft, Unloaded
  <2> QED
    BY <1>2, <1>3, <2>1, <2>2
<1>4. CASE SetThread(t, [thr[t] EXCEPT !.pc = "reset"])
  <2> DEFINE r == [thr[t] EXCEPT !.pc = "reset"]
  <2>1. r \in Thread /\ r.pc = "reset" /\ r.epoch = thr[t].epoch /\ r.cur = thr[t].cur
    BY <1>1 DEF Thread
  <2>2. ThreadInv(r)
    BY <1>1, <2>1 DEF ThreadInv, Passed, Behind, PageLeft, Unloaded
  <2> QED
    BY <1>2, <1>4, <2>1, <2>2
<1>5. CASE /\ saved.epoch = thr[t].epoch
           /\ SetThread(t, [thr[t] EXCEPT !.pc = "fetch", !.cur = saved.cur])
  <2> DEFINE r == [thr[t] EXCEPT !.pc = "fetch", !.cur = saved.cur]
  <2>1. r \in Thread /\ r.pc = "fetch" /\ r.epoch = saved.epoch /\ r.cur = saved.cur
    BY <1>1, <1>5 DEF Thread, TypeOK, State
  <2>2. ThreadInv(r)
    BY <1>1, <2>1 DEF IInv, StoredInv, ThreadInv, Passed, Behind, PageLeft, Unloaded
  <2> QED
    BY <1>2, <1>5, <2>1, <2>2
<1> QED
  BY <1>3, <1>4, <1>5 DEF SyncLoad

LEMMA SyncResetHolds ==
    ASSUME IInv, NEW t \in Threads, SyncReset(t)
    PROVE  IInv'
<1>1. /\ TypeOK /\ thr[t] \in Thread /\ ThreadInv(thr[t]) /\ thr[t].pc = "reset"
      /\ UNCHANGED <<peerVars, have, backup, faults>>
      /\ saved' = [epoch |-> thr[t].epoch, cur |-> ZeroCursors]
  BY DEF IInv, TypeOK, SyncReset
<1>2. PICK r \in Thread : r = [thr[t] EXCEPT !.pc = "fetch"]
  BY <1>1 DEF Thread
<1>3. /\ r.pc = "fetch" /\ r.epoch = thr[t].epoch /\ r.cur = thr[t].cur
      /\ thr[t].epoch \in Nat /\ thr[t].cur = ZeroCursors /\ SetThread(t, r)
  BY <1>1, <1>2 DEF Thread, ThreadInv, Unloaded, SyncReset
<1>4. ThreadInv(r)'
  BY <1>1, <1>3 DEF ThreadInv, Passed, Behind, PageLeft, Unloaded, peerVars
<1>5. saved' \in State
  BY <1>1, <1>3 DEF State, ZeroCursors
<1>6. Passed(saved.epoch, saved.cur, have)' /\ Behind(saved.epoch, saved.cur)'
  BY <1>1, <1>3 DEF ThreadInv, Passed, Behind, peerVars
<1> QED
  BY <1>1, <1>3, <1>4, <1>5, <1>6, ThreadStep DEF IInv, TypeOK

LEMMA SyncFetchHolds ==
    ASSUME IInv, NEW t \in Threads, SyncFetch(t)
    PROVE  IInv'
<1> DEFINE k == thr[t].kind
           after == thr[t].cur[k]
           entries == {[item |-> i, seq |-> seq[i]] : i \in PageItems(k, after)}
<1>1. /\ TypeOK /\ Numbered /\ thr[t] \in Thread /\ ThreadInv(thr[t])
      /\ k \in Kinds /\ after \in Nat /\ seq \in [Items -> Nat]
      /\ UNCHANGED <<peerVars, have, saved, backup, faults>>
  BY DEF IInv, TypeOK, Thread, SyncFetch
<1>2. PICK c \in {after} \cup {seq[i] : i \in Items} :
         /\ IsCursor(k, after, c)
         /\ SetThread(t, [thr[t] EXCEPT
                !.pc = "import", !.next = c, !.page = entries,
                !.size = Cardinality(PageItems(k, after)), !.pages = @ + 1])
  BY DEF SyncFetch
<1>3. c \in Nat
  BY <1>1, <1>2
<1>4. PICK r \in Thread :
         r = [thr[t] EXCEPT
                !.pc = "import", !.next = c, !.page = entries,
                !.size = Cardinality(PageItems(k, after)), !.pages = @ + 1]
  <2>1. entries \in SUBSET Entry
    <3>1. ASSUME NEW i \in PageItems(k, after)
          PROVE  [item |-> i, seq |-> seq[i]] \in Entry
      BY <1>1 DEF Entry, PageItems, Later
    <3> QED
      BY <3>1
  <2>2. Cardinality(PageItems(k, after)) \in Nat
    BY PageSize
  <2>3. thr[t].pages + 1 \in Nat
    BY <1>1 DEF Thread
  <2> HIDE DEF entries, k, after
  <2> QED
    BY <1>1, <1>3, <2>1, <2>2, <2>3 DEF Thread
<1>5. /\ r.pc = "import" /\ r.next = c /\ r.page = entries /\ r.kind = k
      /\ r.epoch = thr[t].epoch /\ r.cur = thr[t].cur
  <2> HIDE DEF entries
  <2> QED
    BY <1>1, <1>4 DEF Thread
<1>6. PageLeft(r)'
  <2> SUFFICES ASSUME r.epoch = epoch
               PROVE  /\ c <= last[k]
                      /\ \A i \in Items : KindOf[i] = k /\ after < seq[i] /\ seq[i] <= c
                                          => \E e \in entries : e.item = i
    <3>1. seq' = seq /\ last' = last /\ epoch' = epoch /\ r.cur[r.kind] = after
      BY <1>1, <1>5 DEF peerVars
    <3> HIDE DEF k, after, entries
    <3> QED
      BY <1>5, <3>1 DEF PageLeft
  <2>1. after <= last[k]
    BY <1>1, <1>5 DEF ThreadInv, Behind
  <2>2. c <= last[k]
    BY <1>1, <1>2, <1>3, <2>1, CursorBound
  <2>3. ASSUME NEW i \in Items, KindOf[i] = k, after < seq[i], seq[i] <= c
        PROVE  \E e \in entries : e.item = i
    <3>1. i \in PageItems(k, after)
      BY <1>1, <1>2, <1>3, <2>3, PageComplete
    <3>2. [item |-> i, seq |-> seq[i]] \in entries
      BY <3>1
    <3> QED
      BY <3>2
  <2> QED
    BY <2>2, <2>3
<1>7. ThreadInv(r)'
  <2> HIDE DEF k, after, entries
  <2> QED
    BY <1>1, <1>5, <1>6 DEF ThreadInv, Passed, Behind, Unloaded, peerVars
<1>8. SetThread(t, r)
  BY <1>2, <1>4
<1> QED
  BY <1>1, <1>7, <1>8, ThreadStep
     DEF IInv, TypeOK, StoredInv, Passed, Behind, peerVars

\* What is known of a thread that imports.
LEMMA Importing ==
    ASSUME IInv, NEW t \in Threads
    PROVE  /\ TypeOK /\ thr[t] \in Thread /\ ThreadInv(thr[t])
           /\ have \subseteq Items /\ saved \in State /\ faults \in Nat
           /\ Passed(saved.epoch, saved.cur, have) /\ Behind(saved.epoch, saved.cur)
           /\ Closed(have)
BY DEF IInv, TypeOK, StoredInv

\* One item of the page is done with: it is in the tables or was refused.
LEMMA ItemDone ==
    ASSUME IInv, NEW t \in Threads, thr[t].pc = "import",
           NEW e \in thr[t].page, have \subseteq have', e.item \in have' \cup Refused,
           have' \subseteq Items, Closed(have'),
           SetThread(t, [thr[t] EXCEPT !.page = @ \ {e}]),
           UNCHANGED <<peerVars, saved, backup, faults>>
    PROVE  IInv'
<1>1. /\ TypeOK /\ thr[t] \in Thread /\ ThreadInv(thr[t]) /\ saved \in State /\ faults \in Nat
      /\ Passed(saved.epoch, saved.cur, have) /\ Behind(saved.epoch, saved.cur)
  BY Importing
<1>2. PICK r \in Thread : r = [thr[t] EXCEPT !.page = @ \ {e}]
  BY <1>1 DEF Thread
<1>3. /\ r.pc = "import" /\ r.page = thr[t].page \ {e} /\ r.next = thr[t].next
      /\ r.kind = thr[t].kind /\ r.epoch = thr[t].epoch /\ r.cur = thr[t].cur
  BY <1>1, <1>2 DEF Thread
<1>4. PageLeft(r)'
  <2> SUFFICES ASSUME r.epoch = epoch
               PROVE  /\ r.next <= last[r.kind]
                      /\ \A i \in Items :
                           KindOf[i] = r.kind /\ r.cur[r.kind] < seq[i] /\ seq[i] <= r.next
                           => i \in have' \cup Refused \/ \E f \in r.page : f.item = i
    BY DEF PageLeft, peerVars
  <2> QED
    BY <1>1, <1>3 DEF ThreadInv, PageLeft
<1>5. ThreadInv(r)'
  BY <1>1, <1>3, <1>4 DEF ThreadInv, Passed, Behind, Unloaded, peerVars
<1>6. Passed(saved.epoch, saved.cur, have)' /\ Behind(saved.epoch, saved.cur)'
  BY <1>1 DEF Passed, Behind, peerVars
<1> QED
  BY <1>1, <1>2, <1>5, <1>6, ThreadStep

LEMMA SyncAcceptHolds ==
    ASSUME IInv, NEW t \in Threads, SyncAccept(t)
    PROVE  IInv'
<1>1. PICK e \in thr[t].page :
         /\ Needs[e.item] \subseteq have
         /\ have' = have \cup {e.item}
         /\ SetThread(t, [thr[t] EXCEPT !.page = @ \ {e}])
  BY DEF SyncAccept, Found
<1>2. thr[t] \in Thread /\ have \subseteq Items /\ Closed(have)
  BY Importing
<1>3. e.item \in Items
  BY <1>1, <1>2 DEF Thread, Entry
<1>4. have' \subseteq Items /\ Closed(have')
  BY <1>1, <1>2, <1>3 DEF Closed
<1> QED
  BY <1>1, <1>4, ItemDone DEF SyncAccept

LEMMA SyncRefuseHolds ==
    ASSUME IInv, NEW t \in Threads, SyncRefuse(t)
    PROVE  IInv'
<1>1. PICK e \in thr[t].page :
         /\ e.item \in Refused
         /\ SetThread(t, [thr[t] EXCEPT !.page = @ \ {e}])
  BY DEF SyncRefuse, Refused, Valid
<1>2. have' = have /\ have \subseteq Items /\ Closed(have)
  BY Importing DEF SyncRefuse
<1> QED
  BY <1>1, <1>2, ItemDone DEF SyncRefuse

\* Going on to the next kind keeps the cursors, or ends the call.
LEMMA NextKindHolds ==
    ASSUME IInv, NEW d \in Thread, Passed(d.epoch, d.cur, have), Behind(d.epoch, d.cur)
    PROVE  NextKind(d) \in Thread /\ ThreadInv(NextKind(d))
<1>1. CASE d.kind = "anchors"
  BY <1>1, IdleThread DEF NextKind
<1>2. CASE d.kind # "anchors"
  <2>0. "batches" \in Kinds /\ "anchors" \in Kinds
    BY DEF Kinds
  <2>1. PICK nk \in Kinds :
          NextKind(d) = [d EXCEPT !.pc = "fetch", !.page = {}, !.next = 0, !.size = 0,
                                  !.pages = 0, !.kind = nk]
    <3> DEFINE nk == IF d.kind = "records" THEN "batches" ELSE "anchors"
    <3>1. nk \in Kinds
      BY <2>0
    <3>2. NextKind(d) = [d EXCEPT !.pc = "fetch", !.page = {}, !.next = 0, !.size = 0,
                                  !.pages = 0, !.kind = nk]
      BY <1>2 DEF NextKind
    <3> QED
      BY <3>1, <3>2
  <2>2. /\ NextKind(d) \in Thread /\ NextKind(d).pc = "fetch"
        /\ NextKind(d).epoch = d.epoch /\ NextKind(d).cur = d.cur
    <3>1. {} \in SUBSET Entry /\ 0 \in Nat
      OBVIOUS
    <3>2. PICK n : n = NextKind(d)
      OBVIOUS
    <3>3. n \in Thread /\ n.pc = "fetch" /\ n.epoch = d.epoch /\ n.cur = d.cur
      BY <2>1, <3>1, <3>2 DEF Thread
    <3> QED
      BY <3>2, <3>3
  <2> QED
    BY <2>2 DEF ThreadInv, PageLeft, Unloaded
<1> QED
  BY <1>1, <1>2

\* A step of t that changes nothing else.
LEMMA ThreadOnly ==
    ASSUME IInv, NEW t \in Threads, NEW r \in Thread, SetThread(t, r), ThreadInv(r),
           UNCHANGED <<peerVars, have, saved, backup>>, faults' \in Nat
    PROVE  IInv'
<1>1. ThreadInv(r)'
  BY DEF ThreadInv, Passed, Behind, PageLeft, Unloaded, peerVars
<1>2. have \subseteq Items /\ saved \in State /\ Closed(have)
      /\ Passed(saved.epoch, saved.cur, have) /\ Behind(saved.epoch, saved.cur)
  BY Importing
<1>3. Passed(saved.epoch, saved.cur, have)' /\ Behind(saved.epoch, saved.cur)'
      /\ Closed(have')
  BY <1>2 DEF Passed, Behind, peerVars
<1> QED
  BY <1>1, <1>2, <1>3, ThreadStep

LEMMA SyncMissingHolds ==
    ASSUME IInv, NEW t \in Threads, SyncMissing(t)
    PROVE  IInv'
<1>1. thr[t] \in Thread /\ ThreadInv(thr[t]) /\ faults \in Nat
  BY Importing
<1>2. NextKind(thr[t]) \in Thread /\ ThreadInv(NextKind(thr[t]))
  BY <1>1, NextKindHolds DEF ThreadInv
<1>3. PICK r \in Thread : r = NextKind(thr[t])
  BY <1>2
<1> QED
  BY <1>1, <1>2, <1>3, ThreadOnly DEF SyncMissing

LEMMA SyncFailHolds ==
    ASSUME IInv, NEW t \in Threads, SyncFail(t)
    PROVE  IInv'
<1>1. Idle \in Thread /\ ThreadInv(Idle) /\ faults \in Nat
  BY IdleThread, Importing
<1>2. PICK r \in Thread : r = Idle
  BY <1>1
<1> QED
  BY <1>1, <1>2, ThreadOnly DEF SyncFail

LEMMA SyncAdvanceHolds ==
    ASSUME IInv, NEW t \in Threads, SyncAdvance(t)
    PROVE  IInv'
<1>1. /\ TypeOK /\ thr[t] \in Thread /\ ThreadInv(thr[t]) /\ have \subseteq Items
      /\ faults \in Nat /\ Closed(have)
  BY Importing
<1>2. PICK c \in [Kinds -> Nat] : c = [thr[t].cur EXCEPT ![thr[t].kind] = thr[t].next]
  BY <1>1 DEF Thread
<1>3. PICK d \in Thread : d = [thr[t] EXCEPT !.cur = c, !.next = 0, !.size = 0]
  BY <1>1, <1>2 DEF Thread
<1>4. /\ thr[t].pc = "import" /\ thr[t].page = {}
      /\ saved' = [epoch |-> thr[t].epoch, cur |-> c]
      /\ UNCHANGED <<peerVars, have, backup, faults>>
      /\ \/ SetThread(t, NextKind(d))
         \/ SetThread(t, Idle)
         \/ SetThread(t, [d EXCEPT !.pc = "fetch"])
  BY <1>2, <1>3 DEF SyncAdvance
<1>5. d.epoch = thr[t].epoch /\ d.cur = c
  BY <1>1, <1>3 DEF Thread
<1>6. Passed(d.epoch, c, have)
  <2> SUFFICES ASSUME thr[t].epoch = epoch, NEW i \in Items, 0 < seq[i],
                      seq[i] <= c[KindOf[i]]
               PROVE  i \in have \cup Refused
    BY <1>5 DEF Passed
  <2>1. KindOf[i] \in Kinds /\ seq[i] \in Nat /\ thr[t].cur[KindOf[i]] \in Nat
    BY <1>1, ItemsAssumption DEF TypeOK, Thread
  <2>2. CASE seq[i] <= thr[t].cur[KindOf[i]]
    BY <1>1, <2>2 DEF ThreadInv, Passed
  <2>3. CASE thr[t].cur[KindOf[i]] < seq[i]
    <3>1. KindOf[i] = thr[t].kind /\ seq[i] <= thr[t].next
      BY <1>1, <1>2, <2>1, <2>3 DEF Thread
    <3> QED
      BY <1>1, <1>4, <2>3, <3>1 DEF ThreadInv, PageLeft
  <2> QED
    BY <2>1, <2>2, <2>3
<1>7. Behind(d.epoch, c)
  BY <1>1, <1>2, <1>4, <1>5 DEF ThreadInv, Behind, PageLeft, Thread
<1>8. /\ saved' \in State
      /\ Passed(saved.epoch, saved.cur, have)' /\ Behind(saved.epoch, saved.cur)'
  <2>1. saved' \in State /\ saved'.epoch = d.epoch /\ saved'.cur = c
    BY <1>1, <1>4, <1>5 DEF State, Thread
  <2> QED
    BY <1>4, <1>6, <1>7, <2>1 DEF Passed, Behind, peerVars
<1>9. ASSUME NEW r \in Thread, SetThread(t, r), ThreadInv(r)
      PROVE  IInv'
  <2>1. ThreadInv(r)'
    BY <1>4, <1>9 DEF ThreadInv, Passed, Behind, PageLeft, Unloaded, peerVars
  <2> QED
    BY <1>1, <1>4, <1>8, <1>9, <2>1, ThreadStep
<1>10. CASE SetThread(t, NextKind(d))
  <2>1. NextKind(d) \in Thread /\ ThreadInv(NextKind(d))
    BY <1>5, <1>6, <1>7, NextKindHolds
  <2>2. PICK r \in Thread : r = NextKind(d)
    BY <2>1
  <2> QED
    BY <1>9, <1>10, <2>1, <2>2
<1>11. CASE SetThread(t, Idle)
  <2>1. PICK r \in Thread : r = Idle
    BY IdleThread
  <2> QED
    BY <1>9, <1>11, <2>1, IdleThread
<1>12. CASE SetThread(t, [d EXCEPT !.pc = "fetch"])
  <2>1. PICK r \in Thread : r = [d EXCEPT !.pc = "fetch"]
    BY DEF Thread
  <2>2. r.pc = "fetch" /\ r.epoch = d.epoch /\ r.cur = c
    BY <1>5, <2>1 DEF Thread
  <2>3. ThreadInv(r)
    BY <1>6, <1>7, <2>2 DEF ThreadInv, PageLeft, Unloaded
  <2> QED
    BY <1>9, <1>12, <2>1, <2>3
<1> QED
  BY <1>4, <1>10, <1>11, <1>12
-----------------------------------------------------------------------------

LEMMA NextHolds == IInv /\ [Next]_vars => IInv'
<1> SUFFICES ASSUME IInv, [Next]_vars PROVE IInv'
  OBVIOUS
<1>1. ASSUME NEW i \in Items, PeerAdd(i) \/ LocalAdd(i) PROVE IInv'
  BY <1>1, PeerAddHolds, LocalAddHolds
<1>2. CASE PeerRebuild \/ BackupDatabase
  BY <1>2, PeerRebuildHolds, BackupHolds
<1>3. CASE Restore \/ Crash
  BY <1>3, StopHolds
<1>4. ASSUME NEW t \in Threads, SyncInfo(t) \/ SyncStep(t) \/ SyncFail(t) PROVE IInv'
  <2>1. CASE SyncInfo(t) \/ SyncFail(t)
    BY <2>1, SyncInfoHolds, SyncFailHolds
  <2>2. CASE SyncLoad(t) \/ SyncReset(t) \/ SyncFetch(t)
    BY <2>2, SyncLoadHolds, SyncResetHolds, SyncFetchHolds
  <2>3. CASE SyncAccept(t) \/ SyncRefuse(t) \/ SyncMissing(t) \/ SyncAdvance(t)
    BY <2>3, SyncAcceptHolds, SyncRefuseHolds, SyncMissingHolds, SyncAdvanceHolds
  <2> QED
    BY <1>4, <2>1, <2>2, <2>3 DEF SyncStep
<1>5. CASE UNCHANGED vars
  BY <1>5 DEF vars, IInv, TypeOK, Numbered, StoredInv, ThreadInv, Passed, Behind,
              PageLeft, Unloaded, Closed
<1> QED
  BY <1>1, <1>2, <1>3, <1>4, <1>5 DEF Next

\* The inductive invariant holds in every reachable state.
THEOREM SyncInvariance == Spec => []IInv
BY InitHolds, NextHolds, PTL DEF Spec

\* The variables of the sync model keep their types.
THEOREM SyncTypeCorrect == Spec => []TypeOK
<1>1. IInv => TypeOK
  BY DEF IInv
<1> QED
  BY <1>1, SyncInvariance, PTL

\* A stored cursor never passes an item the node neither holds nor refused
\* (sync_peer), for any number of concurrent calls, any page sizes and any
\* order of crashes, restores from backup and rebuilds of the peer.
THEOREM CursorsPassNothing == Spec => []NothingSkipped
<1>1. IInv => NothingSkipped
  <2> SUFFICES ASSUME IInv, saved.epoch = epoch, NEW i \in Items,
                      seq[i] \in 1..saved.cur[KindOf[i]]
               PROVE  i \in have \cup Refused
    BY DEF NothingSkipped
  <2>1. seq[i] \in Nat /\ saved.cur[KindOf[i]] \in Nat
    BY ItemsAssumption DEF IInv, TypeOK, State
  <2> QED
    BY <2>1 DEF IInv, StoredInv, Passed
<1> QED
  BY <1>1, SyncInvariance, PTL

\* Whatever is imported or restored, a batch has its records and an anchor
\* its batch (import_batch, import_anchor_reference, backup_database).
THEOREM TablesStayClosed == Spec => []ClosedUnderNeeds
<1>1. IInv => ClosedUnderNeeds
  BY DEF IInv, Closed, ClosedUnderNeeds
<1> QED
  BY <1>1, SyncInvariance, PTL
=============================================================================
