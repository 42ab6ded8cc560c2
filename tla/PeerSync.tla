------------------------------ MODULE PeerSync ------------------------------
(* Cursor synchronisation with one peer (hap/sync.py), together with the    *)
(* sync endpoints of the peer (hap/api.py) and the tables on both sides.    *)
(*                                                                          *)
(* The peer numbers the rows of every table (AUTOINCREMENT ingest_seq) and  *)
(* serves them in pages.  The node keeps one cursor for each kind of item   *)
(* in the same database as the items themselves, and moves a cursor only    *)
(* after the whole page below it has been imported.  Several sync threads   *)
(* may run for one peer: the periodic task and POST /v1/admin/sync.         *)
(*                                                                          *)
(* An item stands for a record, a batch manifest or an anchor reference.    *)
(* An import is one step: the tables only grow while a thread runs, so a    *)
(* dependency that was found is still there when the row is added.          *)
EXTENDS Naturals, FiniteSets

CONSTANTS
    Items,        \* everything either side may ever hold
    KindOf,       \* KindOf[i]: the table the item belongs to
    Needs,        \* Needs[i]: records of a batch, the batch of an anchor
    Malformed,    \* items the node's validation refuses
    Conflicting,  \* anchors of another network, or of a txid held for another batch
    Elsewhere,    \* items the node may also receive without this peer
    Limit,        \* Limit[k]: page size asked for
    MaxPages,     \* pages of one kind in one call (max_sync_pages)
    Threads,      \* concurrent calls of sync_peer
    MaxEpoch,     \* bound: databases the peer goes through
    MaxFaults     \* bound: failed requests, crashes and restores

Kinds == {"records", "batches", "anchors"}

ASSUME ItemsAssumption ==
    /\ IsFiniteSet(Items)
    /\ KindOf \in [Items -> Kinds]
    /\ Needs \in [Items -> SUBSET Items]
    /\ Malformed \subseteq Items
    /\ Conflicting \subseteq Items
    /\ Elsewhere \subseteq Items

ASSUME BoundsAssumption ==
    /\ Limit \in [Kinds -> Nat \ {0}]
    /\ MaxPages \in Nat \ {0}
    /\ MaxEpoch \in Nat
    /\ MaxFaults \in Nat

VARIABLES
    epoch,    \* node_instance_id of the peer's database
    seq,      \* seq[i]: ingest_seq of the item at the peer, 0 if absent
    last,     \* last[k]: the peer's AUTOINCREMENT counter
    have,     \* items in the node's tables
    saved,    \* the node's stored state for the peer; epoch 0: none stored
    backup,   \* the last copy of the node's database
    thr,      \* the sync threads
    faults    \* failures so far

peerVars == <<epoch, seq, last>>
vars == <<epoch, seq, last, have, saved, backup, thr, faults>>

Refused == Malformed \cup Conflicting

ZeroCursors == [k \in Kinds |-> 0]

State == [epoch : Nat, cur : [Kinds -> Nat]]

Entry == [item : Items, seq : Nat]

Thread ==
    [pc : {"idle", "load", "reset", "fetch", "import"}, epoch : Nat,
     cur : [Kinds -> Nat], kind : Kinds, page : SUBSET Entry, next : Nat,
     size : Nat, pages : Nat]

Idle ==
    [pc |-> "idle", epoch |-> 0, cur |-> ZeroCursors, kind |-> "records",
     page |-> {}, next |-> 0, size |-> 0, pages |-> 0]

TypeOK ==
    /\ epoch \in Nat
    /\ seq \in [Items -> Nat]
    /\ last \in [Kinds -> Nat]
    /\ have \subseteq Items
    /\ saved \in State
    /\ backup \in [have : SUBSET Items, saved : State]
    /\ thr \in [Threads -> Thread]
    /\ faults \in Nat

Init ==
    /\ epoch = 1
    /\ seq = [i \in Items |-> 0]
    /\ last = ZeroCursors
    /\ have = {}
    /\ saved = [epoch |-> 0, cur |-> ZeroCursors]
    /\ backup = [have |-> {}, saved |-> [epoch |-> 0, cur |-> ZeroCursors]]
    /\ thr = [t \in Threads |-> Idle]
    /\ faults = 0

-----------------------------------------------------------------------------
(* The peer                                                                 *)

\* A row is added at the peer: its own dependencies are there first.
PeerAdd(i) ==
    /\ seq[i] = 0
    /\ \A n \in Needs[i] : seq[n] > 0
    /\ last' = [last EXCEPT ![KindOf[i]] = @ + 1]
    /\ seq' = [seq EXCEPT ![i] = last[KindOf[i]] + 1]
    /\ UNCHANGED <<epoch, have, saved, backup, thr, faults>>

\* The peer comes back with a fresh database, hence a new node_instance_id.
PeerRebuild ==
    /\ epoch < MaxEpoch
    /\ epoch' = epoch + 1
    /\ seq' = [i \in Items |-> 0]
    /\ last' = ZeroCursors
    /\ UNCHANGED <<have, saved, backup, thr, faults>>

\* record_sync_page, batch_sync_page, anchor_sync_page
Later(k, after) == {i \in Items : KindOf[i] = k /\ seq[i] > after}

PageItems(k, after) ==
    {i \in Later(k, after) :
        Cardinality({j \in Later(k, after) : seq[j] <= seq[i]}) <= Limit[k]}

\* The cursor of the answer: the last row of the page, else the one asked for.
IsCursor(k, after, c) ==
    \/ /\ PageItems(k, after) = {}
       /\ c = after
    \/ \E i \in PageItems(k, after) :
          /\ c = seq[i]
          /\ \A j \in PageItems(k, after) : seq[j] <= c

\* has_more: the page was full
HasMore(r) == r.size = Limit[r.kind]

-----------------------------------------------------------------------------
(* The node's own tables                                                    *)

\* validate_record, validate_batch, validate_anchor_reference
Valid(i) == i \notin Malformed

\* import_batch looks up the records, import_anchor_reference the batch; a
\* record may arrive before its target.
Found(i) == Needs[i] \subseteq have

\* Items that reach the node in other ways: submissions, packages, batches
\* built here, other peers.
LocalAdd(i) ==
    /\ i \in Elsewhere \ have
    /\ Valid(i)
    /\ Found(i)
    /\ have' = have \cup {i}
    /\ UNCHANGED <<peerVars, saved, backup, thr, faults>>

\* backup_database copies the tables and the metadata under the lock.  A
\* copy that the bound on faults lets nobody restore is not taken.
BackupDatabase ==
    /\ faults < MaxFaults
    /\ backup # [have |-> have, saved |-> saved]
    /\ backup' = [have |-> have, saved |-> saved]
    /\ UNCHANGED <<peerVars, have, saved, thr, faults>>

\* The node is stopped and started on the copy.
Restore ==
    /\ faults < MaxFaults
    /\ faults' = faults + 1
    /\ have' = backup.have
    /\ saved' = backup.saved
    /\ thr' = [t \in Threads |-> Idle]
    /\ UNCHANGED <<peerVars, backup>>

\* The process stops between two steps of its threads.
Crash ==
    /\ faults < MaxFaults
    /\ faults' = faults + 1
    /\ \E t \in Threads : thr[t].pc # "idle"
    /\ thr' = [t \in Threads |-> Idle]
    /\ UNCHANGED <<peerVars, have, saved, backup>>

-----------------------------------------------------------------------------
(* sync_peer                                                                *)

SetThread(t, r) == thr' = [thr EXCEPT ![t] = r]

\* GET /v1/info
SyncInfo(t) ==
    /\ thr[t].pc = "idle"
    /\ SetThread(t, [thr[t] EXCEPT !.pc = "load", !.epoch = epoch])
    /\ UNCHANGED <<peerVars, have, saved, backup, faults>>

\* peer_sync_state: none stored, stored for another epoch, or usable
SyncLoad(t) ==
    /\ thr[t].pc = "load"
    /\ \/ /\ saved.epoch = 0
          /\ SetThread(t, [thr[t] EXCEPT !.pc = "fetch"])
       \/ /\ saved.epoch \notin {0, thr[t].epoch}
          /\ SetThread(t, [thr[t] EXCEPT !.pc = "reset"])
       \/ /\ saved.epoch = thr[t].epoch
          /\ SetThread(t, [thr[t] EXCEPT !.pc = "fetch", !.cur = saved.cur])
    /\ UNCHANGED <<peerVars, have, saved, backup, faults>>

\* Slip: only the first cursor is written.
SyncResetPartly(t) ==
    /\ thr[t].pc = "reset"
    /\ saved' = [epoch |-> thr[t].epoch, cur |-> [k \in {"records"} |-> 0]]
    /\ SetThread(t, [thr[t] EXCEPT !.pc = "fetch"])
    /\ UNCHANGED <<peerVars, have, backup, faults>>

\* The cursors of another epoch are replaced at once.
SyncReset(t) ==
    /\ thr[t].pc = "reset"
    /\ saved' = [epoch |-> thr[t].epoch, cur |-> ZeroCursors]
    /\ SetThread(t, [thr[t] EXCEPT !.pc = "fetch"])
    /\ UNCHANGED <<peerVars, have, backup, faults>>

\* GET /v1/sync/<kind>: page, cursor and has_more come from one statement.
SyncFetch(t) ==
    LET k == thr[t].kind
        after == thr[t].cur[k]
    IN  /\ thr[t].pc = "fetch"
        /\ \E c \in {after} \cup {seq[i] : i \in Items} :
              /\ IsCursor(k, after, c)
              /\ SetThread(t, [thr[t] EXCEPT
                     !.pc = "import", !.next = c,
                     !.page = {[item |-> i, seq |-> seq[i]] : i \in PageItems(k, after)},
                     !.size = Cardinality(PageItems(k, after)), !.pages = @ + 1])
        /\ UNCHANGED <<peerVars, have, saved, backup, faults>>

\* Records, then batches, then anchors; after the anchors the call returns.
NextKind(r) ==
    IF r.kind = "anchors" THEN Idle
    ELSE [r EXCEPT !.pc = "fetch", !.page = {}, !.next = 0, !.size = 0,
                   !.pages = 0,
                   !.kind = IF r.kind = "records" THEN "batches" ELSE "anchors"]

\* The item of the page that is imported next.
IsFirst(e, page) == e \in page /\ \A f \in page : e.seq <= f.seq

\* Slip: the dependencies are not looked up.
SyncAcceptAnyway(t) ==
    /\ thr[t].pc = "import"
    /\ \E e \in thr[t].page :
         /\ IsFirst(e, thr[t].page)
         /\ e.item \notin Refused
         /\ have' = have \cup {e.item}
         /\ SetThread(t, [thr[t] EXCEPT !.page = @ \ {e}])
    /\ UNCHANGED <<peerVars, saved, backup, faults>>

\* Accepted or held already: submit_record, import_batch or
\* import_anchor_reference adds the row.
SyncAccept(t) ==
    /\ thr[t].pc = "import"
    /\ \E e \in thr[t].page :
         /\ IsFirst(e, thr[t].page)
         /\ e.item \notin Refused
         /\ Found(e.item)
         /\ have' = have \cup {e.item}
         /\ SetThread(t, [thr[t] EXCEPT !.page = @ \ {e}])
    /\ UNCHANGED <<peerVars, saved, backup, faults>>

\* ServiceError: validation, or an anchor that contradicts the tables.  The
\* item is counted and passed over.
SyncRefuse(t) ==
    /\ thr[t].pc = "import"
    /\ \E e \in thr[t].page :
         /\ IsFirst(e, thr[t].page)
         /\ \/ ~ Valid(e.item)
            \/ e.item \in Conflicting /\ Found(e.item)
         /\ SetThread(t, [thr[t] EXCEPT !.page = @ \ {e}])
    /\ UNCHANGED <<peerVars, have, saved, backup, faults>>

\* Slip: an item whose dependency is missing is passed over like a bad one.
SyncMissingSkips(t) ==
    /\ thr[t].pc = "import"
    /\ \E e \in thr[t].page :
         /\ IsFirst(e, thr[t].page)
         /\ Valid(e.item)
         /\ ~ Found(e.item)
         /\ SetThread(t, [thr[t] EXCEPT !.page = @ \ {e}])
    /\ UNCHANGED <<peerVars, have, saved, backup, faults>>

\* MissingDependencyError: the cursor stays, the next kind is tried.
SyncMissing(t) ==
    /\ thr[t].pc = "import"
    /\ \E e \in thr[t].page :
         /\ IsFirst(e, thr[t].page)
         /\ Valid(e.item)
         /\ ~ Found(e.item)
    /\ SetThread(t, NextKind(thr[t]))
    /\ UNCHANGED <<peerVars, have, saved, backup, faults>>

\* Slip: the page ceiling ends the call before the cursor is stored.
SyncAdvanceUnsaved(t) ==
    LET cur == [thr[t].cur EXCEPT ![thr[t].kind] = thr[t].next]
        done == [thr[t] EXCEPT !.cur = cur, !.next = 0, !.size = 0]
    IN  /\ thr[t].pc = "import"
        /\ thr[t].page = {}
        /\ saved' = IF HasMore(thr[t]) /\ thr[t].pages = MaxPages THEN saved
                    ELSE [epoch |-> thr[t].epoch, cur |-> cur]
        /\ SetThread(t, IF ~ HasMore(thr[t]) THEN NextKind(done)
                        ELSE IF thr[t].pages = MaxPages THEN Idle
                        ELSE [done EXCEPT !.pc = "fetch"])
        /\ UNCHANGED <<peerVars, have, backup, faults>>

\* The whole page is in: the cursor moves and the thread's state is stored.
\* A full page asks for another one, up to the ceiling, which raises.
SyncAdvance(t) ==
    LET cur == [thr[t].cur EXCEPT ![thr[t].kind] = thr[t].next]
        done == [thr[t] EXCEPT !.cur = cur, !.next = 0, !.size = 0]
    IN  /\ thr[t].pc = "import"
        /\ thr[t].page = {}
        /\ saved' = [epoch |-> thr[t].epoch, cur |-> cur]
        /\ SetThread(t, IF ~ HasMore(thr[t]) THEN NextKind(done)
                        ELSE IF thr[t].pages = MaxPages THEN Idle
                        ELSE [done EXCEPT !.pc = "fetch"])
        /\ UNCHANGED <<peerVars, have, backup, faults>>

\* A request fails, is too large or has the wrong shape: the exception ends
\* the call and sync_all_peers records it.
SyncFail(t) ==
    /\ faults < MaxFaults
    /\ faults' = faults + 1
    /\ thr[t].pc = "fetch"
    /\ SetThread(t, Idle)
    /\ UNCHANGED <<peerVars, have, saved, backup>>

SyncStep(t) ==
    \/ SyncLoad(t)
    \/ SyncReset(t)
    \/ SyncFetch(t)
    \/ SyncAccept(t)
    \/ SyncRefuse(t)
    \/ SyncMissing(t)
    \/ SyncAdvance(t)

Next ==
    \/ \E i \in Items : PeerAdd(i) \/ LocalAdd(i)
    \/ PeerRebuild
    \/ BackupDatabase
    \/ Restore
    \/ Crash
    \/ \E t \in Threads : SyncInfo(t) \/ SyncStep(t) \/ SyncFail(t)

Spec == Init /\ [][Next]_vars

\* periodic() calls run_sync again and again and each call runs to its end.
FairSpec ==
    /\ Spec
    /\ \A t \in Threads : WF_vars(SyncInfo(t)) /\ WF_vars(SyncStep(t))

-----------------------------------------------------------------------------
(* Properties                                                               *)

\* A stored cursor of the peer's present database never passes an item the
\* node neither holds nor refused, whatever threads, crashes, restores and
\* rebuilds of the peer came in between.  What a cursor passes is never
\* asked for again, so an item skipped here would be missed for good.
NothingSkipped ==
    saved.epoch = epoch =>
        \A i \in Items : seq[i] \in 1..saved.cur[KindOf[i]] => i \in have \cup Refused

\* The tables stay closed: a batch in the table has its records and an anchor
\* its batch, also after a restore (package_for_batch and the proofs rely on it).
ClosedUnderNeeds == \A i \in have : Needs[i] \subseteq have

\* Once the peer's tables and the network are quiet, the node ends up with
\* everything the peer holds and validation accepts, however many calls the
\* page ceiling, failed requests and dependencies that came late cut short:
\* provided that nothing needs a refused item.  A batch over a refused record is
\* missing a dependency in every call, the cursor never passes it, and what the
\* peer holds behind it is never fetched (sync_peer).
Converges ==
    (\A i \in Items : Needs[i] \cap Refused = {}) =>
        <>[](\A i \in Items \ Refused : seq[i] > 0 => i \in have)
=============================================================================
