-------------------------------- MODULE Gate --------------------------------
(***************************************************************************)
(* The write side of the HTTP interface: the checks that every request of  *)
(* a submitter or an administrator passes (hap/api.py, hap/auth.py), the   *)
(* rate limiter they share (hap/middleware.py) and the submission of a     *)
(* record (api.submit_record, HistoryAnchorService.submit_record).         *)
(*                                                                         *)
(* Handlers run in a pool of threads.  FixedWindowRateLimiter.allow reads  *)
(* the clock before it takes its lock, and submit_record reads and writes  *)
(* the database in separate calls, so each of these is a step of its own.  *)
(* Time is counted in units of the clock; a stamp is the time a request    *)
(* read.                                                                   *)
(***************************************************************************)
EXTENDS Integers, Sequences, FiniteSets

CONSTANTS
    Threads,        \* threads that handle requests
    Offers,         \* the requests clients may send
    Role,           \* HAP_ROLE
    Tokens,         \* submission_tokens
    RequireToken,   \* require_submission_token
    AdminToken,     \* admin_token, or None
    Proxies,        \* addresses within trusted_proxy_cidrs
    Records,        \* record identifiers
    Target,         \* Target[r]: target_record_id of r, or None
    Sound,          \* records that validate_record and the relay policy accept
    Requests,       \* write_requests_per_minute
    Window,         \* window_seconds
    MaxKeys,        \* max_keys
    PruneEvery,     \* operations between two prunes, 1000 in the code
    MaxTime,        \* bound: the last moment of the clock
    None

\* Settings.validate, as far as the gates depend on it
ValidSettings ==
    /\ Role \in {"observer", "relay", "archive", "coordinator"}
    /\ Role = "coordinator" => AdminToken # None
    /\ RequireToken => Tokens # {}

ASSUME GateAssumption ==
    /\ ValidSettings
    /\ IsFiniteSet(Threads) /\ Threads # {}
    /\ IsFiniteSet(Offers)
    /\ None \notin Tokens /\ None \notin Records
    /\ Target \in [Records -> Records \cup {None}]
    /\ Sound \subseteq Records
    /\ {Requests, Window, MaxKeys, PruneEvery} \subseteq Nat \ {0}
    /\ MaxTime \in Nat

CanRelay == Role \in {"relay", "coordinator"}
CanCoordinate == Role = "coordinator"

----------------------------------------------------------------------------
(***************************************************************************)
(* A request: what it asks for, the address of the connection, the address *)
(* in x-forwarded-for, the token it carries, and for a submission the      *)
(* record and whether its nonce meets relay_pow_bits.                      *)
(***************************************************************************)

\* trusted_client_ip
ClientIp(q) == IF q.peer \in Proxies /\ q.forwarded # None THEN q.forwarded ELSE q.peer

\* require_record_write, require_coordinator_admin, require_node_admin: a
\* request that fails here is answered 401, 403 or 503 and is not counted.
Admitted(q) ==
    CASE q.kind = "submit" -> CanRelay /\ (RequireToken => q.token \in Tokens)
      [] q.kind = "coordinate" -> CanCoordinate /\ AdminToken # None /\ q.token = AdminToken
      [] q.kind = "node" -> AdminToken # None /\ q.token = AdminToken

\* client_key: what the limiter counts a request under
Key(q) ==
    IF q.kind # "submit" THEN <<"admin", ClientIp(q)>>
    ELSE IF q.token \in Tokens THEN <<"token", q.token>>
    ELSE <<"ip", ClientIp(q)>>

Keys == {Key(q) : q \in Offers}

VARIABLES
    clock,     \* time.monotonic()
    events,    \* events[k]: the stamps kept for key k; no stamps, no key
    ops,       \* operations since the last prune
    records,   \* the records table
    req,       \* the request each thread handles
    granted,   \* history: granted[o][t], requests of o let through with stamp t
    relayed    \* history: records the gate has accepted

limiter == <<events, ops>>
gateVars == <<clock, events, ops, records, req, granted, relayed>>

Idle == [pc |-> "idle", q |-> None, now |-> 0]
PC == {"idle", "allow", "lookup", "target", "insert"}

(***************************************************************************)
(* On whose account a request is: the holder of a token, or else the host  *)
(* that sent it, which is the connection's unless a proxy of ours says     *)
(* otherwise.                                                              *)
(***************************************************************************)
Origin(q) ==
    IF q.kind = "submit" /\ q.token \in Tokens THEN <<"holder", q.token>>
    ELSE <<IF q.kind = "submit" THEN "host" ELSE "admin",
           IF q.peer \notin Proxies \/ q.forwarded = None THEN q.peer ELSE q.forwarded>>
Origins == {Origin(q) : q \in Offers}

GateInit ==
    /\ clock = 0
    /\ events = [k \in Keys |-> <<>>]
    /\ ops = 0
    /\ records = {}
    /\ req = [t \in Threads |-> Idle]
    /\ granted = [o \in Origins |-> [s \in 0 .. MaxTime |-> 0]]
    /\ relayed = {}

----------------------------------------------------------------------------
\* The environment

Tick ==
    /\ clock < MaxTime
    /\ clock' = clock + 1
    /\ UNCHANGED <<limiter, records, req, granted, relayed>>

\* A record that peer synchronisation or an imported package brings: its
\* target need not be there (submit_record with require_local_target=False).
Synchronise(r) ==
    /\ r \notin records
    /\ records' = records \cup {r}
    /\ UNCHANGED <<clock, limiter, req, granted, relayed>>

----------------------------------------------------------------------------
\* Requests

\* A request passes the gates of its kind; allow reads the clock.
Arrive(t, q) ==
    /\ req[t].pc = "idle"
    /\ Admitted(q)
    /\ req' = [req EXCEPT ![t] = [pc |-> "allow", q |-> q, now |-> clock]]
    /\ UNCHANGED <<clock, limiter, records, granted, relayed>>

\* The queue without the expired stamps at its head.  Stamps behind a later
\* one stay, whatever their age.
Expire(queue, cutoff) ==
    LET live == {i \in DOMAIN queue : queue[i] > cutoff}
    IN  IF live = {} THEN <<>>
        ELSE SubSeq(queue, CHOOSE i \in live : \A j \in live : i <= j, Len(queue))

\* _prune, and the keys of a table
Prune(table, cutoff) == [k \in Keys |-> Expire(table[k], cutoff)]
KeysOf(table) == {k \in Keys : table[k] # <<>>}
Full(table) == Cardinality(KeysOf(table)) >= MaxKeys

\* Slip: the table is not looked at again after it was pruned.
DecideAfterPrune(key, now) ==
    LET cutoff == now - Window
        table == IF ops + 1 = PruneEvery \/ (key \notin KeysOf(events) /\ Full(events))
                 THEN Prune(events, cutoff) ELSE events
        queue == Expire(table[key], cutoff)
        allowed == Len(queue) < Requests
    IN  [allowed |-> allowed,
         events |-> [table EXCEPT ![key] = IF allowed THEN Append(queue, now) ELSE queue]]

\* Slip: a request counts although it is refused.
DecideCountsRefused(key, now) ==
    LET cutoff == now - Window
        table == IF ops + 1 = PruneEvery \/ (key \notin KeysOf(events) /\ Full(events))
                 THEN Prune(events, cutoff) ELSE events
        queue == Expire(table[key], cutoff)
        room == key \in KeysOf(table) \/ ~Full(table)
    IN  [allowed |-> room /\ Len(queue) < Requests,
         events |-> IF room THEN [table EXCEPT ![key] = Append(queue, now)] ELSE table]

\* Slip: one request too many.
DecideOneMore(key, now) ==
    LET cutoff == now - Window
        table == IF ops + 1 = PruneEvery \/ (key \notin KeysOf(events) /\ Full(events))
                 THEN Prune(events, cutoff) ELSE events
        queue == Expire(table[key], cutoff)
        room == key \in KeysOf(table) \/ ~Full(table)
        allowed == room /\ Len(queue) <= Requests
    IN  [allowed |-> allowed,
         events |-> IF ~room THEN table
                    ELSE [table EXCEPT ![key] = IF allowed THEN Append(queue, now) ELSE queue]]

(***************************************************************************)
(* allow, the part under the lock: prune now and then, and when a new key  *)
(* meets a full table; a key that is new to a table that stays full is     *)
(* refused, and so is one with Requests stamps.                            *)
(***************************************************************************)
Decide(key, now) ==
    LET cutoff == now - Window
        kept == IF ops + 1 = PruneEvery THEN Prune(events, cutoff) ELSE events
        table == IF key \notin KeysOf(kept) /\ Full(kept) THEN Prune(kept, cutoff) ELSE kept
        room == key \in KeysOf(table) \/ ~Full(table)
        queue == Expire(table[key], cutoff)
        allowed == room /\ Len(queue) < Requests
    IN  [allowed |-> allowed,
         events |-> IF ~room THEN table
                    ELSE [table EXCEPT ![key] = IF allowed THEN Append(queue, now) ELSE queue]]

\* allow, and the answer 429 or the handler.  Handlers of administrators are
\* the operations of the other modules.
Allow(t) ==
    /\ req[t].pc = "allow"
    /\ LET q == req[t].q
           verdict == Decide(Key(q), req[t].now)
       IN  /\ events' = verdict.events
           /\ granted' = IF verdict.allowed
                         THEN [granted EXCEPT ![Origin(q)][req[t].now] = @ + 1]
                         ELSE granted
           /\ req' = [req EXCEPT ![t] =
                IF verdict.allowed /\ q.kind = "submit" THEN [@ EXCEPT !.pc = "lookup", !.now = 0]
                ELSE Idle]
    /\ ops' = (ops + 1) % PruneEvery
    /\ UNCHANGED <<clock, records, relayed>>

\* Validation, relay policy and proof of work, then storage.record(record_id)
Lookup(t) ==
    /\ req[t].pc = "lookup"
    /\ LET q == req[t].q
       IN  req' = [req EXCEPT ![t] =
             IF q.record \notin Sound \/ ~q.work \/ q.record \in records THEN Idle
             ELSE [@ EXCEPT !.pc = IF Target[q.record] = None THEN "insert" ELSE "target"]]
    /\ UNCHANGED <<clock, limiter, records, granted, relayed>>

\* Slip: the target is left to the peers.
LookupTargetLater(t) ==
    /\ req[t].pc = "target"
    /\ req' = [req EXCEPT ![t] = [@ EXCEPT !.pc = "insert"]]
    /\ UNCHANGED <<clock, limiter, records, granted, relayed>>

\* storage.record(target_record_id)
LookupTarget(t) ==
    /\ req[t].pc = "target"
    /\ req' = [req EXCEPT ![t] =
         IF Target[req[t].q.record] \in records THEN [@ EXCEPT !.pc = "insert"] ELSE Idle]
    /\ UNCHANGED <<clock, limiter, records, granted, relayed>>

\* Slip: the record is accepted and not stored.
InsertNothing(t) ==
    /\ req[t].pc = "insert"
    /\ relayed' = relayed \cup {req[t].q.record}
    /\ req' = [req EXCEPT ![t] = Idle]
    /\ UNCHANGED <<clock, limiter, records, granted>>

\* storage.add_record: INSERT OR IGNORE
Insert(t) ==
    /\ req[t].pc = "insert"
    /\ records' = records \cup {req[t].q.record}
    /\ relayed' = relayed \cup {req[t].q.record}
    /\ req' = [req EXCEPT ![t] = Idle]
    /\ UNCHANGED <<clock, limiter, granted>>

GateNext ==
    \/ Tick
    \/ \E r \in Records : Synchronise(r)
    \/ \E t \in Threads :
         \/ \E q \in Offers : Arrive(t, q)
         \/ Allow(t) \/ Lookup(t) \/ LookupTarget(t) \/ Insert(t)

GateSpec == GateInit /\ [][GateNext]_gateVars

----------------------------------------------------------------------------
\* Properties

\* The limiter, the requests and the histories have the types of the code's.
TypeOK ==
    /\ clock \in 0 .. MaxTime
    /\ events \in [Keys -> Seq(0 .. MaxTime)]
    /\ ops \in 0 .. PruneEvery - 1
    /\ records \subseteq Records
    /\ req \in [Threads -> [pc : PC, q : Offers \cup {None}, now : 0 .. MaxTime]]
    /\ granted \in [Origins -> [0 .. MaxTime -> Nat]]
    /\ relayed \subseteq records

\* The requests of o that were let through with a stamp in the window that ends
\* at s: the n-th one with stamp x is <<x, n>>
InWindow(o, s) ==
    UNION {{x} \X (1 .. granted[o][x]) : x \in {y \in 0 .. MaxTime : s - Window < y /\ y <= s}}

\* Some request of o was let through with a stamp since cutoff.
Busy(o, cutoff) == \E x \in 0 .. MaxTime : x > cutoff /\ granted[o][x] > 0

(***************************************************************************)
(* The limit holds per host and per token holder, whatever headers a host  *)
(* sends to the node itself: in no window are more than Requests let       *)
(* through, but for those of the other threads that had read the clock and *)
(* were overtaken before they got the lock.  With one thread the limit is  *)
(* exact (FixedWindowRateLimiter.allow, client_key, trusted_client_ip).    *)
(* Behind a trusted proxy the host is the first element of the             *)
(* X-Forwarded-For the proxy passes on, and the proxy answers for it.      *)
(***************************************************************************)
WindowBound ==
    \A o \in Origins, s \in 0 .. MaxTime :
        Cardinality(InWindow(o, s)) <= Requests + Cardinality(Threads) - 1

(***************************************************************************)
(* The limiter remembers at most max_keys clients, however many come and   *)
(* however their stamps expire.                                            *)
(***************************************************************************)
KeysBounded == Cardinality(KeysOf(events)) <= MaxKeys

(***************************************************************************)
(* Nobody is locked out by its own refusals or by clients that are gone:   *)
(* a refusal means that the client itself, or max_keys clients, were let   *)
(* through within the window (allow, _prune).                              *)
(***************************************************************************)
RefusedOnlyWhenBusy ==
    [][\A t \in Threads :
         req[t].pc = "allow" /\ req'[t].pc # "allow" /\ granted' = granted =>
           LET cutoff == req[t].now - Window
           IN  \/ Busy(Origin(req[t].q), cutoff)
               \/ Cardinality({o \in Origins : Busy(o, cutoff)}) >= MaxKeys]_gateVars

(***************************************************************************)
(* A record accepted from a client is sound and what it refers to is here, *)
(* so a chain of records built through the gate is complete, whatever      *)
(* incomplete records peers bring meanwhile (submit_record).               *)
(***************************************************************************)
RelayedIsComplete ==
    \A r \in relayed : r \in Sound /\ (Target[r] # None => Target[r] \in records)
=============================================================================
