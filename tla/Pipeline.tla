------------------------------- MODULE Pipeline -------------------------------
(***************************************************************************)
(* The event pipeline of src/src/main.c: the consumer hands each event of  *)
(* a subscription to on_event_received, which decodes it, takes g_mutex,   *)
(* runs message_handler_process (cache first, then the BACnet server) and, *)
(* when that returned 0, stores the event's revision as the subscription's *)
(* cursor in the cache.  At startup the server is filled from the cache    *)
(* (recover_from_cache) and each subscription resumes after its cursor.   *)
(*                                                                         *)
(* The consumer (src/src/kurrentdb_client.c, subscription_poll_thread)     *)
(* ignores the callback's result and never acks or naks, so the server    *)
(* side of the persistent subscription hands every event out again after  *)
(* its timeout: an event already delivered may come back at any later    *)
(* moment.  Redelivery is bounded by MaxRedeliveries.                      *)
(*                                                                         *)
(* The process may be killed at any point and started again (bounded by   *)
(* MaxCrashes).  The memory of the process (the server's tables, the     *)
(* in-flight event) is lost; the cache survives.  Since the server's      *)
(* tables are lost anyway, the only crash points that leave distinct      *)
(* persistent states are before the handler, between the handler's cache *)
(* writes and the cursor write, and after it: the handler is one step     *)
(* (OnEvent) and the cursor write another (StoreCursor).                 *)
(*                                                                         *)
(* Stream positions are counted from 1 and a cursor of 0 stands for "no   *)
(* stored position": start_position = last + 1 and SUBSCRIPTION_START_BEGIN *)
(* then both mean position cursor + 1.                                     *)
(***************************************************************************)
EXTENDS BacnetServer, Integers, Sequences

CONSTANTS
    Subs, NoRecord,                  \* of the cache
    Streams,          \* Streams[s]: the decoded events of subscription s, in order
    MaxRedeliveries,  \* bound on redeliveries of unacknowledged events
    MaxCrashes,       \* bound on process restarts
    NoEvent           \* no event inside the g_mutex section

(* The BACnet server's constants and tables are BacnetServer's. *)
VARIABLES
    cacheUp, blob, index, cursor,
    busy,          \* the event between message_handler_process and unlock
    next,          \* next[s]: position the consumer of s delivers next
    applied,       \* history: positions of s whose handling returned success
    redeliveries,  \* redeliveries so far
    crashes        \* restarts so far

Cache == INSTANCE RedisCache

srvVars == <<objects, objectCount, presentValue, lastCovValue, covIncrement,
             subscribed, lifetime, covCount, covEvent, sentNow>>
cacheVars == <<cacheUp, blob, index, cursor>>
pipeVars == <<busy, next, applied, redeliveries, crashes>>
pipelineVars == <<srvVars, cacheVars, pipeVars>>

(* Decoded messages (parsed_message_t); "bad" is one message_handler_parse *)
(* rejects.  Instance offsets are already applied to the key.             *)
Messages ==
    [kind : {"def"}, key : Keys, value : Values, inc : Increments]
      \cup [kind : {"upd"}, key : Keys, value : Values]
      \cup [kind : {"del"}, key : Keys]
      \cup [kind : {"cfg"}, key : {NoKey}]
      \cup [kind : {"bad"}, key : {NoKey}]

(* What the proofs need of the constants: each subscription's events are *)
(* decoded messages, a GET of a missing key is no object record, and the *)
(* bounds on redeliveries and restarts are numbers.                       *)
ASSUME PipelineAssumption ==
    /\ Streams \in [Subs -> Seq(Messages)]
    /\ NoRecord \notin Cache!Records
    /\ MaxRedeliveries \in Nat
    /\ MaxCrashes \in Nat

MinOf(a, b) == IF a <= b THEN a ELSE b

PipelineInit ==
    /\ Init
    /\ Cache!CacheInit
    /\ busy = NoEvent
    /\ next = [s \in Subs |-> 1]
    /\ applied = [s \in Subs |-> {}]
    /\ redeliveries = 0
    /\ crashes = 0

-----------------------------------------------------------------------------
(* Mutant: the server object is created even when the cache write failed. *)
ProcessObjectDefinitionIgnoringCache(m, r) ==
    \E cr \in {0, -1} :
        /\ Cache!StoreObject(m.key, [value |-> m.value, inc |-> m.inc], cr)
        /\ IF CanCreate(m.key)
             THEN CreateObject(m.key, m.value, m.inc) /\ r = 0
             ELSE Quiet /\ r = -1

(* message_handler_process_object_definition: store in the cache, then    *)
(* create on the server; either failure returns -1.  A create fails when  *)
(* the object already exists, after its cache entry has been overwritten. *)
ProcessObjectDefinition(m, r) ==
    \E cr \in {0, -1} :
        /\ Cache!StoreObject(m.key, [value |-> m.value, inc |-> m.inc], cr)
        /\ IF cr = 0 /\ CanCreate(m.key)
             THEN CreateObject(m.key, m.value, m.inc) /\ r = 0
             ELSE Quiet /\ r = -1

(* message_handler_process_value_update: update the cache, then the       *)
(* server object (which sends the COV notifications); either failure      *)
(* returns -1.                                                             *)
ProcessValueUpdate(m, r) ==
    \E cr \in {0, -1} :
        /\ Cache!UpdateValue(m.key, m.value, cr)
        /\ IF cr = 0 /\ m.key \in objects
             THEN UpdateValue(m.key, m.value) /\ r = 0
             ELSE Quiet /\ r = -1

(* message_handler_process_object_delete: delete from the cache and from  *)
(* the server, ignoring both results; always returns 0.                  *)
ProcessObjectDelete(m, r) ==
    /\ Cache!DeleteObject(m.key)
    /\ IF m.key \in objects THEN DeleteObject(m.key) ELSE Quiet
    /\ r = 0

(* message_handler_process_device_config: device name, description and    *)
(* location, which no property reads; returns 0.                          *)
ProcessDeviceConfig(m, r) ==
    /\ UNCHANGED cacheVars
    /\ Quiet
    /\ r = 0

(* message_handler_process: dispatch on the message type. *)
Process(m, r) ==
    CASE m.kind = "def" -> ProcessObjectDefinition(m, r)
      [] m.kind = "upd" -> ProcessValueUpdate(m, r)
      [] m.kind = "del" -> ProcessObjectDelete(m, r)
      [] m.kind = "cfg" -> ProcessDeviceConfig(m, r)

(* on_event_received for event i of subscription s, up to the cursor      *)
(* write: an event that does not decode is acknowledged with no effect;   *)
(* otherwise it is processed under g_mutex and remembered in busy.        *)
OnEvent(s, i) ==
    LET m == Streams[s][i] IN
    /\ busy = NoEvent
    /\ IF m.kind = "bad"
         THEN /\ applied' = [applied EXCEPT ![s] = @ \cup {i}]
              /\ UNCHANGED <<busy, cacheVars>>
              /\ Quiet
         ELSE \E r \in {0, -1} :
                /\ Process(m, r)
                /\ busy' = [sub |-> s, pos |-> i, ok |-> r = 0]
                /\ applied' = IF r = 0 THEN [applied EXCEPT ![s] = @ \cup {i}]
                                       ELSE applied

(* The rest of on_event_received: after a successful handling the event's *)
(* revision is written as the cursor (its result ignored); then unlock.  *)
StoreCursor ==
    /\ busy # NoEvent
    /\ IF busy.ok THEN Cache!StoreStreamPosition(busy.sub, busy.pos)
                  ELSE UNCHANGED cacheVars
    /\ busy' = NoEvent
    /\ Quiet
    /\ UNCHANGED <<next, applied, redeliveries, crashes>>

(* Mutant: the poll thread hands the same event again until its handling *)
(* succeeds, instead of moving on.                                        *)
DeliverRetryingFailed(s) ==
    /\ next[s] <= Len(Streams[s])
    /\ OnEvent(s, next[s])
    /\ next' = [next EXCEPT ![s] = IF next[s] \in applied'[s] THEN @ + 1 ELSE @]
    /\ UNCHANGED <<redeliveries, crashes>>

(* subscription_poll_thread hands the next event of s, oldest first, to   *)
(* the callback and moves on whatever the callback returned.             *)
Deliver(s) ==
    /\ next[s] <= Len(Streams[s])
    /\ OnEvent(s, next[s])
    /\ next' = [next EXCEPT ![s] = @ + 1]
    /\ UNCHANGED <<redeliveries, crashes>>

(* The subscription server hands out again an event it gave to the       *)
(* consumer before and that was never acknowledged (none ever is).       *)
Redeliver(s, i) ==
    /\ i < next[s]
    /\ redeliveries < MaxRedeliveries
    /\ OnEvent(s, i)
    /\ redeliveries' = redeliveries + 1
    /\ UNCHANGED <<next, crashes>>

-----------------------------------------------------------------------------
(* The process dies and is started again.  main: redis_cache_init opens a *)
(* new connection; bacnet_server_init starts with empty tables;           *)
(* recover_from_cache creates on the server every indexed object whose   *)
(* blob loads, in SMEMBERS order, until max_objects is reached; each      *)
(* subscription resumes at its stored cursor + 1.                          *)
RecoverFromCache ==
    LET R0 == Cache!Recoverable IN
    \E R \in SUBSET R0 :
        /\ Cardinality(R) = MinOf(MaxObjects, Cardinality(R0))
        /\ objects' = R
        /\ objectCount' = Cardinality(R)
        /\ presentValue' = [k \in Keys |-> IF k \in R THEN blob[k].value ELSE NullValue]
        /\ lastCovValue' = [k \in Keys |-> IF k \in R THEN blob[k].value ELSE NullValue]
        /\ covIncrement' = [k \in Keys |-> IF k \in R THEN blob[k].inc ELSE 0]
        /\ subscribed' = {}
        /\ lifetime' = [p \in Pairs |-> 0]
        /\ covCount' = 0
        /\ covEvent' = NoKey
        /\ sentNow' = {}

(* Mutant: a subscription resumes at its cursor instead of after it. *)
RestartAtCursor ==
    /\ crashes < MaxCrashes
    /\ crashes' = crashes + 1
    /\ cacheUp' = TRUE
    /\ UNCHANGED <<blob, index, cursor>>
    /\ RecoverFromCache
    /\ next' = [s \in Subs |-> cursor[s]]
    /\ busy' = NoEvent
    /\ UNCHANGED <<applied, redeliveries>>

Restart ==
    /\ crashes < MaxCrashes
    /\ crashes' = crashes + 1
    /\ cacheUp' = TRUE
    /\ UNCHANGED <<blob, index, cursor>>
    /\ RecoverFromCache
    /\ next' = [s \in Subs |-> cursor[s] + 1]
    /\ busy' = NoEvent
    /\ UNCHANGED <<applied, redeliveries>>

(* The cache connection is lost (it stays lost until a restart). *)
CacheFail ==
    /\ Cache!Disconnect
    /\ Quiet
    /\ UNCHANGED pipeVars

(* BACnet clients subscribe, cancel, and the task thread ticks lifetimes. *)
ServerStep ==
    /\ \/ \E k \in Keys, sb \in Subscribers, lt \in 0..MaxLifetime : Subscribe(k, sb, lt)
       \/ \E k \in Keys, sb \in Subscribers : Unsubscribe(k, sb)
       \/ TickLifetimes
    /\ UNCHANGED <<cacheVars, pipeVars>>

PipelineNext ==
    \/ \E s \in Subs : Deliver(s)
    \/ \E s \in Subs : \E i \in 1..Len(Streams[s]) : Redeliver(s, i)
    \/ StoreCursor
    \/ Restart
    \/ CacheFail
    \/ ServerStep

PipelineSpec == PipelineInit /\ [][PipelineNext]_pipelineVars

(* The fairness the code gives.  subscription_poll_thread loops while the *)
(* subscription is active and hands out every event of each batch, so a *)
(* subscription with undelivered events gets its next one delivered;     *)
(* on_event_received, once the handler has returned, goes on to the      *)
(* cursor write and the unlock.  Redelivery (the subscription server's    *)
(* timeout), restarts and lost connections are the environment's and get *)
(* no fairness.                                                           *)
Fairness ==
    /\ \A s \in Subs : WF_pipelineVars(Deliver(s))
    /\ WF_pipelineVars(StoreCursor)

FairSpec == PipelineSpec /\ Fairness

-----------------------------------------------------------------------------
(***************************************************************************)
(* Properties                                                              *)
(***************************************************************************)

Positions == UNION {1..Len(Streams[s]) : s \in Subs}

PipelineTypeOK ==
    /\ TypeOK
    /\ cacheUp \in BOOLEAN
    /\ blob \in [Keys -> Cache!Records \cup {NoRecord}]
    /\ index \subseteq Keys
    /\ cursor \in [Subs -> {0} \cup Positions]
    /\ busy \in [sub : Subs, pos : Positions, ok : BOOLEAN] \cup {NoEvent}
    /\ next \in [Subs -> Nat \ {0}]
    /\ applied \in [Subs -> SUBSET Positions]
    /\ redeliveries \in 0..MaxRedeliveries
    /\ crashes \in 0..MaxCrashes

(* Every object on the BACnet server has its blob in the cache: the      *)
(* handlers write the cache before the server, and recovery creates only *)
(* what loads from the cache.                                             *)
RegistryBackedByCache ==
    \A k \in objects : blob[k] # NoRecord

(* Spec invariants 1 and 3: the registry and the cache mirror hold the    *)
(* same objects with the same present values (the cache being what a    *)
(* restart recovers).                                                     *)
CacheMirrorsRegistry ==
    \A k \in Keys :
        /\ k \in objects <=> k \in Cache!Recoverable
        /\ k \in objects => blob[k].value = presentValue[k]

(* Spec invariant 5 and section 8: every event at or before a stored      *)
(* cursor has been applied (a restart resumes after the cursor).          *)
CursorSafety ==
    \A s \in Subs : \A i \in 1..cursor[s] : i \in applied[s]

(* Spec invariant 3: the stored position of a subscription never goes     *)
(* back, so a redelivered older event is recognised and not re-applied.   *)
CursorMonotonic ==
    [][\A s \in Subs : cursor'[s] >= cursor[s]]_pipelineVars

(* Every subscription's stream is eventually delivered to its end and    *)
(* stays so: whatever the handlers return, however often the process     *)
(* restarts (each restart rewinds to the stored cursor) and whatever     *)
(* connections are lost, the poll threads never get stuck on an event.   *)
StreamsDrained ==
    \A s \in Subs : <>[](next[s] > Len(Streams[s]))

(* Spec section 1 and 4.4: delivery is at least once; an event whose     *)
(* handling failed on a transient cache error is not acknowledged and is *)
(* delivered again after the cache reconnects, so every event is         *)
(* eventually applied.                                                    *)
EveryEventApplied ==
    \A s \in Subs : \A i \in 1..Len(Streams[s]) : <>(i \in applied[s])

=============================================================================
