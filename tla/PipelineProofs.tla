---------------------------- MODULE PipelineProofs ----------------------------
(***************************************************************************)
(* Proofs that every object of the BACnet server has its blob in the       *)
(* cache (RegistryBackedByCache) and that the pipeline stays well typed    *)
(* (PipelineTypeOK), for every value of the constants.                     *)
(*                                                                         *)
(* BackedInv carries the first, together with the facts about stored     *)
(* cursors it rests on.  PipeInv adds the server's own invariant Inv of    *)
(* BacnetServerProofs (whose lemmas the handlers reuse) and the typing of  *)
(* the pipeline's counters and positions.                                  *)
(***************************************************************************)
EXTENDS Pipeline, BacnetServerProofs

(* The typing the proofs need; a part of TypeOK. *)
PT ==
    /\ objects \subseteq Keys
    /\ blob \in [Keys -> Cache!Records \cup {NoRecord}]
    /\ index \subseteq Keys
    /\ cursor \in [Subs -> Nat]
    /\ applied \in [Subs -> SUBSET Nat]
    /\ busy = NoEvent \/ busy \in [sub : Subs, pos : Nat, ok : BOOLEAN]

NextTyped == next \in [Subs -> Nat \ {0}]

(* A stored cursor names an event of its subscription whose handling     *)
(* returned 0 (on_event_received writes it only then).                    *)
CursorOnlyAfterSuccess ==
    \A s \in Subs : cursor[s] = 0 \/ cursor[s] \in applied[s]

(* An event handled successfully and not yet past its cursor write is    *)
(* already recorded as applied: the cursor StoreCursor writes for it is *)
(* then one CursorOnlyAfterSuccess allows.                               *)
BusyApplied == (busy # NoEvent /\ busy.ok) => busy.pos \in applied[busy.sub]

(* Everything but the consumers' positions, which OnEvent leaves to its   *)
(* callers Deliver and Redeliver.                                        *)
Core == PT /\ CursorOnlyAfterSuccess /\ BusyApplied /\ RegistryBackedByCache

(* The inductive invariant. *)
BackedInv == Core /\ NextTyped

(* What a handler of message_handler_process leaves true of the cache and *)
(* the server: their types, the cursor, and every object backed by a blob. *)
HandlerPost ==
    /\ objects' \subseteq Keys
    /\ blob' \in [Keys -> Cache!Records \cup {NoRecord}]
    /\ index' \subseteq Keys
    /\ cursor' = cursor
    /\ RegistryBackedByCache'

-----------------------------------------------------------------------------
(* The fields a decoded message of each kind carries. *)
LEMMA MessageFields ==
    ASSUME NEW m \in Messages
    PROVE  /\ m.kind \in {"def", "upd", "del", "cfg", "bad"}
           /\ m.kind \in {"def", "upd", "del"} => m.key \in Keys
           /\ m.kind \in {"def", "upd"} => m.value \in Values
           /\ m.kind = "def" => m.inc \in Increments
BY DEF Messages

(* message_handler_process_object_definition writes the blob before it   *)
(* creates the object, and creates nothing when the write failed.        *)
LEMMA DefinitionBacked ==
    ASSUME Core, NEW m \in Messages, m.kind = "def", NEW r,
           ProcessObjectDefinition(m, r)
    PROVE  HandlerPost
<1> DEFINE rec == [value |-> m.value, inc |-> m.inc]
<1>1. rec \in Cache!Records /\ rec # NoRecord
    BY MessageFields, PipelineAssumption DEF Cache!Records
<1>2. PICK cr \in {0, -1} :
        /\ Cache!StoreObject(m.key, rec, cr)
        /\ IF cr = 0 /\ CanCreate(m.key)
             THEN CreateObject(m.key, m.value, m.inc) /\ r = 0
             ELSE Quiet /\ r = -1
    BY DEF ProcessObjectDefinition
<1>3. m.key \in Keys
    BY MessageFields
<1>4. CASE ~cacheUp
    <2>1. cr = -1 /\ UNCHANGED <<blob, index, cursor>>
        BY <1>2, <1>4 DEF Cache!StoreObject, Cache!cacheVars
    <2>2. objects' = objects
        BY <1>2, <2>1 DEF Quiet, objVars
    <2>. QED  BY <2>1, <2>2 DEF HandlerPost, Core, PT, RegistryBackedByCache
<1>5. CASE cacheUp
    <2>1. /\ cr = 0
          /\ blob' = [blob EXCEPT ![m.key] = rec]
          /\ index' \in {index \cup {m.key}, index}
          /\ cursor' = cursor
        BY <1>2, <1>5 DEF Cache!StoreObject, Cache!cacheVars
    <2>2. blob' \in [Keys -> Cache!Records \cup {NoRecord}] /\ blob'[m.key] = rec
        BY <1>1, <1>3, <2>1 DEF Core, PT
    <2>3. objects' \in {objects \cup {m.key}, objects}
        BY <1>2 DEF CreateObject, Quiet, objVars
    <2>4. \A k \in objects' : blob'[k] # NoRecord
        BY <1>1, <1>3, <2>1, <2>2, <2>3 DEF Core, PT, RegistryBackedByCache
    <2>. QED  BY <1>3, <2>1, <2>2, <2>3, <2>4 DEF HandlerPost, Core, PT, RegistryBackedByCache
<1>. QED  BY <1>4, <1>5

(* message_handler_process_value_update rewrites an existing blob (with  *)
(* the new present value) and creates nothing.                           *)
LEMMA UpdateBacked ==
    ASSUME Core, NEW m \in Messages, m.kind = "upd", NEW r,
           ProcessValueUpdate(m, r)
    PROVE  HandlerPost
<1>1. PICK cr \in {0, -1} :
        /\ Cache!UpdateValue(m.key, m.value, cr)
        /\ IF cr = 0 /\ m.key \in objects
             THEN UpdateValue(m.key, m.value) /\ r = 0
             ELSE Quiet /\ r = -1
    BY DEF ProcessValueUpdate
<1>2. m.key \in Keys /\ m.value \in Values
    BY MessageFields
<1>3. objects' = objects
    BY <1>1 DEF UpdateValue, Quiet, objVars
<1>4. CASE UNCHANGED Cache!cacheVars
    BY <1>3, <1>4 DEF HandlerPost, Core, PT, RegistryBackedByCache, Cache!cacheVars
<1>5. CASE /\ cacheUp
           /\ blob[m.key] # NoRecord
           /\ Cache!StoreObject(m.key, [blob[m.key] EXCEPT !.value = m.value], cr)
    <2> DEFINE rec == [blob[m.key] EXCEPT !.value = m.value]
    <2>1. rec \in Cache!Records /\ rec # NoRecord
        <3>1. blob[m.key] \in Cache!Records
            BY <1>2, <1>5 DEF Core, PT
        <3>. QED  BY <1>2, <3>1, PipelineAssumption DEF Cache!Records
    <2>2. /\ blob' = [blob EXCEPT ![m.key] = rec]
          /\ index' \in {index \cup {m.key}, index}
          /\ cursor' = cursor
        BY <1>5 DEF Cache!StoreObject
    <2>3. blob' \in [Keys -> Cache!Records \cup {NoRecord}] /\ blob'[m.key] = rec
        BY <1>2, <2>1, <2>2 DEF Core, PT
    <2>. QED  BY <1>2, <1>3, <2>1, <2>2, <2>3 DEF HandlerPost, Core, PT, RegistryBackedByCache
<1>. QED
    BY <1>1, <1>4, <1>5 DEF Cache!UpdateValue

(* message_handler_process_object_delete removes the blob and the object *)
(* together; when the cache is down it still removes the object.         *)
LEMMA DeleteBacked ==
    ASSUME Core, NEW m \in Messages, m.kind = "del", NEW r,
           ProcessObjectDelete(m, r)
    PROVE  HandlerPost
<1>1. m.key \in Keys
    BY MessageFields
<1>2. objects' \subseteq objects /\ m.key \notin objects'
    BY DEF ProcessObjectDelete, DeleteObject, Quiet, objVars
<1>3. /\ blob' \in {blob, [blob EXCEPT ![m.key] = NoRecord]}
      /\ index' \in {index, index \ {m.key}}
      /\ cursor' = cursor
    BY DEF ProcessObjectDelete, Cache!DeleteObject, Cache!cacheVars
<1>. QED  BY <1>1, <1>2, <1>3 DEF HandlerPost, Core, PT, RegistryBackedByCache

(* message_handler_process_device_config touches neither table. *)
LEMMA ConfigBacked ==
    ASSUME Core, NEW m \in Messages, NEW r, ProcessDeviceConfig(m, r)
    PROVE  HandlerPost
BY DEF ProcessDeviceConfig, cacheVars, Quiet, objVars,
       HandlerPost, Core, PT, RegistryBackedByCache

(* message_handler_process, for every message that decoded. *)
LEMMA ProcessBacked ==
    ASSUME Core, NEW m \in Messages, m.kind # "bad", NEW r, Process(m, r)
    PROVE  HandlerPost
<1>1. m.kind \in {"def", "upd", "del", "cfg"}
    BY MessageFields
<1>2. CASE m.kind = "def"
    BY <1>2, DefinitionBacked DEF Process
<1>3. CASE m.kind = "upd"
    BY <1>3, UpdateBacked DEF Process
<1>4. CASE m.kind = "del"
    BY <1>4, DeleteBacked DEF Process
<1>5. CASE m.kind = "cfg"
    BY <1>5, ConfigBacked DEF Process
<1>. QED  BY <1>1, <1>2, <1>3, <1>4, <1>5

(* on_event_received up to the unlock: a rejected event is recorded as   *)
(* handled; otherwise the in-flight event is successful only when it is *)
(* recorded as applied.  No cursor is written in this step.              *)
LEMMA OnEventCore ==
    ASSUME Core, NEW s \in Subs, NEW i \in 1 .. Len(Streams[s]), OnEvent(s, i)
    PROVE  Core'
<1> DEFINE m == Streams[s][i]
<1>1. m \in Messages
    BY PipelineAssumption
<1>2. CASE m.kind = "bad"
    <2>1. /\ applied' = [applied EXCEPT ![s] = @ \cup {i}]
          /\ UNCHANGED <<busy, blob, index, cursor, objects>>
        BY <1>2 DEF OnEvent, cacheVars, Quiet, objVars
    <2>2. \A t \in Subs : applied[t] \subseteq applied'[t]
        BY <2>1 DEF Core, PT
    <2>3. PT'
        BY <2>1 DEF Core, PT
    <2>. QED
        BY <2>1, <2>2, <2>3
        DEF Core, PT, CursorOnlyAfterSuccess, BusyApplied, RegistryBackedByCache
<1>3. CASE m.kind # "bad"
    <2>1. PICK r \in {0, -1} :
            /\ Process(m, r)
            /\ busy' = [sub |-> s, pos |-> i, ok |-> r = 0]
            /\ applied' = IF r = 0 THEN [applied EXCEPT ![s] = @ \cup {i}]
                                   ELSE applied
        BY <1>3 DEF OnEvent
    <2>2. HandlerPost
        BY <1>1, <1>3, <2>1, ProcessBacked
    <2>3. \A t \in Subs : applied[t] \subseteq applied'[t]
        BY <2>1 DEF Core, PT
    <2>4. PT'
        BY <2>1, <2>2 DEF Core, PT, HandlerPost
    <2>5. CursorOnlyAfterSuccess'
        BY <2>2, <2>3 DEF Core, PT, HandlerPost, CursorOnlyAfterSuccess
    <2>6. BusyApplied'
        BY <2>1 DEF Core, PT, BusyApplied
    <2>. QED  BY <2>2, <2>4, <2>5, <2>6 DEF Core, HandlerPost
<1>. QED  BY <1>2, <1>3

(* The poll thread hands over the next event of s and moves on. *)
LEMMA DeliverInv ==
    ASSUME BackedInv, NEW s \in Subs, Deliver(s)
    PROVE  BackedInv'
<1>1. Len(Streams[s]) \in Nat /\ next[s] \in Nat \ {0}
    BY PipelineAssumption DEF BackedInv, NextTyped
<1>2. next[s] \in 1 .. Len(Streams[s])
    BY <1>1 DEF Deliver
<1>3. Core'
    BY <1>2, OnEventCore DEF Deliver, BackedInv
<1>4. NextTyped'
    BY <1>1 DEF Deliver, BackedInv, NextTyped
<1>. QED  BY <1>3, <1>4 DEF BackedInv

(* The subscription server hands an unacknowledged event out again. *)
LEMMA RedeliverInv ==
    ASSUME BackedInv, NEW s \in Subs, NEW i \in 1 .. Len(Streams[s]), Redeliver(s, i)
    PROVE  BackedInv'
BY OnEventCore DEF Redeliver, BackedInv, NextTyped

(* The cursor write after the handler: it stores the in-flight position  *)
(* only when the handler succeeded, which BusyApplied records as applied. *)
LEMMA StoreCursorInv ==
    ASSUME BackedInv, StoreCursor
    PROVE  BackedInv'
<1>1. busy \in [sub : Subs, pos : Nat, ok : BOOLEAN]
    BY DEF StoreCursor, BackedInv, Core, PT
<1>2. /\ UNCHANGED <<blob, index, objects, applied, next>>
      /\ busy' = NoEvent
    BY DEF StoreCursor, Cache!StoreStreamPosition, cacheVars, Quiet, objVars
<1>3. cursor' \in {cursor, [cursor EXCEPT ![busy.sub] = busy.pos]}
    BY DEF StoreCursor, Cache!StoreStreamPosition, cacheVars
<1>4. cursor' # cursor => busy.ok /\ busy.pos \in applied[busy.sub]
    BY DEF StoreCursor, Cache!StoreStreamPosition, cacheVars, BackedInv, Core, BusyApplied
<1>5. CursorOnlyAfterSuccess'
    BY <1>1, <1>2, <1>3, <1>4 DEF BackedInv, Core, PT, CursorOnlyAfterSuccess
<1>. QED
    BY <1>1, <1>2, <1>3, <1>5
    DEF BackedInv, Core, PT, BusyApplied, RegistryBackedByCache, NextTyped

(* A restart keeps the cache, fills the server from the objects whose   *)
(* blobs load, and resumes each subscription after its cursor.          *)
LEMMA RestartInv ==
    ASSUME BackedInv, Restart
    PROVE  BackedInv'
<1>1. PICK R \in SUBSET Cache!Recoverable : objects' = R
    BY DEF Restart, RecoverFromCache
<1>2. /\ UNCHANGED <<blob, index, cursor, applied>>
      /\ busy' = NoEvent
      /\ next' = [t \in Subs |-> cursor[t] + 1]
    BY DEF Restart
<1>3. objects' \subseteq Keys /\ \A k \in objects' : blob'[k] # NoRecord
    BY <1>1, <1>2 DEF Cache!Recoverable, BackedInv, Core, PT
<1>. QED
    BY <1>2, <1>3
    DEF BackedInv, Core, PT, CursorOnlyAfterSuccess, BusyApplied, RegistryBackedByCache, NextTyped

(* A lost connection changes nothing but the connection flag. *)
LEMMA CacheFailInv ==
    ASSUME BackedInv, CacheFail
    PROVE  BackedInv'
BY DEF CacheFail, Cache!Disconnect, Quiet, objVars, pipeVars,
       BackedInv, Core, PT, CursorOnlyAfterSuccess, BusyApplied, RegistryBackedByCache, NextTyped

(* COV subscriptions, cancels and lifetime ticks leave the object table, *)
(* the cache and the pipeline alone.                                      *)
LEMMA ServerStepInv ==
    ASSUME BackedInv, ServerStep
    PROVE  BackedInv'
<1>1. UNCHANGED objects
    BY DEF ServerStep, Subscribe, Unsubscribe, TickLifetimes, objVars
<1>. QED
    BY <1>1 DEF ServerStep, cacheVars, pipeVars,
       BackedInv, Core, PT, CursorOnlyAfterSuccess, BusyApplied, RegistryBackedByCache, NextTyped

(* The initial state: empty tables and cache, no cursor, nothing applied. *)
LEMMA InitBackedInv ==
    PipelineInit => BackedInv
BY DEF PipelineInit, Init, Cache!CacheInit,
       BackedInv, Core, PT, CursorOnlyAfterSuccess, BusyApplied, RegistryBackedByCache, NextTyped

(* Every step of the pipeline preserves the inductive invariant. *)
LEMMA NextBackedInv ==
    BackedInv /\ [PipelineNext]_pipelineVars => BackedInv'
<1> SUFFICES ASSUME BackedInv, [PipelineNext]_pipelineVars PROVE BackedInv'
    OBVIOUS
<1>1. CASE \E s \in Subs : Deliver(s)
    BY <1>1, DeliverInv
<1>2. CASE \E s \in Subs : \E i \in 1 .. Len(Streams[s]) : Redeliver(s, i)
    BY <1>2, RedeliverInv
<1>3. CASE StoreCursor
    BY <1>3, StoreCursorInv
<1>4. CASE Restart
    BY <1>4, RestartInv
<1>5. CASE CacheFail
    BY <1>5, CacheFailInv
<1>6. CASE ServerStep
    BY <1>6, ServerStepInv
<1>7. CASE UNCHANGED pipelineVars
    BY <1>7 DEF pipelineVars, srvVars, cacheVars, pipeVars,
           BackedInv, Core, PT, CursorOnlyAfterSuccess, BusyApplied, RegistryBackedByCache, NextTyped
<1>. QED  BY <1>1, <1>2, <1>3, <1>4, <1>5, <1>6, <1>7 DEF PipelineNext

(* The invariant holds in every reachable state. *)
LEMMA AlwaysBackedInv ==
    PipelineSpec => []BackedInv
BY InitBackedInv, NextBackedInv, PTL DEF PipelineSpec

-----------------------------------------------------------------------------
(* Every object on the BACnet server has its blob in the cache: the      *)
(* handlers write the cache before the server, and recover_from_cache    *)
(* creates only objects whose blob loads.                                 *)
THEOREM RegistryAlwaysBacked ==
    PipelineSpec => []RegistryBackedByCache
<1>1. BackedInv => RegistryBackedByCache
    BY DEF BackedInv, Core
<1>. QED  BY <1>1, AlwaysBackedInv, PTL

-----------------------------------------------------------------------------
(***************************************************************************)
(* The server's tables and the types of the whole pipeline.  The server  *)
(* changes only through BacnetServer's operations, each of which keeps    *)
(* BacnetServer's invariant Inv (its counters equal its lists, which are *)
(* within capacity), or through recover_from_cache, which rebuilds the   *)
(* tables from the cache: there the capacity check of                   *)
(* bacnet_server_create_object is what keeps the object list within      *)
(* max_objects, since the cache may hold more objects than that.         *)
(***************************************************************************)

(* The types of the cache connection, the cursors and the pipeline's own *)
(* state that PipelineTypeOK states and PT does not.                     *)
PipeTyped ==
    /\ cacheUp \in BOOLEAN
    /\ cursor \in [Subs -> {0} \cup Positions]
    /\ busy \in [sub : Subs, pos : Positions, ok : BOOLEAN] \cup {NoEvent}
    /\ applied \in [Subs -> SUBSET Positions]
    /\ redeliveries \in 0..MaxRedeliveries
    /\ crashes \in 0..MaxCrashes

(* The inductive invariant of the pipeline. *)
PipeInv == BackedInv /\ Inv /\ PipeTyped

(* A step that sends no COV report and leaves the server's tables alone. *)
LEMMA QuietPreserves ==
    ASSUME Inv, Quiet
    PROVE  Inv'
BY DEF Quiet, Inv, TypeOK, CountersMatchTables, TablesBounded, objVars, covVars

(* Each handler of message_handler_process is BacnetServer's operation or *)
(* no change of the server; the connection flag stays a Boolean.         *)
LEMMA ProcessServerInv ==
    ASSUME Inv, cacheUp \in BOOLEAN, NEW m \in Messages, m.kind # "bad", NEW r,
           Process(m, r)
    PROVE  Inv' /\ cacheUp' \in BOOLEAN
<1>1. m.kind \in {"def", "upd", "del", "cfg"}  BY MessageFields
<1>2. CASE m.kind = "def"
    <2>1. PICK cr \in {0, -1} :
            /\ Cache!StoreObject(m.key, [value |-> m.value, inc |-> m.inc], cr)
            /\ IF cr = 0 /\ CanCreate(m.key)
                 THEN CreateObject(m.key, m.value, m.inc) /\ r = 0
                 ELSE Quiet /\ r = -1
        BY <1>2 DEF Process, ProcessObjectDefinition
    <2>2. cacheUp' \in BOOLEAN  BY <2>1 DEF Cache!StoreObject, Cache!cacheVars
    <2>3. Inv'  BY <1>2, <2>1, MessageFields, CreatePreserves, QuietPreserves
    <2>. QED  BY <2>2, <2>3
<1>3. CASE m.kind = "upd"
    <2>1. PICK cr \in {0, -1} :
            /\ Cache!UpdateValue(m.key, m.value, cr)
            /\ IF cr = 0 /\ m.key \in objects
                 THEN UpdateValue(m.key, m.value) /\ r = 0
                 ELSE Quiet /\ r = -1
        BY <1>3 DEF Process, ProcessValueUpdate
    <2>2. cacheUp' \in BOOLEAN
        BY <2>1 DEF Cache!UpdateValue, Cache!StoreObject, Cache!cacheVars
    <2>3. Inv'  BY <1>3, <2>1, MessageFields, UpdatePreserves, QuietPreserves
    <2>. QED  BY <2>2, <2>3
<1>4. CASE m.kind = "del"
    <2>1. /\ Cache!DeleteObject(m.key)
          /\ IF m.key \in objects THEN DeleteObject(m.key) ELSE Quiet
        BY <1>4 DEF Process, ProcessObjectDelete
    <2>2. cacheUp' \in BOOLEAN  BY <2>1 DEF Cache!DeleteObject, Cache!cacheVars
    <2>3. Inv'  BY <1>4, <2>1, MessageFields, DeletePreserves, QuietPreserves
    <2>. QED  BY <2>2, <2>3
<1>5. CASE m.kind = "cfg"
    BY <1>5, QuietPreserves DEF Process, ProcessDeviceConfig, cacheVars
<1>. QED  BY <1>1, <1>2, <1>3, <1>4, <1>5

(* on_event_received up to the unlock keeps the server's invariant, and  *)
(* the in-flight event and the applied positions are positions of the   *)
(* streams.                                                               *)
LEMMA OnEventTyped ==
    ASSUME PipeInv, NEW s \in Subs, NEW i \in 1 .. Len(Streams[s]), OnEvent(s, i)
    PROVE  /\ Inv'
           /\ cacheUp' \in BOOLEAN /\ cursor' = cursor
           /\ busy' \in [sub : Subs, pos : Positions, ok : BOOLEAN] \cup {NoEvent}
           /\ applied' \in [Subs -> SUBSET Positions]
<1> DEFINE m == Streams[s][i]
<1>1. m \in Messages  BY PipelineAssumption
<1>2. i \in Positions  BY DEF Positions
<1>3. CASE m.kind = "bad"
    <2>1. /\ applied' = [applied EXCEPT ![s] = @ \cup {i}]
          /\ UNCHANGED <<busy, cacheUp, cursor>>
          /\ Quiet
        BY <1>3 DEF OnEvent, cacheVars
    <2>. QED  BY <1>2, <2>1, QuietPreserves DEF PipeInv, PipeTyped
<1>4. CASE m.kind # "bad"
    <2>1. PICK r \in {0, -1} :
            /\ Process(m, r)
            /\ busy' = [sub |-> s, pos |-> i, ok |-> r = 0]
            /\ applied' = IF r = 0 THEN [applied EXCEPT ![s] = @ \cup {i}]
                                   ELSE applied
        BY <1>4 DEF OnEvent
    <2>2. Inv' /\ cacheUp' \in BOOLEAN
        BY <1>1, <1>4, <2>1, ProcessServerInv DEF PipeInv, PipeTyped
    <2>3. cursor' = cursor
        BY <1>1, <1>4, <2>1, ProcessBacked DEF PipeInv, BackedInv, HandlerPost
    <2>. QED  BY <1>2, <2>1, <2>2, <2>3 DEF PipeInv, PipeTyped
<1>. QED  BY <1>3, <1>4

(* The poll thread hands over the next event of s and moves on. *)
LEMMA DeliverPipeInv ==
    ASSUME PipeInv, NEW s \in Subs, Deliver(s)
    PROVE  PipeInv'
<1>1. BackedInv'  BY DeliverInv DEF PipeInv
<1>2. next[s] \in 1 .. Len(Streams[s])
    BY PipelineAssumption DEF Deliver, PipeInv, BackedInv, NextTyped
<1>3. Inv' /\ PipeTyped'
    BY <1>2, OnEventTyped DEF Deliver, PipeInv, PipeTyped
<1>. QED  BY <1>1, <1>3 DEF PipeInv

(* The subscription server hands an event out again, within the bound. *)
LEMMA RedeliverPipeInv ==
    ASSUME PipeInv, NEW s \in Subs, NEW i \in 1 .. Len(Streams[s]), Redeliver(s, i)
    PROVE  PipeInv'
<1>1. BackedInv'  BY RedeliverInv DEF PipeInv
<1>2. redeliveries' \in 0..MaxRedeliveries
    BY PipelineAssumption DEF Redeliver, PipeInv, PipeTyped
<1>3. Inv' /\ PipeTyped'
    BY <1>2, OnEventTyped DEF Redeliver, PipeInv, PipeTyped
<1>. QED  BY <1>1, <1>3 DEF PipeInv

(* The cursor write stores the position of the in-flight event. *)
LEMMA StoreCursorPipeInv ==
    ASSUME PipeInv, StoreCursor
    PROVE  PipeInv'
<1>1. BackedInv'  BY StoreCursorInv DEF PipeInv
<1>2. Inv'  BY QuietPreserves DEF StoreCursor, PipeInv
<1>3. busy \in [sub : Subs, pos : Positions, ok : BOOLEAN]
    BY DEF StoreCursor, PipeInv, PipeTyped
<1>4. /\ cursor' \in {cursor, [cursor EXCEPT ![busy.sub] = busy.pos]}
      /\ UNCHANGED <<cacheUp, applied, redeliveries, crashes>>
      /\ busy' = NoEvent
    BY DEF StoreCursor, Cache!StoreStreamPosition, cacheVars
<1>5. PipeTyped'  BY <1>3, <1>4 DEF PipeInv, PipeTyped
<1>. QED  BY <1>1, <1>2, <1>5 DEF PipeInv

(* A lost connection only clears the connection flag. *)
LEMMA CacheFailPipeInv ==
    ASSUME PipeInv, CacheFail
    PROVE  PipeInv'
<1>1. BackedInv'  BY CacheFailInv DEF PipeInv
<1>2. Inv'  BY QuietPreserves DEF CacheFail, PipeInv
<1>3. PipeTyped'
    BY DEF CacheFail, Cache!Disconnect, pipeVars, PipeInv, PipeTyped
<1>. QED  BY <1>1, <1>2, <1>3 DEF PipeInv

(* COV subscriptions, cancels and lifetime ticks are BacnetServer's. *)
LEMMA ServerStepPipeInv ==
    ASSUME PipeInv, ServerStep
    PROVE  PipeInv'
<1>1. BackedInv'  BY ServerStepInv DEF PipeInv
<1>2. Inv'
    BY SubscribePreserves, UnsubscribePreserves, TickPreserves DEF ServerStep, PipeInv
<1>3. PipeTyped'  BY DEF ServerStep, cacheVars, pipeVars, PipeInv, PipeTyped
<1>. QED  BY <1>1, <1>2, <1>3 DEF PipeInv

(* recover_from_cache rebuilds the server from the cache: the objects    *)
(* created are recoverable ones, as many as fit in max_objects, with the *)
(* value and increment of their blobs; the COV table starts empty.       *)
LEMMA RecoverServerInv ==
    ASSUME PipeInv, RecoverFromCache
    PROVE  Inv'
<1> DEFINE R0 == Cache!Recoverable
<1>1. PICK R \in SUBSET R0 :
        /\ Cardinality(R) = MinOf(MaxObjects, Cardinality(R0))
        /\ objects' = R
        /\ objectCount' = Cardinality(R)
        /\ presentValue' = [k \in Keys |-> IF k \in R THEN blob[k].value ELSE NullValue]
        /\ lastCovValue' = [k \in Keys |-> IF k \in R THEN blob[k].value ELSE NullValue]
        /\ covIncrement' = [k \in Keys |-> IF k \in R THEN blob[k].inc ELSE 0]
        /\ subscribed' = {}
        /\ lifetime' = [p \in Pairs |-> 0]
        /\ covCount' = 0
        /\ covEvent' = NoKey
        /\ sentNow' = {}
    BY DEF RecoverFromCache
<1>2. R0 \subseteq Keys /\ R \subseteq Keys
    BY DEF Cache!Recoverable, PipeInv, BackedInv, Core, PT
<1>3. IsFiniteSet(R0) /\ IsFiniteSet(R)
    BY <1>2, ConstantsAssumption, FS_Subset
<1>4. Cardinality(R0) \in Nat /\ Cardinality(R) \in Nat
    BY <1>3, FS_CardinalityType
<1>5. Cardinality(R) <= MaxObjects
    BY <1>1, <1>4, ConstantsAssumption DEF MinOf
<1>6. \A k \in R : blob[k] \in Cache!Records
    BY DEF Cache!Recoverable, PipeInv, BackedInv, Core, PT
<1>7. presentValue' \in [Keys -> Values] /\ lastCovValue' \in [Keys -> Values]
    BY <1>1, <1>6, ConstantsAssumption DEF Cache!Records, NullValue
<1>8. covIncrement' \in [Keys -> Increments \cup {0}]
    BY <1>1, <1>6 DEF Cache!Records
<1>9. lifetime' \in [Pairs -> 0..MaxLifetime]
    BY <1>1, ConstantsAssumption
<1>10. Cardinality(subscribed') = 0  BY <1>1, FS_EmptySet
<1>11. TypeOK'  BY <1>1, <1>2, <1>4, <1>7, <1>8, <1>9 DEF TypeOK
<1>12. CountersMatchTables'  BY <1>1, <1>10 DEF CountersMatchTables
<1>13. TablesBounded'
    BY <1>1, <1>5, <1>10, ConstantsAssumption DEF TablesBounded
<1>. QED  BY <1>11, <1>12, <1>13 DEF Inv

(* A restart: a new connection, the server rebuilt from the cache, each *)
(* subscription resumed after its cursor, nothing in flight.            *)
LEMMA RestartPipeInv ==
    ASSUME PipeInv, Restart
    PROVE  PipeInv'
<1>1. BackedInv'  BY RestartInv DEF PipeInv
<1>2. Inv'  BY RecoverServerInv DEF Restart
<1>3. PipeTyped'
    BY PipelineAssumption DEF Restart, PipeInv, PipeTyped
<1>. QED  BY <1>1, <1>2, <1>3 DEF PipeInv

LEMMA InitPipeInv == PipelineInit => PipeInv
<1> SUFFICES ASSUME PipelineInit PROVE PipeInv
    OBVIOUS
<1>1. BackedInv  BY InitBackedInv
<1>2. Inv  BY InitInv DEF PipelineInit
<1>3. PipeTyped
    BY PipelineAssumption DEF PipelineInit, Cache!CacheInit, PipeTyped
<1>. QED  BY <1>1, <1>2, <1>3 DEF PipeInv

LEMMA NextPipeInv == PipeInv /\ [PipelineNext]_pipelineVars => PipeInv'
<1> SUFFICES ASSUME PipeInv, [PipelineNext]_pipelineVars PROVE PipeInv'
    OBVIOUS
<1>1. CASE \E s \in Subs : Deliver(s)
    BY <1>1, DeliverPipeInv
<1>2. CASE \E s \in Subs : \E i \in 1 .. Len(Streams[s]) : Redeliver(s, i)
    BY <1>2, RedeliverPipeInv
<1>3. CASE StoreCursor
    BY <1>3, StoreCursorPipeInv
<1>4. CASE Restart
    BY <1>4, RestartPipeInv
<1>5. CASE CacheFail
    BY <1>5, CacheFailPipeInv
<1>6. CASE ServerStep
    BY <1>6, ServerStepPipeInv
<1>7. CASE UNCHANGED pipelineVars
    <2>1. BackedInv'  BY NextBackedInv DEF PipeInv
    <2>2. Inv'
        BY <1>7 DEF PipeInv, pipelineVars, srvVars, Inv, TypeOK, CountersMatchTables,
                    TablesBounded
    <2>3. PipeTyped'  BY <1>7 DEF pipelineVars, cacheVars, pipeVars, PipeInv, PipeTyped
    <2>. QED  BY <2>1, <2>2, <2>3 DEF PipeInv
<1>. QED  BY <1>1, <1>2, <1>3, <1>4, <1>5, <1>6, <1>7 DEF PipelineNext

LEMMA AlwaysPipeInv == PipelineSpec => []PipeInv
BY InitPipeInv, NextPipeInv, PTL DEF PipelineSpec

(* The server's tables, the cache and the pipeline's state are well typed *)
(* in every reachable state, across redeliveries, lost connections and   *)
(* restarts, for every value of the constants.                           *)
THEOREM PipelineTypeCorrect == PipelineSpec => []PipelineTypeOK
<1>1. PipeInv => PipelineTypeOK
    BY DEF PipeInv, BackedInv, Core, PT, NextTyped, Inv, PipeTyped, PipelineTypeOK
<1>. QED  BY <1>1, AlwaysPipeInv, PTL

=============================================================================
