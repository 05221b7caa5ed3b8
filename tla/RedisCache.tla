----------------------------- MODULE RedisCache -----------------------------
(***************************************************************************)
(* The cache mirror, src/src/redis_cache.c: one hiredis connection, an    *)
(* object blob per key ("object:<type>:<instance>"), the index set        *)
(* "objects:index", and the cursor hash "stream:positions".              *)
(*                                                                         *)
(* Every hiredis call is a separate round trip.  The connection can be   *)
(* lost between two of them; hiredis then sets ctx->err, after which      *)
(* redis_cache_is_connected is false and every call fails.  Nothing in   *)
(* the code calls redis_cache_reconnect, so the connection stays down    *)
(* until the process is restarted and redis_cache_init runs again.       *)
(*                                                                         *)
(* A blob is abstracted to the two fields the server reads back from it  *)
(* (present value and COV increment).  The operations are actions with    *)
(* the return code r as a parameter, for the caller to branch on.        *)
(***************************************************************************)
EXTENDS Integers

CONSTANTS
    Keys,        \* object identities (type, instance)
    Subs,        \* configured subscription ids
    Values,      \* present values
    Increments,  \* COV increments
    NoRecord     \* GET of a missing key

VARIABLES
    cacheUp,     \* redis_state.connected && !ctx->err
    blob,        \* object:<type>:<instance> -> serialized object, or NoRecord
    index,       \* members of objects:index
    cursor       \* stream:positions, subscription id -> position (0: no field)

cacheVars == <<cacheUp, blob, index, cursor>>

(* The fields of a serialized cached_object_t that the model keeps. *)
Records == [value : Values, inc : Increments \cup {0}]

CacheInit ==
    /\ cacheUp = TRUE
    /\ blob = [k \in Keys |-> NoRecord]
    /\ index = {}
    /\ cursor = [s \in Subs |-> 0]

(* The connection is lost (server restart, network, timeout). *)
Disconnect ==
    /\ cacheUp
    /\ cacheUp' = FALSE
    /\ UNCHANGED <<blob, index, cursor>>

(* redis_cache_store_object: SET of the blob, then SADD to the index.  The *)
(* SADD reply is not checked, so when the connection is lost between the *)
(* two commands the call still returns 0 with the blob stored and the   *)
(* index not updated.                                                    *)
StoreObject(k, rec, r) ==
    \/ /\ ~cacheUp
       /\ r = -1
       /\ UNCHANGED cacheVars
    \/ /\ cacheUp
       /\ r = 0
       /\ blob' = [blob EXCEPT ![k] = rec]
       /\ \/ /\ index' = index \cup {k}
             /\ UNCHANGED cacheUp
          \/ /\ index' = index
             /\ cacheUp' = FALSE
       /\ UNCHANGED cursor

(* redis_cache_update_value: GET the blob (a missing key fails), replace  *)
(* the present value, and store the whole object again.                  *)
UpdateValue(k, v, r) ==
    \/ /\ ~cacheUp
       /\ r = -1
       /\ UNCHANGED cacheVars
    \/ /\ cacheUp
       /\ blob[k] = NoRecord
       /\ r = -1
       /\ UNCHANGED cacheVars
    \/ /\ cacheUp
       /\ blob[k] # NoRecord
       /\ StoreObject(k, [blob[k] EXCEPT !.value = v], r)

(* redis_cache_delete_object: DEL of the blob, then SREM from the index;  *)
(* neither reply is checked.                                              *)
DeleteObject(k) ==
    \/ /\ ~cacheUp
       /\ UNCHANGED cacheVars
    \/ /\ cacheUp
       /\ blob' = [blob EXCEPT ![k] = NoRecord]
       /\ \/ /\ index' = index \ {k}
             /\ UNCHANGED cacheUp
          \/ /\ index' = index
             /\ cacheUp' = FALSE
       /\ UNCHANGED cursor

(* redis_cache_store_stream_position: HSET of the cursor field; fails     *)
(* without effect when the connection is down.                          *)
StoreStreamPosition(s, p) ==
    /\ cursor' = IF cacheUp THEN [cursor EXCEPT ![s] = p] ELSE cursor
    /\ UNCHANGED <<cacheUp, blob, index>>

(* redis_cache_iterate_objects: SMEMBERS of the index, then a GET of each *)
(* member; a member whose blob is missing is skipped.                    *)
Recoverable == {k \in index : blob[k] # NoRecord}

=============================================================================
