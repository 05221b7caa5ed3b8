---------------------------- MODULE BacnetServer ----------------------------
(***************************************************************************)
(* The object table and the COV subscription table of the BACnet server,  *)
(* src/unnamed/part_003 (bacnet_server.c).  The server keeps a linked list *)
(* of objects with their present value, the value of the last COV report  *)
(* and the COV increment, a linked list of COV subscriptions with their   *)
(* remaining lifetime, and two counters beside the lists.  Every          *)
(* operation runs under server->lock and is one action here; a failed    *)
(* call (object missing, table full) changes nothing and is a stutter.   *)
(*                                                                         *)
(* Data abstraction: an object identity (type, instance) is a member of   *)
(* Keys, a COV subscriber (process id, address) a member of Subscribers, *)
(* a present value a natural number (value_to_double of the stored        *)
(* bacnet_value_t; a NULL value reads as 0).                              *)
(***************************************************************************)
EXTENDS Naturals, FiniteSets

CONSTANTS
    Keys,                 \* object identities (type, instance)
    Subscribers,          \* COV subscribers (process id, address)
    Values,               \* present values, as value_to_double reads them
    Increments,           \* COV increments an object can be created with
    MaxLifetime,          \* largest lifetime a SubscribeCOV request carries
    MaxObjects,           \* config.max_objects
    MaxCovSubscriptions,  \* config.max_cov_subscriptions
    NoKey                 \* no object: no COV report in the last step

ASSUME ConstantsAssumption ==
    /\ IsFiniteSet(Keys)
    /\ IsFiniteSet(Subscribers)
    /\ 0 \in Values /\ Values \subseteq Nat
    /\ Increments \subseteq Nat
    /\ MaxLifetime \in Nat
    /\ MaxObjects \in Nat
    /\ MaxCovSubscriptions \in Nat
    /\ NoKey \notin Keys

VARIABLES
    objects,        \* identities on the server->objects list
    objectCount,    \* server->object_count
    presentValue,   \* obj->present_value
    lastCovValue,   \* obj->last_cov_value
    covIncrement,   \* obj->cov_increment
    subscribed,     \* (object, subscriber) pairs on server->cov_subscriptions
    lifetime,       \* sub->lifetime, remaining seconds
    covCount,       \* server->cov_subscription_count
    (* observation only: what the last step reported *)
    covEvent,       \* object bacnet_cov_send_notifications ran for, or NoKey
    sentNow         \* subscribers a notification was sent to in that step

objVars == <<objects, objectCount, presentValue, lastCovValue, covIncrement>>
covVars == <<subscribed, lifetime, covCount>>
obsVars == <<covEvent, sentNow>>
vars == <<objVars, covVars, obsVars>>

Pairs == Keys \X Subscribers

(* The value a NULL present value is read as by value_to_double. *)
NullValue == 0

-----------------------------------------------------------------------------
(* Mutant: only a negative increment means "any change". *)
DiffersNegOnly(v1, v2, inc) ==
    IF inc < 0 THEN v1 # v2
    ELSE (IF v1 >= v2 THEN v1 - v2 ELSE v2 - v1) >= inc

(***************************************************************************)
(* values_differ_by_increment: with an increment <= 0 any change counts,  *)
(* otherwise the distance must reach the increment.                       *)
(***************************************************************************)
Differs(v1, v2, inc) ==
    IF inc <= 0 THEN v1 # v2
    ELSE (IF v1 >= v2 THEN v1 - v2 ELSE v2 - v1) >= inc

(* Mutant: the capacity check compares with <= instead of <. *)
CovHasRoomAtMost == covCount <= MaxCovSubscriptions

(* The capacity check of bacnet_cov_subscribe. *)
CovHasRoom == covCount < MaxCovSubscriptions

(* The capacity check of bacnet_server_create_object. *)
ObjectHasRoom == objectCount < MaxObjects

(* bacnet_server_create_object succeeds. *)
CanCreate(k) == k \notin objects /\ ObjectHasRoom

Init ==
    /\ objects = {}
    /\ objectCount = 0
    /\ presentValue = [k \in Keys |-> NullValue]
    /\ lastCovValue = [k \in Keys |-> NullValue]
    /\ covIncrement = [k \in Keys |-> 0]
    /\ subscribed = {}
    /\ lifetime = [p \in Pairs |-> 0]
    /\ covCount = 0
    /\ covEvent = NoKey
    /\ sentNow = {}

-----------------------------------------------------------------------------
(* bacnet_server_create_object: a new object with value v, COV increment  *)
(* inc and last COV value v; it fails when the object exists or the     *)
(* table is full.                                                         *)
CreateObject(k, v, inc) ==
    /\ CanCreate(k)
    /\ objects' = objects \cup {k}
    /\ objectCount' = objectCount + 1
    /\ presentValue' = [presentValue EXCEPT ![k] = v]
    /\ lastCovValue' = [lastCovValue EXCEPT ![k] = v]
    /\ covIncrement' = [covIncrement EXCEPT ![k] = inc]
    /\ covEvent' = NoKey
    /\ sentNow' = {}
    /\ UNCHANGED covVars

(* bacnet_server_delete_object: unlinks the object.  The COV subscriptions *)
(* on it are left in the table.                                            *)
DeleteObject(k) ==
    /\ k \in objects
    /\ objects' = objects \ {k}
    /\ objectCount' = objectCount - 1
    /\ covEvent' = NoKey
    /\ sentNow' = {}
    /\ UNCHANGED <<presentValue, lastCovValue, covIncrement, covVars>>

(* bacnet_cov_send_notifications for object k whose present value is now  *)
(* v: records v as the last COV value and notifies every subscription on  *)
(* k whose lifetime is above zero.                                        *)
SendNotifications(k, v) ==
    /\ lastCovValue' = [lastCovValue EXCEPT ![k] = v]
    /\ covEvent' = k
    /\ sentNow' = {s \in Subscribers : <<k, s>> \in subscribed /\ lifetime[<<k, s>>] > 0}

(* bacnet_server_update_value: stores v and, when v differs by the COV    *)
(* increment from the value it replaces, sends the COV notifications.     *)
UpdateValue(k, v) ==
    /\ k \in objects
    /\ presentValue' = [presentValue EXCEPT ![k] = v]
    /\ IF Differs(presentValue[k], v, covIncrement[k])
         THEN SendNotifications(k, v)
         ELSE /\ covEvent' = NoKey
              /\ sentNow' = {}
              /\ UNCHANGED lastCovValue
    /\ UNCHANGED <<objects, objectCount, covIncrement, covVars>>

(* bacnet_cov_subscribe: the object must exist and the table have room;   *)
(* an existing subscription of s on k is renewed with lifetime lt, else a *)
(* new one is linked in.                                                   *)
Subscribe(k, s, lt) ==
    /\ k \in objects
    /\ CovHasRoom
    /\ lifetime' = [lifetime EXCEPT ![<<k, s>>] = lt]
    /\ IF <<k, s>> \in subscribed
         THEN UNCHANGED <<subscribed, covCount>>
         ELSE /\ subscribed' = subscribed \cup {<<k, s>>}
              /\ covCount' = covCount + 1
    /\ covEvent' = NoKey
    /\ sentNow' = {}
    /\ UNCHANGED objVars

(* bacnet_cov_unsubscribe: unlinks the subscription of s on k.            *)
Unsubscribe(k, s) ==
    /\ <<k, s>> \in subscribed
    /\ subscribed' = subscribed \ {<<k, s>>}
    /\ covCount' = covCount - 1
    /\ covEvent' = NoKey
    /\ sentNow' = {}
    /\ UNCHANGED <<objVars, lifetime>>

(* The subscriptions that the next lifetime tick removes. *)
Expiring == {p \in subscribed : lifetime[p] = 1}

(* Mutant: unlinks expired subscriptions without decrementing the count. *)
TickLifetimesNoCount ==
    /\ lifetime' = [p \in Pairs |->
                      IF p \in subscribed /\ lifetime[p] > 0
                        THEN lifetime[p] - 1 ELSE lifetime[p]]
    /\ subscribed' = subscribed \ Expiring
    /\ covCount' = covCount
    /\ covEvent' = NoKey
    /\ sentNow' = {}
    /\ UNCHANGED objVars

(* Mutant: decrements every lifetime, the indefinite ones (0) included. *)
TickLifetimesUnguarded ==
    /\ lifetime' = [p \in Pairs |->
                      IF p \in subscribed THEN lifetime[p] - 1 ELSE lifetime[p]]
    /\ subscribed' = subscribed \ Expiring
    /\ covCount' = covCount - Cardinality(Expiring)
    /\ covEvent' = NoKey
    /\ sentNow' = {}
    /\ UNCHANGED objVars

(* bacnet_cov_update_lifetimes, run once a second by the task thread:     *)
(* every positive lifetime is decremented and the subscriptions it brings *)
(* to zero are unlinked, the counter decremented once for each.          *)
TickLifetimes ==
    /\ lifetime' = [p \in Pairs |->
                      IF p \in subscribed /\ lifetime[p] > 0
                        THEN lifetime[p] - 1 ELSE lifetime[p]]
    /\ subscribed' = subscribed \ Expiring
    /\ covCount' = covCount - Cardinality(Expiring)
    /\ covEvent' = NoKey
    /\ sentNow' = {}
    /\ UNCHANGED objVars

(* A step of another component: the server's tables are untouched and no *)
(* COV report is sent.                                                     *)
Quiet ==
    /\ covEvent' = NoKey
    /\ sentNow' = {}
    /\ UNCHANGED <<objVars, covVars>>

Next ==
    \/ \E k \in Keys, v \in Values, inc \in Increments : CreateObject(k, v, inc)
    \/ \E k \in Keys : DeleteObject(k)
    \/ \E k \in Keys, v \in Values : UpdateValue(k, v)
    \/ \E k \in Keys, s \in Subscribers, lt \in 0..MaxLifetime : Subscribe(k, s, lt)
    \/ \E k \in Keys, s \in Subscribers : Unsubscribe(k, s)
    \/ TickLifetimes

Spec == Init /\ [][Next]_vars

-----------------------------------------------------------------------------
(***************************************************************************)
(* Properties                                                              *)
(***************************************************************************)

TypeOK ==
    /\ objects \subseteq Keys
    /\ objectCount \in Nat
    /\ presentValue \in [Keys -> Values]
    /\ lastCovValue \in [Keys -> Values]
    /\ covIncrement \in [Keys -> Increments \cup {0}]
    /\ subscribed \subseteq Pairs
    /\ lifetime \in [Pairs -> 0..MaxLifetime]
    /\ covCount \in Nat
    /\ covEvent \in Keys \cup {NoKey}
    /\ sentNow \subseteq Subscribers

(* object_count and cov_subscription_count, which the capacity checks     *)
(* read, equal the lengths of the two lists after any sequence of         *)
(* creates, deletes, subscribes, renewals, cancels and lifetime ticks     *)
(* (a tick may unlink several subscriptions at once).                     *)
CountersMatchTables ==
    /\ objectCount = Cardinality(objects)
    /\ covCount = Cardinality(subscribed)

(* The COV table never holds more subscriptions than                      *)
(* max_cov_subscriptions, nor the object list more than max_objects,      *)
(* whatever mix of new subscriptions and renewals arrives.                *)
TablesBounded ==
    /\ Cardinality(subscribed) <= MaxCovSubscriptions
    /\ Cardinality(objects) <= MaxObjects

(* Redelivery idempotence (spec section 8): bacnet_server_update_value    *)
(* sends COV notifications for an object only in a step that changes the *)
(* object's present value, so a value update applied twice issues no     *)
(* second notification.                                                   *)
NoNotificationWithoutChange ==
    [][covEvent' # NoKey =>
         presentValue'[covEvent'] # presentValue[covEvent']]_vars

(* Spec 4.4: the registry reports a change once the present value has    *)
(* moved by the COV increment from the last value reported, so the       *)
(* present value of an object never stands an increment or more away     *)
(* from its last COV value.                                               *)
CovWithinIncrement ==
    \A k \in objects :
        ~Differs(lastCovValue[k], presentValue[k], covIncrement[k])


-----------------------------------------------------------------------------
(* The refinement mapping: the COV list with its lifetimes, seen as the   *)
(* abstract manager's table.                                             *)
CovTable == [p \in subscribed |-> lifetime[p]]

Cov == INSTANCE CovManager WITH table <- CovTable, Size <- Cardinality

(* The server's COV tables implement the abstract COV manager: every     *)
(* subscribe, renewal, cancel and lifetime tick of part_003 is a step of *)
(* the manager on the mapped table, and every other step leaves it alone. *)
CovRefinement == Cov!Spec

=============================================================================
