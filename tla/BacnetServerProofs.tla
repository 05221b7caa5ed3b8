------------------------- MODULE BacnetServerProofs -------------------------
(***************************************************************************)
(* Proofs, for every value of the constants, of the invariants that       *)
(* MC_BacnetServer.cfg checks on a small instance.                         *)
(*                                                                         *)
(* TypeOK alone is not inductive: TickLifetimes sets covCount to          *)
(* covCount - Cardinality(Expiring), a natural number only because        *)
(* covCount is the size of the table the expiring subscriptions are taken *)
(* from.  The inductive invariant Inv therefore carries the counters      *)
(* (CountersMatchTables) and the capacity bounds (TablesBounded).         *)
(***************************************************************************)
EXTENDS BacnetServer, FiniteSetTheorems, TLAPS

Inv == TypeOK /\ CountersMatchTables /\ TablesBounded

(* The object list and the COV table are finite sets. *)
LEMMA FiniteTables ==
    ASSUME TypeOK
    PROVE  /\ IsFiniteSet(objects)
           /\ IsFiniteSet(subscribed)
<1>1. IsFiniteSet(Pairs)
    BY ConstantsAssumption, FS_Product DEF Pairs
<1>2. IsFiniteSet(objects)
    BY ConstantsAssumption, FS_Subset DEF TypeOK
<1>3. IsFiniteSet(subscribed)
    BY <1>1, FS_Subset DEF TypeOK
<1>. QED  BY <1>2, <1>3

LEMMA InitInv == Init => Inv
BY FS_EmptySet, ConstantsAssumption
DEF Init, Inv, TypeOK, CountersMatchTables, TablesBounded, NullValue

-----------------------------------------------------------------------------
(* One lemma per action: each preserves Inv. *)

LEMMA CreatePreserves ==
    ASSUME Inv, NEW k \in Keys, NEW v \in Values, NEW inc \in Increments,
           CreateObject(k, v, inc)
    PROVE  Inv'
<1>1. IsFiniteSet(objects)  BY FiniteTables DEF Inv
<1>2. Cardinality(objects') = Cardinality(objects) + 1
    BY <1>1, FS_AddElement DEF CreateObject, CanCreate
<1>3. TypeOK'
    BY ConstantsAssumption DEF Inv, TypeOK, CreateObject, CanCreate, covVars
<1>4. CountersMatchTables'
    BY <1>2 DEF Inv, CountersMatchTables, CreateObject, covVars
<1>5. TablesBounded'
    BY <1>2, ConstantsAssumption
    DEF Inv, TypeOK, CountersMatchTables, TablesBounded, CreateObject, CanCreate,
        ObjectHasRoom, covVars
<1>. QED  BY <1>3, <1>4, <1>5 DEF Inv

LEMMA DeletePreserves ==
    ASSUME Inv, NEW k \in Keys, DeleteObject(k)
    PROVE  Inv'
<1>1. IsFiniteSet(objects)  BY FiniteTables DEF Inv
<1>2. Cardinality(objects') = Cardinality(objects) - 1
    BY <1>1, FS_RemoveElement DEF DeleteObject
<1>3. Cardinality(objects) \in Nat /\ Cardinality(objects) # 0
    BY <1>1, FS_CardinalityType, FS_EmptySet DEF DeleteObject
<1>4. TypeOK'
    BY <1>2, <1>3 DEF Inv, TypeOK, CountersMatchTables, DeleteObject, covVars
<1>5. CountersMatchTables'
    BY <1>2 DEF Inv, CountersMatchTables, DeleteObject, covVars
<1>6. TablesBounded'
    BY <1>2, <1>3, ConstantsAssumption DEF Inv, TablesBounded, DeleteObject, covVars
<1>. QED  BY <1>4, <1>5, <1>6 DEF Inv

LEMMA UpdatePreserves ==
    ASSUME Inv, NEW k \in Keys, NEW v \in Values, UpdateValue(k, v)
    PROVE  Inv'
<1>1. UNCHANGED <<objects, objectCount, subscribed, covCount>>
    BY DEF UpdateValue, covVars
<1>2. CountersMatchTables' /\ TablesBounded'
    BY <1>1 DEF Inv, CountersMatchTables, TablesBounded
<1>3. TypeOK'
    <2>1. CASE Differs(presentValue[k], v, covIncrement[k])
        BY <1>1, <2>1 DEF Inv, TypeOK, UpdateValue, SendNotifications, covVars
    <2>2. CASE ~Differs(presentValue[k], v, covIncrement[k])
        BY <1>1, <2>2 DEF Inv, TypeOK, UpdateValue, covVars
    <2>. QED  BY <2>1, <2>2
<1>. QED  BY <1>2, <1>3 DEF Inv

LEMMA SubscribePreserves ==
    ASSUME Inv, NEW k \in Keys, NEW s \in Subscribers,
           NEW lt \in 0..MaxLifetime, Subscribe(k, s, lt)
    PROVE  Inv'
<1>1. IsFiniteSet(subscribed)  BY FiniteTables DEF Inv
<1>2. UNCHANGED objVars  BY DEF Subscribe
<1>3. CASE <<k, s>> \in subscribed
    <2>1. UNCHANGED <<subscribed, covCount>>  BY <1>3 DEF Subscribe
    <2>2. TypeOK'  BY <1>2, <2>1 DEF Inv, TypeOK, Subscribe, Pairs, objVars
    <2>. QED  BY <1>2, <2>1, <2>2 DEF Inv, CountersMatchTables, TablesBounded, objVars
<1>4. CASE <<k, s>> \notin subscribed
    <2>1. subscribed' = subscribed \cup {<<k, s>>} /\ covCount' = covCount + 1
        BY <1>4 DEF Subscribe
    <2>2. Cardinality(subscribed') = Cardinality(subscribed) + 1
        BY <1>1, <1>4, <2>1, FS_AddElement
    <2>3. TypeOK'  BY <1>2, <2>1 DEF Inv, TypeOK, Subscribe, Pairs, objVars
    <2>4. CountersMatchTables'
        BY <1>2, <2>1, <2>2 DEF Inv, CountersMatchTables, objVars
    <2>5. TablesBounded'
        BY <1>2, <2>1, <2>2, ConstantsAssumption
        DEF Inv, TypeOK, CountersMatchTables, TablesBounded, Subscribe, CovHasRoom,
            objVars
    <2>. QED  BY <2>3, <2>4, <2>5 DEF Inv
<1>. QED  BY <1>3, <1>4

LEMMA UnsubscribePreserves ==
    ASSUME Inv, NEW k \in Keys, NEW s \in Subscribers, Unsubscribe(k, s)
    PROVE  Inv'
<1>1. IsFiniteSet(subscribed)  BY FiniteTables DEF Inv
<1>2. Cardinality(subscribed') = Cardinality(subscribed) - 1
    BY <1>1, FS_RemoveElement DEF Unsubscribe
<1>3. Cardinality(subscribed) \in Nat /\ Cardinality(subscribed) # 0
    BY <1>1, FS_CardinalityType, FS_EmptySet DEF Unsubscribe
<1>4. TypeOK'
    BY <1>2, <1>3 DEF Inv, TypeOK, CountersMatchTables, Unsubscribe, objVars
<1>5. CountersMatchTables'
    BY <1>2 DEF Inv, CountersMatchTables, Unsubscribe, objVars
<1>6. TablesBounded'
    BY <1>2, <1>3, ConstantsAssumption DEF Inv, TablesBounded, Unsubscribe, objVars
<1>. QED  BY <1>4, <1>5, <1>6 DEF Inv

LEMMA TickPreserves ==
    ASSUME Inv, TickLifetimes
    PROVE  Inv'
<1>1. IsFiniteSet(subscribed)  BY FiniteTables DEF Inv
<1>2. Expiring \subseteq subscribed  BY DEF Expiring
<1>3. subscribed \cap Expiring = Expiring  BY <1>2
<1>4. Cardinality(subscribed') = Cardinality(subscribed) - Cardinality(Expiring)
    <2>1. Cardinality(subscribed \ Expiring)
            = Cardinality(subscribed) - Cardinality(subscribed \cap Expiring)
        BY <1>1, FS_Difference
    <2>. QED  BY <1>3, <2>1 DEF TickLifetimes
<1>5. /\ IsFiniteSet(subscribed')
      /\ Cardinality(subscribed') \in Nat
      /\ Cardinality(subscribed') <= Cardinality(subscribed)
    BY <1>1, FS_Subset, FS_CardinalityType DEF TickLifetimes
<1>6. covCount' = Cardinality(subscribed')
    BY <1>4 DEF Inv, CountersMatchTables, TickLifetimes
<1>7. lifetime' \in [Pairs -> 0..MaxLifetime]
    BY ConstantsAssumption DEF Inv, TypeOK, TickLifetimes
<1>8. UNCHANGED objVars  BY DEF TickLifetimes
<1>9. TypeOK'
    BY <1>5, <1>6, <1>7, <1>8 DEF Inv, TypeOK, TickLifetimes, objVars
<1>10. CountersMatchTables'
    BY <1>6, <1>8 DEF Inv, CountersMatchTables, objVars
<1>11. TablesBounded'
    BY <1>1, <1>5, <1>8, FS_CardinalityType, ConstantsAssumption
    DEF Inv, TablesBounded, objVars
<1>. QED  BY <1>9, <1>10, <1>11 DEF Inv

LEMMA NextInv == Inv /\ [Next]_vars => Inv'
<1> SUFFICES ASSUME Inv, [Next]_vars PROVE Inv'
    OBVIOUS
<1>1. CASE \E k \in Keys, v \in Values, inc \in Increments : CreateObject(k, v, inc)
    BY <1>1, CreatePreserves
<1>2. CASE \E k \in Keys : DeleteObject(k)
    BY <1>2, DeletePreserves
<1>3. CASE \E k \in Keys, v \in Values : UpdateValue(k, v)
    BY <1>3, UpdatePreserves
<1>4. CASE \E k \in Keys, s \in Subscribers, lt \in 0..MaxLifetime : Subscribe(k, s, lt)
    BY <1>4, SubscribePreserves
<1>5. CASE \E k \in Keys, s \in Subscribers : Unsubscribe(k, s)
    BY <1>5, UnsubscribePreserves
<1>6. CASE TickLifetimes
    BY <1>6, TickPreserves
<1>7. CASE UNCHANGED vars
    BY <1>7 DEF Inv, TypeOK, CountersMatchTables, TablesBounded, vars,
                objVars, covVars, obsVars
<1>. QED  BY <1>1, <1>2, <1>3, <1>4, <1>5, <1>6, <1>7 DEF Next

(* values_differ_by_increment reports a difference only between two     *)
(* different values, whatever the (non-negative) increment.               *)
LEMMA DiffersMeansChange ==
    ASSUME NEW v1 \in Nat, NEW v2 \in Nat, NEW inc \in Nat,
           Differs(v1, v2, inc)
    PROVE  v1 # v2
BY DEF Differs

(* The step a COV report may be sent in. *)
NotifyStep ==
    covEvent' # NoKey => presentValue'[covEvent'] # presentValue[covEvent']

LEMMA NotifyOnlyOnChange == Inv /\ [Next]_vars => [NotifyStep]_vars
<1> SUFFICES ASSUME Inv, [Next]_vars PROVE [NotifyStep]_vars
    OBVIOUS
<1>1. CASE \E k \in Keys, v \in Values : UpdateValue(k, v)
    <2>1. PICK k \in Keys, v \in Values : UpdateValue(k, v)  BY <1>1
    <2>2. CASE Differs(presentValue[k], v, covIncrement[k])
        <3>1. presentValue[k] \in Nat /\ v \in Nat /\ covIncrement[k] \in Nat
            BY ConstantsAssumption DEF Inv, TypeOK
        <3>2. presentValue[k] # v  BY <2>2, <3>1, DiffersMeansChange
        <3>3. covEvent' = k /\ presentValue'[k] = v
            BY <2>1, <2>2 DEF UpdateValue, SendNotifications, Inv, TypeOK
        <3>. QED  BY <3>2, <3>3 DEF NotifyStep
    <2>3. CASE ~Differs(presentValue[k], v, covIncrement[k])
        BY <2>1, <2>3 DEF UpdateValue, NotifyStep
    <2>. QED  BY <2>2, <2>3
<1>2. CASE \/ \E k \in Keys, v \in Values, inc \in Increments : CreateObject(k, v, inc)
           \/ \E k \in Keys : DeleteObject(k)
           \/ \E k \in Keys, s \in Subscribers, lt \in 0..MaxLifetime : Subscribe(k, s, lt)
           \/ \E k \in Keys, s \in Subscribers : Unsubscribe(k, s)
           \/ TickLifetimes
    <2>1. covEvent' = NoKey
        BY <1>2 DEF CreateObject, DeleteObject, Subscribe, Unsubscribe, TickLifetimes
    <2>. QED  BY <2>1 DEF NotifyStep
<1>3. CASE UNCHANGED vars
    BY <1>3
<1>. QED  BY <1>1, <1>2, <1>3 DEF Next

-----------------------------------------------------------------------------
(* Every reachable state of the server is well typed. *)
THEOREM TypeCorrect == Spec => []TypeOK
<1>1. Spec => []Inv  BY InitInv, NextInv, PTL DEF Spec
<1>. QED  BY <1>1, PTL DEF Inv

(* object_count and cov_subscription_count equal the lengths of their     *)
(* lists in every reachable state, whatever the sequence of operations.  *)
THEOREM CountersCorrect == Spec => []CountersMatchTables
<1>1. Spec => []Inv  BY InitInv, NextInv, PTL DEF Spec
<1>. QED  BY <1>1, PTL DEF Inv

(* The object list never exceeds max_objects and the COV table never     *)
(* exceeds max_cov_subscriptions.                                        *)
THEOREM CapacityRespected == Spec => []TablesBounded
<1>1. Spec => []Inv  BY InitInv, NextInv, PTL DEF Spec
<1>. QED  BY <1>1, PTL DEF Inv

(* bacnet_server_update_value sends COV notifications for an object only *)
(* in a step that changes that object's present value, in every run.     *)
THEOREM NotificationOnlyOnChange == Spec => NoNotificationWithoutChange
<1>1. Spec => []Inv  BY InitInv, NextInv, PTL DEF Spec
<1>2. Spec => [][NotifyStep]_vars  BY <1>1, NotifyOnlyOnChange, PTL DEF Spec
<1>. QED  BY <1>2 DEF NoNotificationWithoutChange, NotifyStep


-----------------------------------------------------------------------------
(* Refinement of the abstract COV manager (CovManager) under the mapping *)
(* CovTable: the initial table is empty, and each server step is a       *)
(* manager step or leaves the mapped table unchanged.                    *)

LEMMA CovInitMaps == Init => Cov!Init
BY DEF Init, Cov!Init, CovTable

LEMMA CovSubscribeMaps ==
    ASSUME Inv, NEW k \in Keys, NEW s \in Subscribers, NEW lt \in 0..MaxLifetime,
           Subscribe(k, s, lt)
    PROVE  Cov!Subscribe(<<k, s>>, lt)
<1> DEFINE p == <<k, s>>
<1>1. subscribed' = subscribed \cup {p}
    BY DEF Subscribe
<1>2. Cardinality(DOMAIN CovTable) < MaxCovSubscriptions
    BY DEF Subscribe, CovHasRoom, Inv, CountersMatchTables, CovTable
<1>3. \A q \in subscribed' : lifetime'[q] = IF q = p THEN lt ELSE lifetime[q]
    BY DEF Subscribe, Inv, TypeOK, Pairs
<1>. QED  BY <1>1, <1>2, <1>3 DEF Cov!Subscribe, CovTable

LEMMA CovUnsubscribeMaps ==
    ASSUME NEW k \in Keys, NEW s \in Subscribers, Unsubscribe(k, s)
    PROVE  Cov!Cancel(<<k, s>>)
BY DEF Unsubscribe, Cov!Cancel, CovTable

LEMMA CovTickMaps ==
    ASSUME Inv, TickLifetimes
    PROVE  Cov!Tick
<1>1. subscribed' = {r \in subscribed : lifetime[r] # 1}
    BY DEF TickLifetimes, Expiring
<1>2. \A q \in subscribed' :
          lifetime'[q] = IF lifetime[q] > 0 THEN lifetime[q] - 1 ELSE lifetime[q]
    BY DEF TickLifetimes, Inv, TypeOK
<1>. QED  BY <1>1, <1>2 DEF Cov!Tick, CovTable

LEMMA CovStepMaps == Inv /\ [Next]_vars => [Cov!Next]_CovTable
<1> SUFFICES ASSUME Inv, [Next]_vars PROVE [Cov!Next]_CovTable
    OBVIOUS
<1>1. CASE \E k \in Keys, s \in Subscribers, lt \in 0..MaxLifetime : Subscribe(k, s, lt)
    <2>1. PICK k \in Keys, s \in Subscribers, lt \in 0..MaxLifetime : Subscribe(k, s, lt)
        BY <1>1
    <2>2. <<k, s>> \in Cov!Pairs  BY DEF Cov!Pairs
    <2>. QED  BY <2>1, <2>2, CovSubscribeMaps DEF Cov!Next
<1>2. CASE \E k \in Keys, s \in Subscribers : Unsubscribe(k, s)
    <2>1. PICK k \in Keys, s \in Subscribers : Unsubscribe(k, s)  BY <1>2
    <2>2. <<k, s>> \in Cov!Pairs  BY DEF Cov!Pairs
    <2>. QED  BY <2>1, <2>2, CovUnsubscribeMaps DEF Cov!Next
<1>3. CASE TickLifetimes
    BY <1>3, CovTickMaps DEF Cov!Next
<1>4. CASE \/ \E k \in Keys, v \in Values, inc \in Increments : CreateObject(k, v, inc)
           \/ \E k \in Keys : DeleteObject(k)
           \/ \E k \in Keys, v \in Values : UpdateValue(k, v)
           \/ UNCHANGED vars
    <2>1. UNCHANGED covVars
        BY <1>4 DEF CreateObject, DeleteObject, UpdateValue, SendNotifications,
                    vars, covVars
    <2>. QED  BY <2>1 DEF CovTable, covVars
<1>. QED  BY <1>1, <1>2, <1>3, <1>4 DEF Next

(* The COV list kept by part_003 implements the abstract COV manager:     *)
(* subscribe, renewal, cancel and the lifetime tick act on the mapped     *)
(* table as the manager specifies, in every run and for every size of     *)
(* the tables.                                                            *)
THEOREM ImplementsCovManager == Spec => CovRefinement
<1>1. Spec => []Inv  BY InitInv, NextInv, PTL DEF Spec
<1>. QED  BY <1>1, CovInitMaps, CovStepMaps, PTL DEF Spec, CovRefinement, Cov!Spec

=============================================================================
