------------------------- MODULE CovLifetimesProofs -------------------------
(***************************************************************************)
(* Proofs, for every value of the constants, of the invariants that       *)
(* MC_CovLifetimes.cfg checks: the typing of the server tables, the clock *)
(* and the history, and NoSubscriptionOutlivesLifetime.                   *)
(*                                                                         *)
(* The server's tables change only by steps of BacnetServer, so the       *)
(* server's inductive invariant Inv and its per-action lemmas are those  *)
(* of BacnetServerProofs.                                                 *)
(*                                                                         *)
(* NoSubscriptionOutlivesLifetime is not inductive: it says nothing about *)
(* the lifetime counter that the ticks decrement.  What is inductive is   *)
(* the bound LifetimeBound below: a subscription granted lt > 0 seconds   *)
(* at second g has a lifetime of at least 1, and now + lifetime is at     *)
(* most g + lt, plus one while some ticker has not yet run in the current *)
(* second (its tick is still to come).  The clock moves on only once     *)
(* every ticker has run, which is what turns that pending tick into a     *)
(* real one; that is where Tickers # {} is needed.                        *)
(***************************************************************************)
EXTENDS CovLifetimes, BacnetServerProofs

(* Some ticker has not run bacnet_cov_update_lifetimes in this second. *)
TickPending == \E t \in Tickers : lastTick[t] < now

Slack == IF TickPending THEN 1 ELSE 0

(* No ticker's last_cov_check is ahead of time(NULL). *)
ClockOK == \A t \in Tickers : lastTick[t] <= now

(* The remaining lifetime of a subscription against the seconds left of *)
(* what it was granted.                                                   *)
LifetimeBound ==
    \A p \in subscribed :
        grantedFor[p] > 0 =>
            /\ lifetime[p] >= 1
            /\ now + lifetime[p] <= grantedAt[p] + grantedFor[p] + Slack

IInv == Inv /\ TimedTypeOK /\ ClockOK /\ LifetimeBound

LEMMA TimedInitIInv == TimedInit => IInv
<1> SUFFICES ASSUME TimedInit PROVE IInv
    OBVIOUS
<1>1. Inv  BY InitInv DEF TimedInit
<1>2. TimedTypeOK
    BY <1>1, ClockAssumption, ConstantsAssumption DEF TimedInit, TimedTypeOK, Inv
<1>3. ClockOK  BY DEF TimedInit, ClockOK
<1>4. LifetimeBound  BY DEF TimedInit, Init, LifetimeBound
<1>. QED  BY <1>1, <1>2, <1>3, <1>4 DEF IInv

-----------------------------------------------------------------------------
(* One lemma per action: each preserves IInv. *)

(* A step that leaves the clock and the history alone and does not add a *)
(* subscription or change a lifetime keeps the clock facts and the bound. *)
LEMMA ClockFactsKept ==
    ASSUME IInv, Inv', UNCHANGED <<clockVars, histVars, lifetime>>,
           subscribed' \subseteq subscribed
    PROVE  IInv'
<1>1. UNCHANGED Slack  BY DEF clockVars, Slack, TickPending
<1>2. TimedTypeOK'  BY DEF IInv, Inv, TimedTypeOK, clockVars, histVars
<1>3. ClockOK'  BY DEF IInv, ClockOK, clockVars
<1>4. LifetimeBound'  BY <1>1 DEF IInv, LifetimeBound, clockVars, histVars
<1>. QED  BY <1>2, <1>3, <1>4 DEF IInv

LEMMA TimedCreatePreserves ==
    ASSUME IInv, TimedCreateObject
    PROVE  IInv'
<1>1. PICK k \in Keys, v \in Values, inc \in Increments : CreateObject(k, v, inc)
    BY DEF TimedCreateObject
<1>2. Inv'  BY <1>1, CreatePreserves DEF IInv
<1>. QED  BY <1>1, <1>2, ClockFactsKept DEF TimedCreateObject, CreateObject, covVars

LEMMA TimedUnsubscribePreserves ==
    ASSUME IInv, NEW k \in Keys, NEW s \in Subscribers, TimedUnsubscribe(k, s)
    PROVE  IInv'
<1>1. Inv'  BY UnsubscribePreserves DEF IInv, TimedUnsubscribe
<1>. QED  BY <1>1, ClockFactsKept DEF TimedUnsubscribe, Unsubscribe

(* A new subscription or a renewal is granted at the current second with  *)
(* the lifetime it asked for, which is also the lifetime the table holds. *)
LEMMA TimedSubscribePreserves ==
    ASSUME IInv, NEW k \in Keys, NEW s \in Subscribers,
           NEW lt \in 0..MaxLifetime, TimedSubscribe(k, s, lt)
    PROVE  IInv'
<1>1. Inv'  BY SubscribePreserves DEF IInv, TimedSubscribe
<1>2. UNCHANGED <<now, lastTick>>  BY DEF TimedSubscribe, clockVars
<1>3. UNCHANGED Slack  BY <1>2 DEF Slack, TickPending
<1>4. TimedTypeOK'
    BY <1>1, <1>2, ConstantsAssumption
    DEF IInv, Inv, TimedTypeOK, TimedSubscribe, Pairs
<1>5. ClockOK'  BY <1>2 DEF IInv, ClockOK
<1>6. subscribed' \subseteq subscribed \cup {<<k, s>>}  BY DEF TimedSubscribe, Subscribe
<1>7. LifetimeBound'
    <2> SUFFICES ASSUME NEW p \in subscribed', grantedFor'[p] > 0
                 PROVE  /\ lifetime'[p] >= 1
                        /\ now' + lifetime'[p] <= grantedAt'[p] + grantedFor'[p] + Slack'
        BY DEF LifetimeBound
    <2>0. Slack \in {0, 1}  BY DEF Slack
    <2>1. CASE p = <<k, s>>
        <3>1. lifetime'[p] = lt /\ grantedAt'[p] = now /\ grantedFor'[p] = lt
            BY <2>1 DEF TimedSubscribe, Subscribe, IInv, TimedTypeOK, TypeOK, Pairs
        <3>. QED  BY <1>2, <1>3, <2>0, <3>1 DEF IInv, TimedTypeOK
    <2>2. CASE p # <<k, s>>
        <3>1. p \in subscribed  BY <1>6, <2>2
        <3>2. /\ lifetime'[p] = lifetime[p] /\ grantedAt'[p] = grantedAt[p]
              /\ grantedFor'[p] = grantedFor[p]
            BY <2>2 DEF TimedSubscribe, Subscribe
        <3>. QED  BY <1>2, <1>3, <3>1, <3>2 DEF IInv, LifetimeBound
    <2>. QED  BY <2>1, <2>2
<1>. QED  BY <1>1, <1>4, <1>5, <1>7 DEF IInv

(* The ticker that runs had not run in this second, so the tick it does  *)
(* is the pending one the bound allowed for.                             *)
LEMMA TickIInv ==
    ASSUME IInv, NEW t \in Tickers, Tick(t)
    PROVE  IInv'
<1>1. Inv'  BY TickPreserves DEF IInv, Tick
<1>2. UNCHANGED <<now, grantedAt, grantedFor>>  BY DEF Tick, histVars
<1>3. Slack = 1  BY DEF Tick, Slack, TickPending
<1>4. Slack' \in {0, 1}  BY DEF Slack
<1>5. TimedTypeOK'
    BY <1>1, <1>2 DEF IInv, Inv, TimedTypeOK, Tick, ClockOK
<1>6. ClockOK'  BY DEF IInv, ClockOK, TimedTypeOK, Tick
<1>7. LifetimeBound'
    <2> SUFFICES ASSUME NEW p \in subscribed', grantedFor'[p] > 0
                 PROVE  /\ lifetime'[p] >= 1
                        /\ now' + lifetime'[p] <= grantedAt'[p] + grantedFor'[p] + Slack'
        BY DEF LifetimeBound
    <2>1. p \in subscribed /\ lifetime[p] # 1
        BY DEF Tick, TickLifetimes, Expiring
    <2>2. lifetime[p] \in Nat /\ lifetime[p] >= 1
          /\ now + lifetime[p] <= grantedAt[p] + grantedFor[p] + 1
        BY <1>2, <1>3, <2>1 DEF IInv, LifetimeBound, Inv, TypeOK, Pairs
    <2>3. lifetime'[p] = lifetime[p] - 1
        BY <2>1, <2>2 DEF Tick, TickLifetimes, IInv, Inv, TypeOK
    <2>4. grantedAt[p] \in Nat /\ grantedFor[p] \in Nat /\ now \in Nat
        BY <2>1 DEF IInv, Inv, TypeOK, TimedTypeOK
    <2>5. now' = now /\ grantedAt'[p] = grantedAt[p] /\ grantedFor'[p] = grantedFor[p]
        BY <1>2
    <2>. QED  BY <1>4, <2>1, <2>2, <2>3, <2>4, <2>5
<1>. QED  BY <1>1, <1>5, <1>6, <1>7 DEF IInv

(* The clock moves on only once every ticker has run, so no tick is      *)
(* pending before it, and one is pending for every ticker after it.      *)
LEMMA SecondIInv ==
    ASSUME IInv, Second
    PROVE  IInv'
<1>1. Slack = 0
    <2>1. ~TickPending  BY DEF Second, TickPending, IInv, TimedTypeOK
    <2>. QED  BY <2>1 DEF Slack
<1>2. Slack' = 1
    <2>1. PICK t \in Tickers : TRUE  BY ClockAssumption
    <2>2. lastTick'[t] < now'  BY DEF Second, IInv, TimedTypeOK
    <2>. QED  BY <2>2 DEF Slack, TickPending
<1>3. Inv'  BY DEF Second, IInv, Inv, TypeOK, CountersMatchTables, TablesBounded, srvVars
<1>4. TimedTypeOK'
    BY <1>3, ClockAssumption DEF Second, IInv, Inv, TimedTypeOK, srvVars, histVars
<1>5. ClockOK'  BY DEF Second, IInv, ClockOK, TimedTypeOK, srvVars, histVars
<1>6. LifetimeBound'
    BY <1>1, <1>2 DEF Second, IInv, LifetimeBound, TimedTypeOK, TypeOK, Pairs,
                      srvVars, histVars
<1>. QED  BY <1>3, <1>4, <1>5, <1>6 DEF IInv

LEMMA TimedNextIInv == IInv /\ [TimedNext]_timedVars => IInv'
<1> SUFFICES ASSUME IInv, [TimedNext]_timedVars PROVE IInv'
    OBVIOUS
<1>1. CASE TimedCreateObject
    BY <1>1, TimedCreatePreserves
<1>2. CASE \E k \in Keys, s \in Subscribers, lt \in 0..MaxLifetime : TimedSubscribe(k, s, lt)
    BY <1>2, TimedSubscribePreserves
<1>3. CASE \E k \in Keys, s \in Subscribers : TimedUnsubscribe(k, s)
    BY <1>3, TimedUnsubscribePreserves
<1>4. CASE \E t \in Tickers : Tick(t)
    BY <1>4, TickIInv
<1>5. CASE Second
    BY <1>5, SecondIInv
<1>6. CASE UNCHANGED timedVars
    <2>1. Inv'
        BY <1>6 DEF IInv, Inv, TypeOK, CountersMatchTables, TablesBounded,
                    timedVars, srvVars
    <2>. QED  BY <1>6, <2>1, ClockFactsKept DEF timedVars, srvVars
<1>. QED  BY <1>1, <1>2, <1>3, <1>4, <1>5, <1>6 DEF TimedNext

LEMMA AlwaysIInv == TimedSpec => []IInv
BY TimedInitIInv, TimedNextIInv, PTL DEF TimedSpec

-----------------------------------------------------------------------------
(* The server tables, the clock and the history are well typed in every  *)
(* reachable state, whatever the number of ticking threads.              *)
THEOREM TimedTypeCorrect == TimedSpec => []TimedTypeOK
BY AlwaysIInv, PTL DEF IInv

(* For every instance with at least one thread calling                    *)
(* bacnet_cov_update_lifetimes once a second, no COV subscription with a *)
(* lifetime outlives the lifetime its SubscribeCOV asked for: the bound  *)
(* now + lifetime <= grantedAt + grantedFor (+ 1 while a tick is pending) *)
(* and lifetime >= 1 of a linked subscription give now <= grantedAt +   *)
(* grantedFor.                                                            *)
THEOREM LifetimeNeverOutlived == TimedSpec => []NoSubscriptionOutlivesLifetime
<1>1. IInv => NoSubscriptionOutlivesLifetime
    <2> SUFFICES ASSUME IInv, NEW p \in subscribed, grantedFor[p] > 0
                 PROVE  now <= grantedAt[p] + grantedFor[p]
        BY DEF NoSubscriptionOutlivesLifetime
    <2>1. Slack \in {0, 1}  BY DEF Slack
    <2>2. /\ lifetime[p] \in Nat /\ grantedAt[p] \in Nat /\ grantedFor[p] \in Nat
          /\ now \in Nat
        BY DEF IInv, Inv, TimedTypeOK, TypeOK
    <2>. QED  BY <2>1, <2>2 DEF IInv, LifetimeBound
<1>. QED  BY <1>1, AlwaysIInv, PTL

=============================================================================
