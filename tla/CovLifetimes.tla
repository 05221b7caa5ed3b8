----------------------------- MODULE CovLifetimes -----------------------------
(***************************************************************************)
(* COV subscription lifetimes against wall-clock time.                     *)
(*                                                                         *)
(* Two threads tick the lifetimes.  bacnet_server_start (part_003) starts *)
(* bacnet_task_thread_func, which calls bacnet_cov_update_lifetimes once  *)
(* whenever time(NULL) has moved past its last check.  main starts its    *)
(* own bacnet_task_thread (main.c), which does the same under g_mutex.    *)
(* Each call decrements every positive lifetime by one and unlinks the    *)
(* subscriptions that reach 0.                                             *)
(*                                                                         *)
(* Time is counted in whole seconds (time(NULL)).  Both threads poll every *)
(* 10 ms, so each one runs in every second: the clock moves on only after *)
(* every ticker has seen the current second.                              *)
(*                                                                         *)
(* History variables: grantedAt and grantedFor record, per subscription, *)
(* the second of its last SubscribeCOV and the lifetime it asked for.    *)
(***************************************************************************)
EXTENDS BacnetServer

CONSTANTS
    Tickers,   \* the threads that call bacnet_cov_update_lifetimes
    MaxTime    \* the last second explored

VARIABLES
    now,         \* time(NULL)
    lastTick,    \* lastTick[t]: last_cov_check of ticker t
    grantedAt,   \* history: second of the last subscribe of a pair
    grantedFor   \* history: lifetime that subscribe asked for

(* At least one thread ticks the lifetimes (the program starts two), and *)
(* time is a number of seconds.                                           *)
ASSUME ClockAssumption ==
    /\ Tickers # {}
    /\ MaxTime \in Nat

srvVars == <<objects, objectCount, presentValue, lastCovValue, covIncrement,
             subscribed, lifetime, covCount, covEvent, sentNow>>
clockVars == <<now, lastTick>>
histVars == <<grantedAt, grantedFor>>
timedVars == <<srvVars, clockVars, histVars>>

TimedInit ==
    /\ Init
    /\ now = 0
    /\ lastTick = [t \in Tickers |-> 0]
    /\ grantedAt = [p \in Pairs |-> 0]
    /\ grantedFor = [p \in Pairs |-> 0]

(* An ObjectDefinition event creates an object to subscribe to. *)
TimedCreateObject ==
    /\ \E k \in Keys, v \in Values, inc \in Increments : CreateObject(k, v, inc)
    /\ UNCHANGED <<clockVars, histVars>>

(* A SubscribeCOV request (new or renewal) at the current second. *)
TimedSubscribe(k, s, lt) ==
    /\ Subscribe(k, s, lt)
    /\ grantedAt' = [grantedAt EXCEPT ![<<k, s>>] = now]
    /\ grantedFor' = [grantedFor EXCEPT ![<<k, s>>] = lt]
    /\ UNCHANGED clockVars

(* A cancellation. *)
TimedUnsubscribe(k, s) ==
    /\ Unsubscribe(k, s)
    /\ UNCHANGED <<clockVars, histVars>>

(* Mutant: the ticker records the second but does not tick. *)
TickSkipped(t) ==
    /\ now > lastTick[t]
    /\ lastTick' = [lastTick EXCEPT ![t] = now]
    /\ Quiet
    /\ UNCHANGED <<now, histVars>>

(* Mutant: the tick decrements lifetimes that are already 0. *)
TickUnguarded(t) ==
    /\ now > lastTick[t]
    /\ TickLifetimesUnguarded
    /\ lastTick' = [lastTick EXCEPT ![t] = now]
    /\ UNCHANGED <<now, histVars>>

(* One pass of a ticker's loop in a new second: if (now > last_cov_check) *)
(* { bacnet_cov_update_lifetimes(...); last_cov_check = now; }            *)
Tick(t) ==
    /\ now > lastTick[t]
    /\ TickLifetimes
    /\ lastTick' = [lastTick EXCEPT ![t] = now]
    /\ UNCHANGED <<now, histVars>>

(* The next second begins, once every ticker has run in this one. *)
Second ==
    /\ now < MaxTime
    /\ \A t \in Tickers : lastTick[t] = now
    /\ now' = now + 1
    /\ UNCHANGED <<srvVars, lastTick, histVars>>

TimedNext ==
    \/ TimedCreateObject
    \/ \E k \in Keys, s \in Subscribers, lt \in 0..MaxLifetime : TimedSubscribe(k, s, lt)
    \/ \E k \in Keys, s \in Subscribers : TimedUnsubscribe(k, s)
    \/ \E t \in Tickers : Tick(t)
    \/ Second

TimedSpec == TimedInit /\ [][TimedNext]_timedVars

-----------------------------------------------------------------------------
(* The type invariant of the server tables, the clock and the history. *)
TimedTypeOK ==
    /\ TypeOK
    /\ now \in 0..MaxTime
    /\ lastTick \in [Tickers -> 0..MaxTime]
    /\ grantedAt \in [Pairs -> 0..MaxTime]
    /\ grantedFor \in [Pairs -> 0..MaxLifetime]

(* A subscription with a lifetime is gone by the time that lifetime has  *)
(* run out: the lifetime tick runs every second, and no subscription     *)
(* outlives what SubscribeCOV asked for.                                  *)
NoSubscriptionOutlivesLifetime ==
    \A p \in subscribed :
        grantedFor[p] > 0 => now <= grantedAt[p] + grantedFor[p]

(* A tick expires a subscription only once the lifetime it asked for has *)
(* elapsed, to within the one second of the tick's granularity: tick is  *)
(* called once per second by one supervisor.                              *)
LifetimeHonoured ==
    [][\A p \in subscribed \ subscribed' :
          lifetime'[p] # lifetime[p] => now >= grantedAt[p] + grantedFor[p] - 1]_timedVars

=============================================================================
