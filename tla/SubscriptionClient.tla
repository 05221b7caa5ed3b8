-------------------------- MODULE SubscriptionClient --------------------------
(***************************************************************************)
(* The subscription table of src/src/kurrentdb_client.c and the order in   *)
(* which main (src/src/main.c) drives it: one persistent subscription per *)
(* configured device, then, at shutdown, kurrentdb_stop_event_loop, one   *)
(* kurrentdb_unsubscribe per subscription, and the client's destruction.  *)
(*                                                                         *)
(* client->subscriptions is an array of internal_subscription_t that      *)
(* kurrentdb_subscribe_persistent grows with realloc when it is full.     *)
(* Each poll thread is handed a pointer to its own element and reads its  *)
(* active flag at the top of every loop.  Memory is modelled as           *)
(* allocations (numbered blocks): realloc may grow a block in place, move *)
(* the contents to a new block and free the old one, or fail.  What a    *)
(* freed block holds is unspecified: it is chosen when the block is       *)
(* freed, any contents at all.                                            *)
(*                                                                         *)
(* The events a poll thread delivers are the Pipeline module's; here a     *)
(* thread only polls until it sees its flag cleared or the client stopped. *)
(***************************************************************************)
EXTENDS Naturals

CONSTANTS
    NumDevices,     \* devices with a subscription in subscriptions.json
    InitCapacity    \* initial subscription_capacity (8 in the code)

Devices == 0 .. NumDevices - 1
Slots == 0 .. NumDevices - 1
Blocks == 0 .. NumDevices     \* at most one move per subscribe
NoSlot == NumDevices          \* a NULL handle

VARIABLES
    subscriptionCount,     \* client->subscription_count
    subscriptionCapacity,  \* client->subscription_capacity
    subscriptions,         \* the block client->subscriptions points to
    freed,                 \* blocks released by realloc or free
    active,                \* active[b][i]: the active flag of element i of block b
    running,               \* client->running
    pollThread,            \* pollThread[i]: "none", "polling" or "exited"
    subPtr,                \* subPtr[i]: the block thread i's sub pointer is into
    mainPc,                \* where main is: "subscribe", "unsubscribe",
                           \* "join", "destroy" or "done"
    idx,                   \* main's loop index i
    handle                 \* handle[d]: the element of device d, or NoSlot

vars == <<subscriptionCount, subscriptionCapacity, subscriptions, freed, active,
          running, pollThread, subPtr, mainPc, idx, handle>>

(* kurrentdb_client_create: capacity InitCapacity, a zeroed array, running. *)
Init ==
    /\ subscriptionCount = 0
    /\ subscriptionCapacity = InitCapacity
    /\ subscriptions = 0
    /\ freed = {}
    /\ active = [b \in Blocks |-> [i \in Slots |-> FALSE]]
    /\ running = TRUE
    /\ pollThread = [i \in Slots |-> "none"]
    /\ subPtr = [i \in Slots |-> 0]
    /\ mainPc = "subscribe"
    /\ idx = 0
    /\ handle = [d \in Devices |-> NoSlot]

-----------------------------------------------------------------------------
(* "Expand capacity if needed". *)
NeedsGrow == subscriptionCount >= subscriptionCapacity

(* The rest of kurrentdb_subscribe_persistent once the array (block b, of *)
(* capacity cap, memory m) has room: element subscription_count is filled *)
(* in and made active, the count incremented, and a poll thread started  *)
(* on a pointer to the element, taken from client->subscriptions.  The   *)
(* result of pthread_create is ignored: when it fails the element keeps   *)
(* the poll_thread of 0 that memset gave it, and no thread runs.         *)
Link(b, cap, m) ==
    LET i == subscriptionCount IN
    /\ subscriptions' = b
    /\ subscriptionCapacity' = cap
    /\ active' = [m EXCEPT ![b][i] = TRUE]
    /\ subscriptionCount' = i + 1
    /\ \E t \in {"polling", "none"} : pollThread' = [pollThread EXCEPT ![i] = t]
    /\ subPtr' = [subPtr EXCEPT ![i] = b]
    /\ handle' = [handle EXCEPT ![idx] = i]
    /\ idx' = idx + 1
    /\ UNCHANGED <<running, mainPc>>

(* main's loop subscribes device idx: the array has room. *)
SubscribeNoGrow ==
    /\ mainPc = "subscribe" /\ idx < NumDevices
    /\ ~NeedsGrow
    /\ Link(subscriptions, subscriptionCapacity, active)
    /\ UNCHANGED freed

(* realloc doubles the array where it is. *)
SubscribeGrowInPlace ==
    /\ mainPc = "subscribe" /\ idx < NumDevices
    /\ NeedsGrow
    /\ Link(subscriptions, 2 * subscriptionCapacity, active)
    /\ UNCHANGED freed

(* realloc moves the array to a new block and frees the old one, whose    *)
(* contents are from then on whatever the allocator leaves there.         *)
SubscribeGrowMoved ==
    /\ mainPc = "subscribe" /\ idx < NumDevices
    /\ NeedsGrow
    /\ \E garbage \in [Slots -> BOOLEAN] :
         Link(subscriptions + 1, 2 * subscriptionCapacity,
              [active EXCEPT ![subscriptions + 1] = active[subscriptions],
                             ![subscriptions] = garbage])
    /\ freed' = freed \cup {subscriptions}

(* realloc fails: kurrentdb_subscribe_persistent returns false and main   *)
(* logs the failure and goes on with the next device.                    *)
SubscribeGrowFails ==
    /\ mainPc = "subscribe" /\ idx < NumDevices
    /\ NeedsGrow
    /\ idx' = idx + 1
    /\ UNCHANGED <<subscriptionCount, subscriptionCapacity, subscriptions, freed,
                   active, running, pollThread, subPtr, mainPc, handle>>

(* Every device is subscribed and SIGINT or SIGTERM cleared g_running:    *)
(* main leaves its loop and calls kurrentdb_stop_event_loop, which clears *)
(* the active flag of every element of the array.                        *)
StopEventLoop ==
    /\ mainPc = "subscribe" /\ idx = NumDevices
    /\ active' = [active EXCEPT ![subscriptions] =
                    [i \in Slots |-> IF i < subscriptionCount THEN FALSE ELSE @[i]]]
    /\ mainPc' = "unsubscribe"
    /\ idx' = 0
    /\ UNCHANGED <<subscriptionCount, subscriptionCapacity, subscriptions, freed,
                   running, pollThread, subPtr, handle>>

(* main's cleanup loop: a device without a handle is skipped; otherwise  *)
(* kurrentdb_unsubscribe clears the element's active flag and then waits  *)
(* for its poll thread.                                                    *)
Unsubscribe ==
    /\ mainPc = "unsubscribe" /\ idx < NumDevices
    /\ IF handle[idx] = NoSlot
         THEN /\ idx' = idx + 1
              /\ UNCHANGED <<active, mainPc>>
         ELSE /\ active' = [active EXCEPT ![subscriptions][handle[idx]] = FALSE]
              /\ mainPc' = "join"
              /\ UNCHANGED idx
    /\ UNCHANGED <<subscriptionCount, subscriptionCapacity, subscriptions, freed,
                   running, pollThread, subPtr, handle>>

(* pthread_join returns once the thread has left its loop (it is skipped *)
(* for an element whose poll_thread is 0).                               *)
Join ==
    /\ mainPc = "join"
    /\ pollThread[handle[idx]] # "polling"
    /\ mainPc' = "unsubscribe"
    /\ idx' = idx + 1
    /\ UNCHANGED <<subscriptionCount, subscriptionCapacity, subscriptions, freed,
                   active, running, pollThread, subPtr, handle>>

(* kurrentdb_shutdown destroys the client: running is cleared and every   *)
(* element made inactive.                                                 *)
DestroyBegin ==
    /\ mainPc = "unsubscribe" /\ idx = NumDevices
    /\ running' = FALSE
    /\ active' = [active EXCEPT ![subscriptions] =
                    [i \in Slots |-> IF i < subscriptionCount THEN FALSE ELSE @[i]]]
    /\ mainPc' = "destroy"
    /\ UNCHANGED <<subscriptionCount, subscriptionCapacity, subscriptions, freed,
                   pollThread, subPtr, idx, handle>>

(* ... then every poll thread is joined and the array freed. *)
DestroyEnd ==
    /\ mainPc = "destroy"
    /\ \A i \in Slots : pollThread[i] # "polling"
    /\ freed' = freed \cup {subscriptions}
    /\ mainPc' = "done"
    /\ UNCHANGED <<subscriptionCount, subscriptionCapacity, subscriptions, active,
                   running, pollThread, subPtr, idx, handle>>

(* subscription_poll_thread: while (sub->active && client->running) ...;  *)
(* the flag is read through the thread's own pointer.                     *)
PollExit(i) ==
    /\ pollThread[i] = "polling"
    /\ ~active[subPtr[i]][i] \/ ~running
    /\ pollThread' = [pollThread EXCEPT ![i] = "exited"]
    /\ UNCHANGED <<subscriptionCount, subscriptionCapacity, subscriptions, freed,
                   active, running, subPtr, mainPc, idx, handle>>

Next ==
    \/ SubscribeNoGrow \/ SubscribeGrowInPlace \/ SubscribeGrowMoved
    \/ SubscribeGrowFails
    \/ StopEventLoop \/ Unsubscribe \/ Join \/ DestroyBegin \/ DestroyEnd
    \/ \E i \in Slots : PollExit(i)

Spec == Init /\ [][Next]_vars

(* main's thread runs on to the end of its sequence, and each poll thread *)
(* goes round its loop every poll_interval_ms, so a thread whose exit     *)
(* condition holds leaves its loop.  The shutdown signal itself is the    *)
(* environment's: StopEventLoop gets no fairness.                         *)
Fairness ==
    /\ WF_vars(SubscribeNoGrow \/ SubscribeGrowInPlace \/ SubscribeGrowMoved
               \/ SubscribeGrowFails)
    /\ WF_vars(Unsubscribe) /\ WF_vars(Join)
    /\ WF_vars(DestroyBegin) /\ WF_vars(DestroyEnd)
    /\ \A i \in Slots : WF_vars(PollExit(i))

FairSpec == Spec /\ Fairness

-----------------------------------------------------------------------------
(* The type invariant; a capacity is the initial one doubled some times. *)
TypeOK ==
    /\ subscriptionCount \in 0..NumDevices
    /\ subscriptionCapacity \in {InitCapacity * 2^k : k \in 0..NumDevices}
    /\ subscriptions \in Blocks
    /\ freed \subseteq Blocks
    /\ active \in [Blocks -> [Slots -> BOOLEAN]]
    /\ running \in BOOLEAN
    /\ pollThread \in [Slots -> {"none", "polling", "exited"}]
    /\ subPtr \in [Slots -> Blocks]
    /\ mainPc \in {"subscribe", "unsubscribe", "join", "destroy", "done"}
    /\ idx \in 0..NumDevices
    /\ handle \in [Devices -> Slots \cup {NoSlot}]

(* Spec section 5 (spec.md:162): once shutdown has begun, every loop    *)
(* observes the stop and exits, so main gets through                      *)
(* kurrentdb_unsubscribe for every subscription and through the client's   *)
(* destruction.                                                           *)
ShutdownCompletes ==
    mainPc = "unsubscribe" ~> mainPc = "done"

=============================================================================
