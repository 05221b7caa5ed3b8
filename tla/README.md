# Formal models of the BACnet event server

TLA+ models of the BACnet event server (`src/`). The models cover the
event pipeline from the event store to the BACnet object table, the Redis cache
mirror, crash recovery, COV lifetimes against the clock, and the event-store
client's subscription table and shutdown. TLC checks them on small instances.
TLAPS proves the object/COV table invariants, the refinement of an abstract
COV manager and the pipeline's cursor and cache-backing invariants for every
value of the constants.

## The system

| Part | Source | State | Operations |
|---|---|---|---|
| Event store consumer | `src/src/kurrentdb_client.c` | one poll thread per persistent subscription | fetch a batch, hand each event oldest-first to the callback |
| Event pipeline, startup | `src/src/main.c` | `g_mutex`, the subscription table | `on_event_received`, `recover_from_cache`, resume at cursor + 1, `bacnet_task_thread` |
| Message handler | `src/src/message_handler.c` | none (pure decode, then calls) | `message_handler_parse`, `message_handler_process_*` |
| Cache mirror | `src/src/redis_cache.c` | one hiredis connection; Redis holds `object:<type>:<inst>` blobs, the `objects:index` set, the `stream:positions` hash | store/update/delete object, iterate, store/load cursor |
| BACnet server | `src/unnamed/part_003` | object list + `object_count`, COV list + `cov_subscription_count`, `server->lock` | create/delete/update object, COV subscribe/renew/cancel, lifetime tick, send notifications |
| Health API, logging | `src/unnamed/part_002`, `part_004` | counters, log sinks | read-only HTTP, formatting |

How the parts interact:

1. Each poll thread calls `on_event_received` for each event it fetches.
2. `on_event_received` decodes the event. An event that does not decode is acknowledged and dropped.
3. Under `g_mutex` it applies the message to the cache first and then to the BACnet server.
4. When both succeed, it writes the event's revision as the subscription's cursor.
5. At startup the server is filled from the cache, and each subscription resumes after its stored cursor.

Concurrency and failures the code is exposed to:
- Several poll threads run at once and serialise on `g_mutex`.
- The BACnet task threads tick COV lifetimes and serve BACnet clients concurrently with the pipeline.
- The process can crash between any two of its Redis round trips.
- The Redis connection can be lost between two commands of one operation, and nothing reconnects it.
- The event server redelivers every event, because the consumer never acks. Each event returns later, possibly after newer events.

Where the headers (`part_000`, `include/`) and the implementations disagree on an
API, the models follow the implementation.

## Modules

- **`BacnetServer.tla`** models the object table and the COV table of `part_003`.
  - Variables are the object set with present value, last COV value and COV
    increment; the subscription set with lifetimes; and the two counters.
  - Two observation variables, `covEvent` and `sentNow`, record what the last
    step notified and to whom.
  - There is one action per function: `CreateObject`, `DeleteObject`,
    `UpdateValue` (including `SendNotifications`), `Subscribe` (new or
    renewal), `Unsubscribe`, `TickLifetimes`.
  - A present value is abstracted to the number `value_to_double` reads from it.
- **`RedisCache.tla`** models `redis_cache.c`.
  - State: the connection flag, the blobs (present value and COV increment),
    the index and the cursors.
  - Each operation is an action with its return code as a parameter.
  - A multi-command operation may lose the connection between its commands,
    with the effects the code then has. For example, `store_object` still
    returns 0 when the SADD is lost.
- **`Pipeline.tla`** composes the two modules with the consumer and `main.c`.
  It extends `BacnetServer` (so that the server's lemmas apply to it
  directly) and instantiates `RedisCache` as `Cache`. Its own initial
  predicate, next-state relation and specification are `PipelineInit`,
  `PipelineNext` and `PipelineSpec`; the type invariant is `PipelineTypeOK`.
  - `OnEvent` is `on_event_received` up to and including
    `message_handler_process`. Its per-message handlers are
    `ProcessObjectDefinition`, `ProcessValueUpdate`, `ProcessObjectDelete` and
    `ProcessDeviceConfig`.
  - `StoreCursor` is the cursor write and the unlock.
  - `Deliver` is the poll thread handing over the next event. `Redeliver` is
    the event server handing out an unacknowledged event again.
  - `Restart` is a crash followed by `main`'s startup: a new connection, empty
    server tables, `RecoverFromCache`, and a resume at cursor + 1.
  - `CacheFail` is a lost connection. `ServerStep` covers BACnet clients and
    the lifetime tick.
  - Between `OnEvent` and `StoreCursor` the process may crash. Every other
    crash point leaves the same persistent state as one of these two, because
    the server's tables are in memory and are lost either way.
- **`Decoder.tla`** models `message_handler_parse` and its field parsers.
  - A JSON body is abstracted to the fields the decoder branches on. A field
    that is missing or of the wrong JSON kind is `Absent`.
  - Each parser is an operator. Its early returns are a sequence of
    `<<check, error>>` pairs, and `FirstFailure` picks the first failed one,
    in the code's order.
  - `(uint32_t)` of a double is exact in range. Out of range it is undefined
    behaviour, modelled as any value of the type. uint32_t is narrowed to
    `W` bits.
  - `InstanceKey` is the `instance + offset` sum of the `process_*` handlers.
  - `WidthAssumption` and `AbsentAssumption` say that `2^W - 1` is a natural
    number, that a missing field is not a number, and that it is none of the
    names `parse_message_type` and `parse_object_type` compare with (the
    parsers test for `NULL` before any `strcmp`).
  - The state is the event, its subscription's offset and the result.
    `Decode` is the call in `on_event_received`; `Receive` takes the next event.
- **`CovManager.tla`** is the abstract COV manager, written from spec
  sections 4.5 and 5: a table from subscription to remaining lifetime with
  `Subscribe` (new or renewal; a new one needs a free slot), `Cancel` and
  `Tick` (decrement positive lifetimes, drop those reaching 0; 0 is
  indefinite, the code's reading of the spec's open question).
  `BacnetServer` maps its COV list onto it (`CovTable`,
  `Cov == INSTANCE CovManager WITH table <- CovTable, Size <- Cardinality`),
  and `CovRefinement == Cov!Spec` states that the server implements it.
  The size operator is a constant parameter so that the prover sees the
  instance's `Cardinality` as the standard one.
- **`CovLifetimes.tla`** adds wall-clock seconds to `BacnetServer`, which it
  extends; its actions and specification are `TimedCreateObject`,
  `TimedSubscribe`, `TimedUnsubscribe`, `Tick`, `Second` and `TimedSpec`,
  with type invariant `TimedTypeOK`. `ClockAssumption` requires at least one
  ticker (the program starts two).
  - Two threads call `bacnet_cov_update_lifetimes` once a second: the
    server's own `bacnet_task_thread_func` (`part_003`, started by
    `bacnet_server_start`) and `main.c`'s `bacnet_task_thread`. Both poll
    every 10 ms, so each runs in every second; `Second` moves the clock on
    only after every ticker (`Tickers`) has seen the current second.
  - History variables `grantedAt` and `grantedFor` record when a
    subscription was last granted and for how long.
- **`SubscriptionClient.tla`** models the subscription table of
  `kurrentdb_client.c` in the order `main.c` drives it.
  - Memory is a set of numbered blocks. `realloc` of the full array
    either grows it in place, moves it to a new block and frees the old one,
    or fails. What a freed block holds is chosen when it is freed: anything.
  - Each poll thread keeps the block its `sub` pointer was taken from
    (`subPtr`) and leaves its loop when it reads its `active` flag false
    there or sees `client->running` false (`PollExit`).
  - `main` subscribes every device (`Subscribe*`, with the failed
    `pthread_create` whose result is ignored), and at shutdown calls
    `kurrentdb_stop_event_loop`, `kurrentdb_unsubscribe` (clear, then
    join) per handle, and destroys the client (`DestroyBegin`, `DestroyEnd`).
  - `main.c` calls the header's handle-based API while `kurrentdb_client.c`
    implements a client-pointer API; the model follows the implementation
    with `main`'s call order.
- **`BacnetServerProofs.tla`**, **`PipelineProofs.tla`**,
  **`CovLifetimesProofs.tla`** and **`DecoderProofs.tla`** hold the TLAPS
  proofs about the module each is named after.
- **`MC_*.tla` and `*.cfg`** are the model-checking instances.

## Runs

| Run | Checks | Result |
|---|---|---|
| `server_tables` (`MC_BacnetServer.cfg`) | `TypeOK`, `CountersMatchTables`, `TablesBounded`, `NoNotificationWithoutChange`, `CovRefinement` | pass, ~127k states |
| `cov_drift` | `CovWithinIncrement` (spec 4.4) | violated: steps of 1 under an increment of 2 never report |
| `cov_lifetimes` (`MC_CovLifetimes.cfg`) | `TimedTypeOK`, `NoSubscriptionOutlivesLifetime` | pass, ~16k states |
| `lifetime_double_tick` | `LifetimeHonoured` (spec 5: tick once per second) | violated: with both threads ticking, a lifetime-2 subscription expires in the second it was granted |
| `pipeline` (`MC_Pipeline.cfg`, `FairSpec`) | `PipelineTypeOK`, `RegistryBackedByCache`, `StreamsDrained` | pass, ~200k states |
| `cursor_past_failure` | `CursorSafety` (spec invariant 5) | violated: the cursor passes a failed event |
| `cursor_regress` | `CursorMonotonic` (spec invariant 3) | violated: a redelivered definition resurrects a deleted object and moves the cursor back |
| `mirror` | `CacheMirrorsRegistry` (spec invariant 1) | violated: a lost SADD leaves a registry object that recovery cannot find |
| `event_lost` (`FairSpec`) | `EveryEventApplied` (spec 1, 4.4: at-least-once) | violated: after a lost cache connection the failed events are moved past and never applied |
| `decoder` (`MC_Decoder.cfg`) | `TypeOK`, `DecodesPerSchema` | pass, ~8k states |
| `instance_wrap` | `NoInstanceWrap` (spec boundary behaviours) | violated: `instance + offset` wraps |
| `shutdown_hang` (`FairSpec`) | `ShutdownCompletes` (spec 5, line 162: every loop observes the stop) | violated: after realloc moved the array, a poll thread reads its flag in the freed block and `pthread_join` never returns |

What the passing runs show:
- The counters that the capacity checks read stay equal to the list lengths.
  This holds across renewals, cancels and ticks that unlink several
  subscriptions at once.
- A COV report is sent only when the value changes, so re-applying the same
  update is silent.
- The decoder rejects every event that lacks a field the schema requires or
  names an unknown object type (`Complete`), and accepts every event the
  schema calls well formed with its message type, the table's type code, its
  instance and, for a ValueUpdate, the schema's value kind. `WellFormed` is
  written from the schema: the required fields of section 4.3, the object-type
  table, a uint32 instance (section 3) and a multi-state value in
  `1 .. 16` (invariant 4, section 4.4, at most 16 states). The converse does
  not hold: the code accepts a negative instance and an out-of-range
  multi-state value (the casts at `message_handler.c:223` and `:320`), which
  `PROJECT.json` lists under `hazards`.
- Because the handlers write the cache before the server, and recovery creates
  only what loads from the cache, every registry object has a cache blob.
- The COV list implements the abstract COV manager: subscribe, renewal,
  cancel and tick are manager steps on the mapped table.
- However the two tickers interleave, no subscription with a lifetime
  outlives it: each is gone by `grantedAt + grantedFor`.
- The poll threads never stall: under the fairness below, every stream is
  delivered to its end and stays so, through failures and a restart.

The failed checks record where the code and the spec (`spec.md`) disagree.
`PROJECT.json` lists them under `findings`.

The mirror invariant fails for several other reasons besides the lost SADD,
each visible by reading the code against the model:
- A delete is applied while the cache is down, so the object is resurrected at
  the next restart.
- A redelivered definition resets the cached value while the registry keeps
  the current one.

TLC reports only the shortest violation, which is the lost SADD.

Other divergences read off the code have no run of their own (they take one
step to show and are listed under `hazards` in `PROJECT.json`):
`bacnet_cov_send_notifications` never notifies a lifetime-0 subscription
although 0 means indefinite; `bacnet_server_delete_object` leaves the
object's COV subscriptions; `parse_object_definition` takes a binary or
multi-state kind from `presentValueType`; a multi-state value is never
range-checked.

**Bounds**

- `MC_BacnetServer`: 2 objects, 2 subscribers, values 0..2, increments {0, 2},
  lifetimes 0..2, 1 object slot, 2 COV slots. This is enough for a full table,
  a renewal at capacity, a lifetime-0 and an expiring subscription, and a
  below-increment step. Symmetry over objects and subscribers is sound because
  no definition distinguishes them.
- `MC_Pipeline`: 2 subscriptions of 3 and 4 events covering every message
  kind, 1 object slot, 1 redelivery, 1 crash, 1 COV subscriber. With only 1
  object slot, the second definition fails and recovery has to choose between
  objects. One redelivery reaches every re-application hazard: a redelivered
  definition, update or delete. There is no symmetry, because the two streams
  differ.
- `MC_CovLifetimes`: 1 object, 2 subscribers (symmetric), lifetimes 0..3,
  2 COV slots, 2 tickers, 4 seconds. A lifetime of 3 granted at second 0
  runs past the horizon, so both early and on-time expiry are reachable.
- `MC_SubscriptionClient`: 2 devices and an initial capacity of 1, so the
  second subscription reallocates while the first poll thread runs. The
  code starts at 8, and `main` allows 32 devices.
- `MC_Decoder`: every message type with every combination of a valid, an
  invalid and an absent value of each field the parsers read, plus each
  envelope error. uint32_t has 3 bits, with offsets 0 and 6, so that
  instance 5 wraps. Negative instances reach the undefined casts.

**Fairness.** Safety runs use `Spec`. The liveness runs use `FairSpec`:
- `Pipeline`: weak fairness of each subscription's `Deliver` (the poll
  thread loops while the subscription is active and hands out every event of
  its batch) and of `StoreCursor` (the rest of `on_event_received` once the
  handler returned). `Redeliver` (the event server's timeout), `Restart`,
  `CacheFail` and BACnet clients are the environment and get none; they are
  bounded, so they stop happening.
- `SubscriptionClient`: weak fairness of `main`'s steps after the shutdown
  signal and of each poll thread's `PollExit` (it tests its condition every
  100 ms). The signal itself (`StopEventLoop`) gets none.

## Proofs

`BacnetServerProofs.tla` proves, for all constants satisfying
`ConstantsAssumption`:
- `TypeCorrect`: `Spec => []TypeOK`.
- `CountersCorrect`: `Spec => []CountersMatchTables`.
- `CapacityRespected`: `Spec => []TablesBounded`.
- `NotificationOnlyOnChange`: `Spec => NoNotificationWithoutChange`.

`ConstantsAssumption` requires finite key and subscriber sets, natural values
and increments, and natural bounds.

`TypeOK` is not inductive on its own. `TickLifetimes` sets the count to
`covCount - Cardinality(Expiring)`, which is a natural number only because
`covCount` is the size of the set the expiring subscriptions are drawn from.
The inductive invariant `Inv` is therefore
`TypeOK /\ CountersMatchTables /\ TablesBounded`.

There is one lemma per action. Each lemma shows one step per conjunct of
`Inv`, using the cardinality facts of `FiniteSetTheorems`:
- `FS_AddElement` and `FS_RemoveElement` for single inserts and removals.
- `FS_Difference` for the tick.

The action property follows from `Inv` and `DiffersMeansChange`: a positive
increment can only be reached by two different values.

`BacnetServerProofs.tla` also proves `ImplementsCovManager`:
`Spec => CovRefinement`. `CovInitMaps` shows that the empty table maps to the
manager's empty table. `CovStepMaps` shows that, under `Inv`, each server
step is a manager step or leaves `CovTable` unchanged: `Subscribe` is
`Cov!Subscribe` (its room check `covCount < MaxCovSubscriptions` is the
manager's `Size(DOMAIN table) < MaxCovSubscriptions` because of
`CountersMatchTables`), `Unsubscribe` is `Cov!Cancel`, `TickLifetimes` is
`Cov!Tick`, and the object operations leave the COV list alone. The
temporal step combines them with `[]Inv` by `PTL`.

`PipelineProofs.tla` proves, for all constants satisfying
`PipelineAssumption` (each stream is a sequence of decoded messages,
`NoRecord` is not an object record, and the redelivery and crash bounds are
natural numbers) and `ConstantsAssumption`:
- `RegistryAlwaysBacked`: `PipelineSpec => []RegistryBackedByCache`.
- `PipelineTypeCorrect`: `PipelineSpec => []PipelineTypeOK`.

`RegistryBackedByCache` is not inductive alone, and neither is the fact it
needs about stored cursors (`CursorOnlyAfterSuccess`, a conjunct of the
invariant: a stored cursor names a successfully handled event).
- The cursor write in `StoreCursor` is only safe because the event in flight
  (`busy`) is already recorded. So the invariant adds `BusyApplied`: an
  in-flight event marked successful is in `applied`.
- Restart recovery creates objects only from indexed keys. So the invariant
  types `index` as well as `blob`.

`BackedInv` is `BusyApplied`, `CursorOnlyAfterSuccess`,
`RegistryBackedByCache` and these typing facts.
TLC checks it on the `pipeline` instance. The proof has one lemma per
message handler, each showing that the handler leaves every server object
backed by a blob and does not touch the cursor (`HandlerPost`);
`OnEventCore` for the mutex section; and one lemma per action.

`PipelineTypeCorrect` rests on `PipeInv`: `BackedInv`, the server's invariant `Inv`
of `BacnetServerProofs`, and the typing of the pipeline's own variables
(`PipeTyped`). Because `Pipeline` extends `BacnetServer`, each message
handler reuses the server lemmas (`CreatePreserves`, `UpdatePreserves`,
`DeletePreserves`). The restart is the one new step: `RecoverServerInv` shows
that `RecoverFromCache`, which loads at most `MaxObjects` indexed keys into
empty tables, re-establishes `Inv`.

`CovLifetimesProofs.tla` proves, under `ClockAssumption` and
`ConstantsAssumption`:
- `TimedTypeCorrect`: `TimedSpec => []TimedTypeOK`.
- `LifetimeNeverOutlived`: `TimedSpec => []NoSubscriptionOutlivesLifetime`.

`NoSubscriptionOutlivesLifetime` is not inductive. A subscription may sit at
its deadline with a tick still due in the current second, and the property
alone does not say that the tick will remove it before `Second` moves on.
The strengthening `LifetimeBound` relates the remaining lifetime to the
clock: every subscription granted a lifetime has `lifetime >= 1` and
`now + lifetime <= grantedAt + grantedFor + Slack`, where `Slack` is 1 while
some ticker has not yet run in the current second. `ClockOK` (no ticker is
ahead of the clock) and `Inv` complete `IInv`, which TLC checked on the
`cov_lifetimes` instance before the proof. At least one ticker is needed:
with none, `Second` would advance the clock with no tick at all.

`DecoderProofs.tla` proves, under `WidthAssumption` and `AbsentAssumption`:
- `DecoderTypeCorrect`: `Spec => []TypeOK`.
- `DecodesSchemaConformant`: `Spec => []DecodesPerSchema`.

The inductive invariant `IInv` says that a decoded result is one that
`Parse` can return for the event under decoding. The work is in
`ParseCorrect`, which shows that every result of `Parse(e)` is a message,
accepted only if `Complete(e)` and always if `WellFormed(e)`, and then keeps
the message type, the type code, the instance (`ToUintExact`: the cast is
exact in range) and, for an update, the schema's kind (`UpdateKindFacts`). The
supporting lemmas are:
- `FirstFailure3`, `FirstFailure4` and `FirstFailure5` reduce the chain of
  early returns to the code's nested `if`. The least failed check is
  found by cases with `MinIs`, because the library's least-element theorems
  take an operator parameter.
- `ConcatThree` and `ConcatThreeTwo` unfold the appended check lists.
- One lemma per parser (`DefinitionParsed`, `UpdateParsed`, `DeleteParsed`,
  `DeviceConfigParsed`).
- `ObjectTypeFacts`, `MessageTypeFacts` and `RequiredFields` relate the
  parsers' tables to the schema's.

Two facts the provers lack are stated as assumptions that TLC evaluates on
every run: that `2^W - 1` is natural (the SMT backend knows nothing of `^`),
and which names a missing field differs from (string literals are distinct
to the provers but are not known to be in `STRING`).

The provers need the module structure above. `tlapm` does not import the
statements of lemmas proved in an instantiated module, so `Pipeline` and
`CovLifetimes` extend `BacnetServer` rather than instantiating it, and their
proof modules extend `BacnetServerProofs`.

What is only model-checked:
- Liveness (`StreamsDrained`, `EveryEventApplied`, `ShutdownCompletes`):
  the prover does not reason about fairness and `ENABLED`.
- `SubscriptionClient`, whose one property is liveness.
- The violation runs, which show counterexamples and have nothing to prove.

## Not modelled

- BACnet packet handling and the device object.
- The health API and logging.
- JSON encoding beyond the two fields that are read back.
- HTTP transport and reconnect polling to the event store; the
  `connected` flag of the client (its only effect is a status callback).
- `kurrentdb_subscribe`/`catchup_thread` (an empty thread `main` never
  starts), ack/nak (never called), `kurrentdb_poll_events` (returns nothing).
- `subscription_poll_thread` taking its client from `sub->user_data`, which
  `kurrentdb_subscribe_persistent` overwrites before `pthread_create`
  (`kurrentdb_client.c:565`): what a thread does with a wrong pointer is
  outside the model, recorded as a hazard.
- Signal handling itself (the shutdown sequence after it is modelled).
- The memory-layout bug in `kurrentdb_client.c:449`, recorded as a hazard.

## Plan

Done:
- BacnetServer with its invariants and the CovManager refinement proved.
- RedisCache; Pipeline with crash, redelivery, connection loss and
  liveness; PipelineProofs.
- Decoder with its schema reference.
- CovLifetimes (two tickers) and SubscriptionClient (realloc and shutdown).
- Every safety invariant of the passing runs proved: the COV-table
  invariants inside `Pipeline`, the lifetime bound, and both decoder
  properties.

Still to do:
1. The ISO 8601 timestamp parser, against a reference definition. Its result
   is stored but never read by any handler.
2. A property for a renewal refused at capacity.
3. An abstract "registry = fold of the applied events" spec, refined by
   `Pipeline` where the code allows it.
4. Action properties of the pipeline beyond the cursor (for example, that a
   handler never removes an object it did not delete), with proofs.
