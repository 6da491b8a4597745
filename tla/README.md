# Peers-Touch: formal models of message delivery and of the client kernels

TLA+ models of two parts of Peers-Touch. The first carries messages: delivery
between Stations, and delivery from a Station to a device. The second decides what
a client runs and for whom: the identity of a desktop window, the boot pipeline of
its runtimes, its pages, its applets, and the lifecycle kernel of the mobile app.
The modules are checked by TLC on small instances and, for every value of their
parameters, by TLAPS.

## 1. The system

Peers-Touch is a federated social network. Every user has a *Home Station*
(`apps/station`, Go), and devices (`apps/desktop`, `apps/mobile`: Tauri, Rust)
that share one messaging core (`packages/messaging-core`, Rust). Stations talk to
each other by signed frames, and to devices by HTTP.

### Inventory

| Component | State | Operations | Hard behaviour | What makes it correct |
|---|---|---|---|---|
| **Federation delivery** `frame/core/federation/delivery` | tables `federation_delivery_outbox`, `federation_delivery_inbox`; leases | Enqueue, Claim, MarkDelivered, ScheduleRetry, MarkTerminal, MarkExpired, Receive | concurrent dispatchers with one worker ID, leases by wall clock, lost answers, restarts | effect at most once, lane order, no lost frame, finality |
| **Device inbox** `conversation/infrastructure/delivery` | `device_queue_lanes`, `device_queue_items` | Enqueue, Claim, Acknowledge, Reject | late outcomes of earlier attempts, lost claim responses, quota | the lane never skips, epoch fencing |
| **Drain loop** `messaging-core/inbox`, desktop `engine.rs`, `store.rs` | consumption markers, lane cursor, consumer epoch in memory | `drain_once` | crash between local commit and acknowledgement | in order, once, everything drained |
| **Delivery receipts** `receipt_recorder.go` | receipt columns, commitment ledger | Record, RecordFollowerConsumption | receipts race acknowledgements | a receipt never blocks a lane |
| Messaging outbox `messaging-core/outbox` | command, send-intent and receipt outboxes | dispatch, retry, reconcile | timeout of an accepted command | one effect per command |
| Engine lifecycle `messaging-core/engine` | fence, token, cadence | start, stop, replace | worker of a replaced engine goes on | no write after replacement |
| MLS `messaging-core/mls` | group epoch, pending commit | commit, welcome, retirement | concurrent commits | one commit per epoch |
| Conversation authority `conversation/application/command`, `domain` | event log, idempotency keys | submit command | repeated commands, concurrent writers | one sequence, no gap |
| Conversation federation `conversation/infrastructure/federation` | follower copies | propose, append, resync | authority and follower diverge | a follower is a prefix of its authority |
| Social graph `subserver/social` | requests, relations, effect leases | request, accept, remove | requests crossing each other | both ends agree |
| Governance ledger `subserver/federation` | ledger entries | propose, sync | forks, replays | one history |
| Object storage, notification, device link, agent bridge | sessions and leases | upload, collect, push, pair | abandoned leases | nothing leaks, nothing is collected in use |
| **Applet kernel** `packages/applet-kernel`, `applet-contract` | instance registry, lifecycle states | dispatch, sweep, memory pressure | decisions dispatched one by one with gateway calls in between | limits kept, oldest first, nothing stale applied |
| **Applet host** desktop `appletsRuntime.ts`, `AppletManager.ts`, `SurfaceManager.ts` | page leases, sessions, host elements | acquire, activate, release, teardown, load, unload | a page is left, released or opened again during its load | no orphaned session; what is recorded is what is shown |
| **Identity runtime** desktop `identityRuntime.ts`, `store/session.ts`, `identity_event.ts` | phase, session mirror with epoch, pending completion | boot, resolve, login, OAuth, switch, unlock, complete, refresh, revoke, logout, remote change | every answer may come after the session changed, in this window or another | late answers are dropped, every sign-out reaches a gate |
| **Boot pipeline** desktop `boot.ts`, `runtime.ts`, `appRuntime.ts`, `useAppRuntime.ts` | runtime registry, three installers, the ready markers | session edge, install, bootstrap, teardown | installers of several sessions overlap | one idle install at a time, no result of an old session |
| **Page host** desktop `PageHost.tsx`, `pageRuntimeLease.ts` | mounted set, recency list, leases | navigate, close, mount, prewarm | two eviction rules and three ways to mount | bounded, released, the active page is there |
| **Mobile lifecycle kernel** mobile `MobileLifecycleKernel.ts`, `lifecycleReducer.ts` | phase, launch state, generation, runtime table, operation queue | start, stop, restart, transitionScope, suspend, resume, readiness updates | partial failures, timeouts, generations advanced by the native host | dependencies, fencing, teardown before replacement, the queue goes on |
| Frame, OAuth, the Station's applet store, user interfaces, wire models | - | - | I/O, formats, presentation | out of scope |

`PROJECT.json` lists every component with its sources and status, and the
hazards, each at the line where it bites.

### How the parts interact

A domain (for example Conversation) enqueues a frame in its own transaction. A
dispatcher claims it, posts it to the target Station and records the answer.
There `DeliveryReceiver.Receive` verifies it and runs the domain's receiver in the
transaction of the inbox receipt. For a chat event the domain then enqueues an
item for each device of the recipient. The device claims its lane, commits the
item locally (effect, marker, cursor and receipt in one transaction),
acknowledges it, and later sends the receipt, which travels back to the author.

On a desktop client the identity runtime owns the session; each change of it (a
session *epoch*) makes the boot pipeline tear the session runtimes down and
install and bootstrap them for the new actor. The page host mounts pages and
acquires and releases page leases of the runtimes; the applets runtime answers a
lease with a load and hands the instance to the applet kernel, whose sweep and
memory timers reclaim what is hidden. Windows of one device share a session vault
and tell each other of changes by a broadcast. The mobile app has one kernel that
queues all lifecycle operations and fences the runtimes by a native generation.

## 2. Modules

| Module | Role |
|---|---|
| `FederationDelivery` | outbox, dispatchers, transport, receiver and inbox |
| `FederationChannel` | abstract specification: what delivery promises to the domains |
| `FederationDeliveryProofs` | theorems about `FederationDelivery` |
| `MCFederationDelivery` | TLC instances |
| `DeviceInbox` | one device lane, the network and the device's drain loop |
| `DeviceInboxProofs` | theorems about `DeviceInbox` |
| `MCDeviceInbox` | TLC instances |
| `RetryBackoff` | the two functions that compute a retry delay |
| `RetryBackoffProofs` | theorems about `RetryBackoff` |
| `AppletScheduler` | pure: the lifecycle table and the decisions of the resource scheduler |
| `AppletRuntime` | page leases, kernel, surfaces, capability sessions and timers, composed |
| `IdentityRuntime` | the identity of one desktop window, its pipeline and its bridge |
| `BootPipeline` | the session effect, the runtime registry and the three installers |
| `PageHost` | mounting, prewarming, eviction and page leases |
| `MobileLifecycle` | the mobile lifecycle kernel |
| `AppletRuntimeProofs`, `IdentityRuntimeProofs`, `BootPipelineProofs`, `PageHostProofs`, `MobileLifecycleProofs` | theorems |
| `MCAppletRuntime`, `MCIdentityRuntime`, `MCBootPipeline`, `MCPageHost`, `MCMobileLifecycle` | TLC instances, and the expectations of section 6 |

### FederationDelivery

A frame is immutable and its identity covers all its bytes, so a frame is an
element of `Frames` and the columns read off it (`Source`, `FrameID`,
`IdempotencyKey`, `Lane`, `Seqno`, `ExpiresAt`) are constant functions of it.
`Corrupt` are the frames whose stored bytes no longer decode.

| TLA+ | Code |
|---|---|
| `outbox[f]` | the row of `federation_delivery_outbox`; `"absent"` is no row |
| `pc`, `batch`, `cur`, `reply`, `plan` | the locals of `DispatchOnce`, `dispatchClaim`, `updateLeased` |
| `net` | HTTP or relay requests not yet handled |
| `inbox[f]`, `log` | the disposition in `federation_delivery_inbox`; the domain mutations committed |
| `Enqueue` | `enqueueFrame` |
| `Claim(w, t, S)` | one `Claim` transaction: `expireDueRows`, selection, corrupt rows, leases |
| `ExpireClaim`, `Send`, `Resolve`, `Write` | `dispatchClaim`: `MarkExpired`; the request; the answer and the lease check of `updateLeased`; its `UPDATE` |
| `Crash`, `Abort` | an error or a crash; `runDeliveryRuntime` starts `Run` again |
| `Refuse`, `Replay`, `Commit`, `Rollback` | `DeliveryReceiver.Receive` and `GORMRepository.Receive` |

Decisions that matter:

* `updateLeased` first compares the lease with the clock and then updates. These
  are two steps (`Resolve`, `Write`): between them the lease may run out and be
  claimed by another dispatcher. The `UPDATE` itself is one step.
* The claim uses a clock reading `t` that may be up to `MaxLag` old.
* `lease_owner` is not a variable: every dispatcher of a Station has the same
  `WorkerID`, so it never tells two leases apart.
* The answer may be lost at any moment, also after the receiver has committed.
* The receiver's clock may be behind or ahead (`MaxSkew`), and verification may
  fail for other passing reasons; its answer is terminal and leaves no receipt.
* The domains are *external*: a receiver may answer any disposition, and it
  mutates exactly when it answers *accepted*. A lane is enqueued in order because
  callers number it under a lock in the transaction that enqueues.
* `SKIP LOCKED` is not modelled: a claim transaction is one step, so two
  overlapping claims appear in one of the two orders.

### FederationChannel

`Submit`, `Decide`, `Deliver`, `GiveUp`: no workers, leases, retries or clocks. A
frame is decided once, in lane order unless the sender has given it up, and is
reported delivered only when it was received. `ImplementsChannel` is the
refinement; the mapping is `Status`, `inbox` and `log`.

### DeviceInbox

An item is its lane sequence. Clocks are abstracted to one flag per row: `ripe`
says that the lease or the retry delay has run out; the leases of one epoch, which
were granted together, run out together.

| TLA+ | Code |
|---|---|
| `items`, `tail`, `acked`, `active` | `device_queue_items`; `next_sequence`, `acked_through`, `active_consumer_*` of the lane |
| `log` | `messaging_consumption_markers`, in commit order; its last element is `messaging_lane_cursor` |
| `me`, `epoch` | the consumer ID (new at every start) and `runtime_consumer_epoch` (in memory only) |
| `held`, `call` | the claimed items still to be acknowledged; the request in progress |
| `Enqueue` | `Repository.Enqueue`, with the item quota |
| `ClaimFenced`, `ClaimAhead`, `ClaimRecover`, `ClaimEmpty`, `ClaimRotten`, `ClaimBatch`, `ClaimExhausted` | the outcomes of one `Claim` transaction, in the order of its checks, with what `drain_once` does on the answer |
| `AckAccept`, `AckReplay`, `AckRotten`, `AckRefuse` | the outcomes of `Acknowledge` |
| `Reject` | `Reject`, and the replay of one |
| `Receipt` | `persistExactReceipt` |
| `Lapse`, `Wake`, `Rot` | time passes; stored bytes change |
| `Poll`, `Consume`, `SendReject`, `Fail`, `Timeout`, `Crash` | the device |

A handler runs in one transaction that locks the lane row first, so it is one
step. Its answer reaches the device in the same step if the device still waits for
it; an answer that is lost is a `Timeout` before the step or a copy of the request
handled again (`Handled`). The shipped clients never call `Reject`; the endpoint
exists, so the model has a consumer that uses it.

### RetryBackoff

`FederationDelivery` takes the delays as a table and `DeviceInbox` only says that
a delay passes; this module is where they come from. One behaviour is one call of
`RetryBackoff.Delay` (`kind = "frame"`) or of `retryDelay` (`"item"`): `Init`
chooses a configuration that the constructors accept and an attempt number,
`Double`, `Saturate` and `Finish` are the loop. Durations are signed integers of a
fixed width, and `Doubled` wraps around as Go's `*=` does.

### AppletScheduler and AppletRuntime

The host is one JavaScript thread: a step is what runs between two macrotask
awaits. Surface commands are synchronous, so a dispatch is one step, except that a
destroy awaits a gateway call; a load awaits the integrity check and then the call
that creates the session.

| TLA+ | Code |
|---|---|
| `registry`, `order` | `DefaultInstanceRegistry.instances` and its insertion order, which decides ties of the stable sort |
| `surface` | `SurfaceManager.records`: the host element, displayed or not, its view dropped or not |
| `manager`, `adopted`, `minted` | `AppletManager.appletInstances`; the sessions `DesktopSessionBackend` knows; the sessions the gateway has made |
| `load`, `waiting`, `unloading` | the shared load of an applet, the acquires that await it, the unloads in flight by origin |
| `lease`, `foreground`, `page`, `closing` | `activeAppletPageIds`, `foregroundAppletPageId`, the route, closes whose frame has not come |
| `batch`, `busy` | the events that the sweep's and the memory monitor's `dispatchAll` still have to dispatch, and whether it awaits |
| `OpenPage`, `LeavePage`, `ReleasePage`, `Teardown` | `acquireAppletPage`, `notifyActiveAppletPage`, `releaseAppletPage`, the runtime's teardown |
| `LoadVerified`, `LoadCreated`, `LoadFailed`, `UnloadDone` | the continuations of the load and of the unload |
| `WindowBlur`, `WindowFocus`, `RunSweep`, `HandleMemoryPressure`, `BatchSuspend`, `BatchDestroy` | the kernel's signals and `dispatchAll` |
| `Sweep`, `LruEvict`, `TtlSuspend`, `SuspendedOverflow`, `OnMemoryPressure` | `resource-scheduler.ts` |

`order` is a set of pairs (who was inserted before whom); `Among` is what remains of
it when records go. `InOrder` is the stable sort: it lists a set along a total order,
the k-th member being the one with k - 1 members before it.

The sweep properties are stated of every registry the composed system can reach,
with `Swept` as the outcome of a sweep nobody disturbs: its events dispatched one
after the other.

### IdentityRuntime

An operation in flight is a *task* whose `pc` names the answer it awaits.

| TLA+ | Code |
|---|---|
| `session` | `currentUser`, its profile and `sessionEpoch` of the session store |
| `phase`, `pending` | `IdentityRuntime.phase`, `pendingCompletion` |
| `task` | the async operations between two awaits, each with the fence it captured |
| `flag`, `bus` | `localIdentityActionPending`; `auth:identity-changed` broadcasts not yet received |
| `bound`, `active` | the actor the native commands (`account.rs`, `auth.rs`) have bound to the window; the vault's active account |
| `StartSignIn` ... `SignInBound`, `SwitchValidated`, `UnlockAuthenticated` | `login`, `loginWithOAuth`, `switchAccount`, `unlockWithPin` |
| `RestoreAnswered` ... `RestoreBound`, `OAuthAcknowledgementRetry` | `resolveSession` and its retry |
| `CompleteCurrentSession`, `CompletionBound`, `DecodeSettled`, `ClosureSettled` | `runCompleteCurrentSession`, `settleFreshCompletion` |
| `ProfileSynced`, `FallbackAvatarSynced`, `AccountsRefreshed` | `reconcileAuthenticatedIdentity`, `refreshCurrentProfile` and its fallback avatar |
| `SessionRevoked`, `Logout`, `LogoutAnswered`, `GateLoaded` | `revokeSession`, `logout` |
| `RemoteChange`, `IdentityChanged`, `PipelineTail` | another window; the bridge; the identity pipeline |

The profile carries a ghost, the epoch of the session that asked for it, which is
what `LateProfileDropped` compares. Likewise `phase.avatar` is the fence of the session
whose completion painted the avatar. A completion that decodes locally paints before
it reads its fence (`DecodeSettled`); one that waits for the closure reads it first
(`ClosureSettled`).

### BootPipeline

| TLA+ | Code |
|---|---|
| `rec` | the registry's records: installed, `bootstrapSequence`, `bootstrappedActorPtid` |
| `session`, `effect`, `ready` | the session the effect of `useAppRuntime` last ran for, its pending timers and awaits, `criticalSessionEpoch` |
| `idle`, `requests` | the module variables of `boot.ts` (generation, install in flight, status, ready actor); the calls chained behind an install |
| `app` | the module variables of `appRuntime.ts` |
| `loops` | the running installers: where each stands in its list and what it awaits |
| `SignIn`, `SignOut` | a session edge: the cleanup of the effect that ended (none after a signed-out session, whose effect tore down in its body), then the critical installer |
| `CriticalStep`, `IdleStep`, `DeferredStep` and their ends | one runtime of `installAuthenticatedCriticalRuntimes`, `installIdleRuntimes`, `installDeferredRuntimes` |
| `BootstrapAnswered`, `BootstrapTimesOut`, `RendererTurn` | the answer of a bootstrap, its budget, the yield of the deferred installer |
| `ChainedCall`, `IdleCallback`, `DeferredCallback` | the continuation of a chained call; idle callbacks and timers |

### PageHost

| TLA+ | Code |
|---|---|
| `active`, `mounted`, `recent`, `frame` | the registered page of the route (`NoPage` on a route without one, such as `agent-profile`), the mounted set, `recentRef`, the page the next animation frame mounts |
| `prewarm`, `closing` | the prewarm queue, explicit closes whose frame has not come |
| `installed`, `queued`, `leased` | the runtime that gives the leases: installed, pending acquires, pages acquired |
| `Navigate`, `NavigateUnregistered`, `MountFrame`, `PrewarmStart`, `PrewarmNext`, `ClosePage`, `CloseFrame` | the effects of `PageHost.tsx` and `pageRuntimeLease.ts` |

An action is a whole commit: the navigation with its recency effect, the per-page
`lru` rule and the global cap that run in the same commit; on a route without a
registered page none of these effects does anything. A page may ask to be closed
while it is hidden. `Filter` is
`Array.prototype.filter` as a recursive function, so that it can be reasoned about.

### MobileLifecycle

| TLA+ | Code |
|---|---|
| `phase`, `launch`, `gen`, `status`, `readiness` | the reducer's state |
| `graph`, `revision`, `updates`, `contexts`, `open` | `graphIncarnation`, `readinessRevision`, `readinessUpdates`, contexts and updates in the hands of runtimes |
| `op` | the operation at the head of `operationQueue`: its kind, step, place in the boot order, what has failed |
| `native`, `fenced`, `granted` | the native host's generation, the generation projections are fenced at, whether a session admits the shell |
| `StartRuntimeGraph` ... `Resume`, `ReconcileLaunchState` | the public operations |
| `ReadGeneration` ... `ApplyResume` | `requireNativeGeneration`, `applyGeneration` and its refusals |
| `Call*`, `*Succeeds`, `*Fails`, `Skip*`, `Pass*`, `*Complete` | one turn each of the bootstrap, suspend, resume and teardown loops |
| `Mutate`, `Snapshot`, `Resolve` | the owner's mutation; `resolveMobileLaunchState` and the walk over launch states |
| `ShowStationSelection`, `StartAccessGateChain`, `BeginUpdate`, `SettleUpdate`, `NativeForeground`, `AccessGranted` | what happens outside the queue |

The boot order is a constant in which dependencies come first
(`GraphAssumption`); the sort that computes it is not modelled.

## 3. Runs

| Run | Instance | Shows |
|---|---|---|
| `federation_lane` | 2 frames of a lane, 2 dispatchers, 4 clock values | effects, order, leases and final states; 965,000 states |
| `federation_channel` | the lane, 1 dispatcher, fairness | refinement of `FederationChannel`; every frame is settled |
| `federation_two_stations` | 3 frames, 2 Stations, one frame ID used twice, one corrupt row | identity conflicts at the receiver; what is delivered is committed |
| `device_inbox_safety` | 3 items, two of which may rot, quota 2, batches of 2, 2 process starts, 2 faults, 2 reject codes | all safety properties; 612,000 states |
| `device_inbox_liveness` | 3 items, quota 2, 2 process starts, 3 faults, fairness | everything is acknowledged |
| `device_inbox_receipt` | 2 items, 1 fault, fairness | **violation**, see section 6 |
| `retry_backoff` | durations of 5 bits, 10 attempt numbers | both backoff functions |
| `applet` | 2 applets, LRU of 1, 1 suspended, 3 instants, 2 sessions | surfaces, sessions, stale decisions, the sweep's limits; 306,000 states |
| `identity` | 2 accounts, 2 tasks, 2 events, failing commands, fairness | late answers, stale fences, sign-out; 300,000 states |
| `boot` | 2 accounts, 4 epochs, 4 installers, fairness | single flight, stale results, settling; 390,000 states |
| `page_host` | 5 pages, one of each policy, at most 2 hidden, fairness | bound, release, mounting; 209,000 states |
| `mobile` | 2 runtimes, 3 generations, 2 graphs, 1 update, fairness | all properties of the kernel; 724,000 states |

Bounds. Two frames are the smallest lane with an order, and two dispatchers the
smallest competition; leases last one tick, so a lease can lapse, be claimed
again and lapse again before the frames expire at 2 and 3. `MaxAttempt` 2
saturates the attempt count and `MaxGeneration` 2 exhausts the generation.
Five bits leave room for four doublings, and nine attempts are more than that.
Three items with batches of two make a second batch start inside the lane while
the quota of two delays the third item. A *fault* is a timeout, a crash, a
failed local transaction, a lease that lapses while the device works, a request
handled twice, or rot; two of them are enough for an outcome of one attempt to
meet a later attempt of another process.

Two applets are the smallest competition for an LRU of one; at three instants one
of them can be older than the other and within its time to live. A single applet
with two acquires that await one load, three sessions and two unloads at once
(`Applets = {a1}`, `MaxSession = 3`, `MaxWaiting = 2`, `MaxUnloads = 2`) passes as
well. In `identity` an event is an operation of the user, a revocation or a change
made by another window, and the restore at the start is none of them: two events
are enough for a completion or a profile answer to meet a session that is not its
own. With three tasks (`MaxTasks = 3`, 841,000 states) the same properties hold; that
takes some minutes longer. With four epochs a sign-in can be followed by two others and come back to the
first account while its installers still run; one runtime is both idle and
deferred, as `federation` is in the code. A page of each keep-alive policy with
two hidden pages lets each eviction rule act after each way to mount. Three
generations are a start and two resumes, so that a resume meets what the failure
of an earlier one left; readiness updates are begun in the first
(`MaxUpdateGen`), and settle in any.

All runs but `page_host` switch deadlock checking off: a system whose clock or
counters have reached their bound, or whose lane is empty, may rightly stop.

Fairness. `FederationDelivery`: the clock runs, and every dispatcher takes steps.
`Run` loops without end, the HTTP client times out, and the supervisor restarts a
failed `Run`. Nothing is assumed of the network or of the receiver.
`DeviceInbox`: the lifecycle worker polls again after every cycle, a request that
is waited for is answered or times out, leases and retry delays run out. The
liveness run excludes requests of a dead process that arrive after its successor's
(`Orphans = FALSE`): such a claim takes the epoch and fences the living engine
until it restarts, which the design accepts.

`IdentityRuntime`: every native command is answered (with an error if need be; the
bridge gives it a timeout), every broadcast is received, and the effect that calls
`revalidateIfNeeded` runs after a commit. Nothing is assumed of the user.
`BootPipeline`: the continuations of an installer run, its bootstraps answer (each
idle and deferred bootstrap has a budget), and idle callbacks come, since they are
requested with a timeout. `PageHost`: the browser delivers the frame that was
requested for the mount. `MobileLifecycle`: the operation at the head of the queue
takes its next step, since every await in it goes through `withTimeout`, except the
owner's mutation, for which nothing is assumed.

Every property has a mutant in the module (comment "Mutation"): a small change
of the definition that follows it, after which TLC finds the property violated.

## 4. Properties

Where a proof module shows that the types hold (`TypeOK`), the runs do not check them
again.

* `DeliveredIsCommitted`, `EffectAtMostOnce`, `EffectOncePerIdentity`: end-to-end
  correctness of the outbox and inbox pair.
* `LaneGate`, `LateOnlyIfGivenUp`: order. The second is the exact guarantee: a
  copy of a frame that the sender has given up may still take effect late,
  because a refusal by verification is terminal for the sender but leaves no
  receipt at the receiver.
* `LeaseExclusive`, `SettledForever`: fencing.
* `EventuallySettled`: no frame stays open.
* `AckedIsConsumed`, `ConsumedInOrder`, `CursorLead`: the device and the Station
  agree on what was consumed, up to one item. `CursorLead` is why the recovery in
  `drain_once` (claim again from 0) is enough.
* `AckedPrefix`, `LaneAdvances`: the lane.
* `OutcomeFromHolder`: the epoch fences the attempt.
* `Drained`: no item is left behind.
* `DelayInRange`, `MatchesReference`, `WorkIsBounded`: a delay never wraps, is the
  capped exponential, and costs a number of iterations that does not depend on
  the attempt number, which for a frame nothing bounds. `retryDelay` differs from
  the reference by one unit, when its maximum is odd.

* `SurfaceAgrees`, `NoOrphanSession`: over all interleavings of loads, unloads,
  releases and timers, the recorded state is what is displayed, and a session whose
  page is gone is gone. `StaleSuspendRejected`: of a decision computed earlier only
  what the lifecycle table still allows is applied.
* `SweepChooses`, `SweepSettles`: the three passes of a sweep agree with each other,
  take the oldest, keep the limits and converge. A sweep may leave more suspended
  instances than the limit when it suspended them all itself, and needs a second
  sweep to settle that.
* `LateProfileDropped`, `StaleFenceStaysStale`: answers belong to the session that
  asked, and a fence that is no longer live never becomes live again, though the same
  actor signs in again. The second is what the checks after each await rely on. `InBetweenEnds`: no window is stuck between an actor and the gate.
* `SingleFlight`, `StaleResultDiscarded`, `IdleReadyIsBootstrapped`: installers of
  overlapping sessions. `PipelineSettles`: no chained call is lost.
* `HiddenBounded` (while a registered page is active), `EvictedIsReleased`,
  `ActiveIsMounted`: the page cache.
* `ReplacedIsTornDown`, `ScopeMutationFenced`, `LiveNeedsDependencies`,
  `StaleUpdateRejected`, `FailedCleanupOutsideShell`, `OperationEnds`: the mobile
  kernel through partial failures.

## 5. Proofs

All of these hold for every value of the constants that satisfies the named
assumptions (`TableAssumption`, `BoundAssumption`; `LaneAssumption`,
`CallAssumption`; `WidthAssumption`; `PolicyAssumption`, `RuntimeAssumption`;
`IdentityAssumption`; `BootAssumption`; `PageAssumption`; `GraphAssumption`). Bounds
such as `MaxTime` are parameters of the theorems. Every invariant and every action
property that a run checks is proved, and so is the refinement.

`FederationDeliveryProofs`: `TypeCorrect`, `SettledIsFinal`, `DeliveredSafe`,
`EffectOnce`, `EffectOnceByIdentity`, `LaneIsGated`, `LaneOrder`, `LeasesExclude`,
`DeliveryImplementsChannel`.
The invariants are
proved in layers, each by induction and each using the ones before it. Types
first; then that every claim in a batch names a generation its row has reached
(so a row that holds the claim's generation and is leased is this claim's own);
that a reply, a plan and a row that say "delivered" rest on a receipt; that every
accepted receipt is in the log once; that every message, claim and receipt
belongs to a frame that has been leased, which with the lane gate gives order; and
that a lease's end in the row equals the end in the claim, which gives exclusion.
`EffectOnceByIdentity` rests on the receipts: a frame enters the log only in the
step that inserts its receipt, which the identity of an accepted one refuses.

The refinement goes action by action (`ChannelStep`): an enqueue is a `Submit`, a
commit at the receiver a `Decide`, the `UPDATE` that settles a row a `Deliver` or a
`GiveUp`, a claim the `GiveUp` of all the rows it expires or finds corrupt at once,
and every other step, crash, replay and refusal among them, is invisible. It uses the
layers above: `Deliver` asks for a receipt, and `Decide` that no later frame of the
lane was decided while this one is queued, which is the lane gate with the fact that
only a leased frame has a receipt.

`DeviceInboxProofs`: `LaneTypeCorrect`, `AckedWasConsumed`, `ConsumptionOrder`,
`CursorLeadsByOne`, `AckedRowsArePrefix`, `EpochFences`, `LaneNeverSkips`. The inductive invariant is
`LaneInv`. `AckedIsConsumed` alone is not inductive: an acknowledgement on its way
must name a consumed item (`NetOK`), which is true because the device consumes
the smallest item of a batch that has no gap above the head (`HeldOK`) and is
itself at most one ahead (`LogOK`). `OutcomeFromHolder` needs that no lease has a
later epoch than the lane (`LaneOK`) and that the device's batch belongs to it.
Most actions are *quiet* (`QuietLane`, `QuietDevice`): they lease nothing and
acknowledge nothing, and one lemma covers them.

`RetryBackoffProofs`: `DelayNeverOverflows`, `DelayMatchesReference`,
`LoopIsBounded`, for every width of a duration (`WidthAssumption`) and every attempt
number. The first adds to the range that the counter has not
passed the attempt it counts to; its one lemma is that a delay below half of the
maximum can be doubled. The others rest on `ExactInv`: until the loop returns its
delay is the initial one times the power of two of its count. That powers of two double and grow is not known to the
provers; `PowerDoubles` takes it from the number of subsets of a finite set.

`AppletRuntimeProofs`: `TypeCorrect`, `SweepChoosesOldest`, `SweepAlwaysSettles`,
`StaleSuspendIsRejected`, `SurfaceAlwaysAgrees`, `NoSessionIsOrphaned`, for every set of
applets, every policy and any number of loads, unloads and sessions in flight.

* `TypeInv` has one part that is more than types: the insertion order is a strict
  total order of the registered applets (`Ordered`). With it, the age of instances is
  one too (`OlderIsTotal`), each number below the size of a set is the rank of one
  member (`RankExists`, ranks being an injection), and so `InOrder` lists every member
  once (`ListedByAge`, `ListIsComplete`).
* Sweep: the three passes select from disjoint sets (`SweepPasses`), so an event never
  meets an instance that an earlier event of the same sweep has changed, and
  dispatching the events one by one amounts to the two sets of decisions
  (`SweptOutcome`). The n oldest of a set are at least n or the whole set
  (`OldestTakesEnough`); counting then gives the limits (`LimitsKept`), and the limits
  leave nothing to the passes of the next sweep (`NothingToSuspend`,
  `SecondSweepSettles`).
* `Fate` says of one applet what a step can do to it: leave it, move it by an event of
  the table, create it, begin its destroy or complete it (`StepFate`). The other
  theorems read off it. `SurfaceInv` is `SurfaceAgrees` with the types.
* `SessionInv`: a session in the manager has an instance or an unload in flight
  (`Held`); the backend knows the session of an instance until its destroy begins
  (`Known`), so that the destroy reaches the gateway; every session was minted, for one
  applet (`Own`); a load is awaited by an acquire (`Awaited`). `Held` alone is not
  inductive: a destroy of an instance whose session the backend has forgotten, or
  that another applet shares, would leave it behind.

`IdentityRuntimeProofs`: `IdentityTypeCorrect`, `IdentityLateProfileDropped`,
`IdentityFencesStayStale`. The inductive invariant `IInv` adds to the types that
a fence without an actor is the null fence and that no fence, in an operation or in
the pending completion, is of a session still to come (`GoodFences`): an answer
accepted against a live fence then carries the epoch of the session it lands in. An
operation that will commit a session or paint a phase knows whose it is (`GoodTasks`).
`IdentityFencesStayStale` follows because every commit and every reset counts the
epoch up: a step that keeps the epoch keeps the actor, and one that changes it leaves
every fence held so far in the past.

`BootPipelineProofs`: `BootTypeCorrect`, `BootSingleFlight`,
`BootStaleResultDiscarded`, and `BootIdleReady`, the last without faults. Four
layers. `TInv`: types, and that an installer stands inside its list. `FlightInv`:
the installer the module variable names is the only idle one. `FenceInv`: the
sequence number a bootstrap in flight carries is at most the registry's, and if
equal the bootstrap began after the last teardown. `ReadyInv`: what an unfenced
idle installer has passed is bootstrapped for its actor, so that its end may
report the actor ready. The end of a session tears down and counts the generation up
(`EndOfSession`); a sign-in over a signed-out session leaves the registry and the
generation alone, and `SignedOutShape` says what it finds there.

`PageHostProofs`: `HiddenIsBounded`, `EvictionReleases`, for every set of pages, every
policy of each and every cap. The bound holds whenever a registered page is active;
without one nothing is evicted. First what the lists are: `FilterMembers`,
`ReverseMembers` and their like say which pages a filtered, reversed or appended list
holds. `CapHolds`: the cap keeps a prefix of the hidden pages, and a prefix of n has
at most n members (`FirstAreFew`). `HostInv` adds to the types that a runtime that is not
installed has granted no lease, without which a release before the install would not
be enough. Each action that mounts or unmounts does so by `CommitMounted` or `Show`, so two lemmas
(`CommitKeeps`, `ShowKeeps`) cover all ways to mount and to evict.

`MobileLifecycleProofs`: `MobileTypeCorrect`, `MobileReplacedIsTornDown`,
`MobileLiveNeedsDependencies`, `MobileScopeMutationFenced`,
`MobileFailedCleanupOutsideShell`, `MobileStaleUpdateRejected`, for every graph of
runtimes and every pattern of failures. `TypeInv` says where each loop may stand;
`GraphInv` says for each loop what the runtimes before and after its place can be
(nothing above a bootstrap's place has been called yet, what a teardown has passed
is down or failed, what a resume has passed is ready or listed as failed) and that
a live runtime has its dependencies ready; `FenceInv` says that contexts are never of a
later generation than the kernel and that, from the teardown of an identity
transition on, the fence is raised and every context is of an earlier generation.
`LaunchInv`: an identity transition is outside the shell while it runs, and a
resolution that may answer with the shell has an active graph under it.
`ContextInv`: a runtime that waits for its bootstrap has no context of this graph, one
that waits for its turn to resume none of this generation; hence a context that is not
current never becomes current again (`StaleForever`). `UpdateInv` adds that open
updates have revisions of their own and that the one a runtime waits for is the last
of its context. `ContextInv` and `UpdateInv` were checked by TLC with two updates
before they were proved.

Only model-checked: liveness (`EventuallySettled`, `Drained`, `InBetweenEnds`,
`PipelineSettles`, `ActiveIsMounted`, `OperationEnds`, and `AckResent`, which is
violated). It rests on fairness, which is out of the prover's reach. The proof modules
use no induction principle of the library, whose operator parameter the provers cannot
instantiate: `SetInduction` (a set of numbers that holds 0 and every successor is all
of them) takes its place, and the recursion in `Filter` and `Swept` is a function.

## 6. Where the code and the repository's words disagree

### Finding: a receipt that overtakes its acknowledgement blocks the lane

`device_inbox_receipt` (property `AckResent`). The device consumes item 1, its
acknowledgement times out, and the drain ends with an error. The same cycle still
dispatches the delivery receipt (`lifecycle.rs:482-486`), and the Station marks
the row *consumed*. From then on `Claim` finds no claimable head: it selects
pending, due and lapsed *claimed* rows. The device's `ITEM_NOT_HEAD` recovery
claims from 0 and gets an empty batch, and nothing else ever acknowledges. The
lane is blocked, and with it every later item of this device; after
`MaxUnackedItems` also new deliveries. The comment at `drain.rs:112` and
`data-model.md:858` both say that the acknowledgement is sent again.

### Expectations TLC refutes

The MC modules of the client kernels also state what comments, documents and tests
say and the code does not do. No run lists them; to see a counterexample, name the
property in place of the ones in the cfg (`INVARIANT`, or `PROPERTY` for those marked P; without the
`SYMMETRY` line for P), with the change of constants given.

| Property (cfg) | Said | Done |
|---|---|---|
| `VisibleStaysInteractive` P (`AppletRuntime`) | `resource-scheduler.ts:147` "visible stays interactive" | `dispatchAll` awaits each destroy; an applet shown meanwhile is destroyed on screen |
| `ReopenIsColdStart` P (`AppletRuntime`) | `lifecycle.ts:20`: opening a destroyed applet again is a cold start | the lease outlives the reclaimed instance, and `acquireAppletPage` returns early: nothing loads |
| `VisibleIsForeground` (`AppletRuntime`) | `appletsRuntime.ts:279` "Leaving an applet backgrounds it" | a load that ends after the user left makes the instance visible off screen, where no sweep takes it |
| `NoDoubleUnload` (`AppletRuntime`) | `appletsRuntime.ts:259` "no double-unload" | the session is forgotten only after the answer; a second release destroys it again |
| `VisibleSessionIsLive` (`AppletRuntime`) | `applet-lifecycle-architecture.md:101`: a visible applet's session is valid | a load during an unload adopts the session being destroyed |
| `ProfileOfCurrentActor` (`Identity`) | `session.ts:75` "Update the current actor profile projection" | `sync_user_profile` answers for the natively bound actor, which changes before the session mirror |
| `NeverCompletesOldActor` P (`Identity`) | `identityRuntime.ts:561` "never complete or paint the old actor" | the user captured before `stationBindingComplete` is accepted without a fence |
| `NeverPaintsStaleAvatar` P (`Identity`, `Actors = {a}`, `MaxRevokes = 0`, `MaxEvents = 3`, `Faults = FALSE`) | `identityRuntime.ts:551` "without dispatching stale state" | a local decode dispatches the avatar (576-583) before it reads the fence (587) |
| `ResumingIsValidating` (`Identity`) | `ResumingView.tsx:21` "shown during warm-resume session validation" | a binding that fails after the unlock leaves `resolvingSession` with nothing in flight |
| `OnlyLocalChangesSkipped` P (`Identity`) | `identity_event.ts:83`: the mark is for this window's own broadcast | the first broadcast to arrive consumes the mark, whoever caused it |
| `RemoteLoginNeverHydrates` P (`Identity`) | `identity_event.ts:116` "must not hydrate this renderer" | a window without a user restores the account that signed in elsewhere |
| `CriticalStaysTornDown` (`Boot`, `Critical <- MCTwoCritical`) | `runtime.ts:31` "`teardown` runs on logout / actor switch" | the critical installer has no fence and goes on for the old actor |
| `CriticalReadyIsBootstrapped` (`Boot`) | `runtime-projections.md:189` "MUST finish install/bootstrap before Agent turn commands are exposed" | a new session of the same actor joins an installer that began before the teardown |
| `NoDuplicateBootstrap` (`Boot`, `Critical <- MCTwoCritical`) | `runtime-projections.md:177` "guards against duplicate concurrent bootstraps" | only a finished bootstrap short-circuits |
| `IdleIsActorScoped` (`Boot`) | `runtime-projections.md:245` "Idle session bootstraps remain actor-scoped" | a chained call runs for the actor captured when it was queued |
| `LastSessionStaysReady` P (`Boot`, `MaxEpochs = 5`, `Idle <- MCOneIdle`, `Deferred <- MCNoDeferred`) | `boot.ts:171` "bootstrap them for the active actor" | after the sessions A, A, B, A the chained call for B runs last: the idle runtimes stay bootstrapped for B |
| `ForeverStaysMounted` P (`PageHost`, `HiddenCap = 5`) | `page.ts:24` "Stay mounted ... for the process lifetime" | showing a page with `lru: 1` unmounts every other visited page |
| `HiddenAlwaysBounded` (`PageHost`) | `PageHost.tsx:234` "max 5 hidden pages total" | the effect returns before the cap on a route without a registered page (line 239): the page that was left and the prewarmed ones come on top |
| `OldestEvictedFirst` P (`PageHost`, `Lru = {}`) | `PageHost.tsx:235` "evict the oldest" | the list is sorted oldest first and its tail is evicted |
| `ActiveHoldsLease` (`PageHost`) | `runtime-projections.md:251` "active registered page needs runtime resources" | a release requested by a close runs a frame later, also when the page is open again |
| `SuspendedIsQuiet` (`Mobile`) | `types.ts:18` "All runtimes suspended" | a resume that fails for one runtime goes back to SUSPENDED with the others ready |
| `PendingHasDeadline` (`Mobile`, `MaxUpdateGen = 2`) | `runtimeReadiness.test.ts:188` "times out readiness" | the next resume passes over a ready runtime, whose update has become stale: pending for good |
| `ShellNeedsSession` (`Mobile`) | `acceptance-matrix.md:31` "login gate appears" | a logout in the launch state background ends with an active graph shown as the shell |
| `RestartNeverLogsOut` P (`Mobile`) | `product-state-model.md:31`: a blocking failure is shown in `runtime-critical` | the walk over launch states leaves the shell for logout and is refused there |

## 7. Not modelled, and the plan

Left out of the models: signatures, encodings, endpoint resolution and route
authentication; revocation of a device (`requireActiveDeviceForMutation`); the
byte quota apart from the item quota; ephemeral frames; the status projection
`ReadOutboxStatuses`; database isolation below one transaction. Of the clients:
the known-account list, readiness substates other than the avatar, and decodes that
end after their budget; the access gate chain before a login; the applet catalogue and permissions; rendering; the bodies of the
runtimes; `waitForDependencies` and the topological sort of the mobile kernel.

Most of the repository is user interface, acceptance harnesses, generated wire code
and bundled tools, which keep no state a model would say something about.

Order of the further work:

1. Delivery receipts: the authority's commitment ledger and the delivery
   aggregate, as a module that composes with `FederationChannel`.
2. The messaging outbox: `outbox/dispatch.rs`, `send.rs`, reconciliation of
   submitted commands, against the conversation authority's idempotency.
3. Conversation authority and followers over `FederationChannel`, with resync.
4. The engine lifecycle fence; MLS membership transitions.
5. Social friend requests between two Stations.
6. Leases in the agent bridge, object storage and the mobile command ledger.

Theorems planned: the expectations of section 6 that become true under a named
condition (for example: without a second broadcast in flight the mark is consumed by
the window's own), as theorems with that condition.
