# The chat4000 OpenClaw plugin in TLA+

The plugin (`src/src`, TypeScript on Node) runs inside an OpenClaw gateway process and
connects an AI agent to chat rooms on a Matrix homeserver. It reaches the homeserver only
through a WebSocket gateway: every call of matrix-js-sdk, and the sliding-sync stream, is
tunnelled over one socket. This directory models the parts of it that carry state across
awaits, sockets, crashes and restarts.

Contents: [inventory](#1-inventory), [plan](#2-plan), [the modules](#3-the-modules),
[the runs](#4-the-runs), [the proofs](#5-the-proofs), [where code and comments
disagree](#6-where-the-code-and-its-comments-disagree),
[what is not modelled](#7-what-is-not-modelled).

## 1. Inventory

Paths are relative to `src/src`. "Promise" is what makes the component correct.

| component | state | operations | promise | status |
|---|---|---|---|---|
| Sync stream (`matrix/gateway-transport.ts`) | `syncQueue`, one sync waiter, `pendingAck`, `ackedPos`, `lastSyncBody`, file `sync-pos.txt` | slidingSyncRequest, flushAndAckPending, nextSyncFrame, onSyncFrame, failInFlight | a room key may be deleted upstream only once it is saved; no delta skipped; the gateway syncs with the body the SDK asked for | `GatewaySync`, `KeyCustody` |
| Connection and requests (same file) | `ws`, `connected`, `closed`, `authSettle`, `pending`, `reqCounter`, timers | connect, openSocket, onMessage, onClose, request, dispose | every call settles, by its own answer; every loss is followed by a reconnect unless the transport is over | `GatewayConnection` |
| Crypto store snapshot (`matrix/idb-persistence.ts`) | in-memory IndexedDB, `crypto-idb-snapshot.json` | dump, persistIdbToDisk, restoreIdbFromDisk | a newer snapshot loses no key but those a failed restore missed | in `GatewaySync` |
| Reply turn (`channel.ts` dispatchToAgent, `matrix/streaming.ts`, `matrix/send.ts`) | the draft (`eventId`, `pendingText`, `lastSentText`, timer, chain of sends), the tools map, status and typing labels | update, finalize, reset, ensureAnchor, dispose; onToolItem, onPartialReply, deliver | one message per answer, pushed only when final; one event per tool, settled | `ReplyTurn` |
| Self-update (`update/*.ts`, `channel.ts` startAccount) | the package on disk, the marker file, the BootGuard of each account, detached restart helpers | applyUpdate, reconcileUpdateMarker, confirmHealthy, rollback | a version that does not come up is replaced by the one before; one that did is not | `SelfUpdate` |
| Account lifecycle (`channel.ts` startAccount, `matrix/client.ts`) | abort signal, version block, registry of handles; started flag, persist timer, abort listener, events awaiting decryption | startAccount; create, start, stop, handleTimelineEvent, handleInbound, handleCommand | an aborted start ends; nothing stays open unowned; a live event is acted on once | `ClientHandle` |
| Space and rooms (`matrix/space.ts`, `channel.ts` handleSessionCommand) | `rooms.json`; rooms and their links on the homeserver | ensurePluginRooms, createSessionRoom, archiveRoom, isControlRoom | one space, one control room, linked; what a command was answered stays true | `PluginRooms` |
| Onboarding (`cli.ts`, `pairing/*.ts`, `matrix/credentials.ts`, `matrix/rooms.ts`, `migration/migrate.ts`) | credentials file, state directory, channel config; codes and bots at the registrar; invitations | setup, migrate, pair, reset | no bot is minted in vain; no state of one bot is left to another; a claimed invitation was made, to the rooms of the bot the device was paired with; a command ends | `Onboarding` |
| Push intents (`matrix/push-registry.ts`) | insertion-ordered map of 512 txnIds | markPush, getPush | a retry carries the same flag | not modelled, section 7 |
| Session binding (`session-binding.ts`) | one JSON file | get, set, clear | a binding written stays | not modelled, section 7 |
| Media, telemetry, logs, installer | files, HTTP | sequential, read-only or best-effort | | not modelled, section 7 |

How they interact:

```
 OpenClaw host ── startAccount ──> boot guard (marker file) ──> MatrixClientHandle.create
     │  ^                                                          │ restore snapshot, connect
     │  └─ "connected" on each sync: confirmHealthy                v
     │                                    SDK sliding-sync loop <─> GatewayTransport <─ws─> gateway
     │ partials, tool items, finals         │ keys into the           │ ^ pendingAck: flush the crypto
     v                                      v in-memory store         │ │ store, write sync-pos.txt,
  dispatchToAgent ── draft stream ── sends ──(req / resp)─────────────┘ │ then sync_ack
                                            60 s persist timer ──> crypto-idb-snapshot.json

  CLI processes (setup, migrate, pair, reset) ── credentials, config ──> startAccount
     │  ^ code, status, redeem                 <── rooms.json ────────── ensurePluginRooms
     └──┴── registrar                          ── short-lived GatewayTransport: invitations
```

What is hard: the socket may be lost between any two frames, and the transport's fields outlive it;
acks, the cursor file and the crypto snapshot must be ordered across a crash; two snapshots may be
under way at once; answers come in any order, late, or never; a turn's timer, tool items and finals
interleave at every await, each send may fail or succeed with its answer lost; the update replaces
the code of the very process that runs it, and only a file survives; the commands of the CLI are
processes that share the account's files with the gateway process and with each other, unlocked.
`PROJECT.json` lists each hazard at its line with the properties that would catch it.

## 2. Plan

The order is by what a user loses when it goes wrong: keys, calls, answers, the installation,
then the rooms.

1. `KeyCustody`, `GatewaySync`: the sync stream and its abstract promise. Proofs in
   `GatewaySyncProofs` (keys, refinement) and `GatewayStreamProofs` (order, subscription).
2. `ReplyTurn`: one agent turn. Proofs in `ReplyTurnProofs`.
3. `GatewayConnection`: connection and requests. Proofs in `GatewayConnectionProofs`.
4. `SelfUpdate`: update, boot guard, rollback. Proofs in `SelfUpdateProofs`.
5. `PluginRooms`: space, control room, sessions. Proofs in `PluginRoomsProofs`.
6. `ClientHandle`: the life of an account and the way of an event. Proofs in `ClientHandleProofs`.
7. `Onboarding`: the CLI's processes and the account's files. Proofs in `OnboardingProofs`.

All are done: every safety property and every action property of a passing run is checked by TLC
and proved for all values of the constants. What stays with TLC is liveness.
`MCGatewaySync` and `MCPluginRooms` instantiate their modules for TLC with a symmetry.

Not taken up: a module of the push registry and one of the session bindings (section 7), and an
abstract specification of calls. The last would say what `AnswersMatch`, `WaitingIsPending` and
`CallsSettle` say of `GatewayConnection` directly.

How the modules compose. They meet at interfaces that one of them proves or checks and the other
assumes: `GatewaySync` implements `KeyCustody`; `ReplyTurn` and `ClientHandle` assume that a call
settles (`CallsSettle` of `GatewayConnection`), and take over its exception, the connection
that hangs; `Onboarding` takes from `ClientHandle` and `PluginRooms` that the gateway refuses a
foreign crypto store and writes `rooms.json` after both rooms are there.

Runs are kept to one question each, and properties to those a fault could break.

## 3. The modules

Every module names the assumptions on its constants, has one action per handler or per stretch
of a handler between two awaits (Node runs such a stretch without interruption), and marks as
*external* what is not in `src/src`. Definitions that begin with "Mutant of" are faulty
variants used to see that a property notices the fault; no specification uses them.

### KeyCustody

The promise with no mechanism: `saved` and `writtenOff` only grow, and `released` moves only
over keys that are in one of them.

### GatewaySync

A stream of `MaxPos` frames; those at `KeyPos` carry a room key. A frame is its position and
whether it (still) carries keys; the subscription is one of `Bodies`.

| state | code |
|---|---|
| `link`, `connected`, `inbox`, `outbox` | `ws` and its state, `connected`, frames under way |
| `queue`, `pendingAck`, `ackedPos`, `lastBody` | `syncQueue`, `pendingAck`, `ackedPos`, `lastSyncBody` with `syncStarted` |
| `flushing` | the local of `flushAndAckPending` during its await |
| `sdk`, `held` | the SDK's loop: calling, waiting in `nextSyncFrame`, in the flush, processing `held` |
| `ram`, `dumps`, `disk`, `posFile` | crypto store, `persistIdbToDisk` calls under way, the two files |
| `cursor`, `gwBody`, `released` | gateway and homeserver |
| `base`, `applied`, `dropped`, `forfeited`, `missed` | history, read by no guard |

`slidingSyncRequest` is three actions, by what `flushAndAckPending` finds: `RequestWithoutAck`,
`RequestWithAck` (no keys, no await), and `RequestWithFlush` followed by `FlushReturns` (an
await of the dump in between, during which the socket may go and come back, the process may
die and the timer may start a dump). `SocketCloses` is `onClose` with `failInFlight`;
`CrashAndRestart` is the end of the process and `MatrixClientHandle.create`: the crypto store is
restored from the snapshot (`RestoreIdbFromDisk`) or, when the snapshot cannot be read, parsed or
written back, "starts fresh" with part of it or nothing (`idb-persistence.ts:203-206`,
`client.ts:130-132`), and the cursor file is read, or the stream started over if it cannot be
(`LoadPersistedPos`). The keys a failed restore did not load are `missed`; the next dump takes them
off the disk.

Taken for granted, and why:
- The gateway streams the frames after the resume point without waiting for acks (the queue
  and its cap exist for that), takes sync_start's pos as an acknowledgement, and never
  re-sends a deleted key. These are how `gateway-transport.ts` describes and uses it.
- Dumps finish in the order they start: both issue the same transactions on the same in-memory
  IndexedDB, which serves them in turn. This is an assumption about that library, not something
  the runs show. They hold what the store held when they began: the pessimistic choice. What
  follows a dump, writing the temporary file and renaming it, is synchronous and part of the same step.
- The timer has one dump under way at a time (60 s apart).
- The file writes are atomic: the snapshot by its rename; a torn cursor file would only replay.
- `WaitEnds` is the waiter's timeout or its abort, both of which leave the transport as it was.
- `new WebSocket` does not throw (`gateway-transport.ts:258-265`): it does for a malformed URL only,
  which the first `connect()` rejects.
- `lastPos` fills empty deltas only, and is left out. The end of the transport (`dispose`,
  `auth_error`) is in `GatewayConnection`.

### GatewayConnection

`link` is the socket, `inbox` and `outbox` the frames on it. `pending` maps ids to callers, each
with its timer: `RequestTimesOut` is that timer. `authSettle` says which promise the next auth
answer settles: that of `connect()` or that of a reconnect nobody awaits. `hasWs` is `this.ws`,
which a lost socket leaves set. `served` is what the gateway works on; it answers in any order, or
never. `Dispose` has an owner only when `connect()` resolved. The backoff delay is left out: an
armed timer fires at any time.

### ReplyTurn

One turn, from the host's first callback to the end of `dispatchToAgent`. A text is a number: a
partial, a final, the placeholder of an anchor. `chain` is the promise chain `inFlight` of the
draft, `flight` the send it awaits. `call` says at which await each `onItemEvent` call is.
A tool emits the items of `ItemKinds`: a start and an end of its own and, if it has a sub-item, of
that (a command). They come in any order, each end after its start, and `MaxCalls` of them are
worked on at once: nothing under `src/` makes the host await its item callback. The record `rec` is
the entry of the `tools` map. `mishaps` counts, per tool, the items that began while another item of
the same tool was being worked on, and the sends of its items that failed or lost their answer;
no guard reads it. Every send ends in one of `Outcomes`: ok, failed, or done with its answer lost
(at most `MaxFaults` times). `Quiet` gives promise continuations their precedence over the next
timer or socket event. Finals come after the run, one at a time, as the host's dispatcher
delivers them; the dispatcher may also reject (`DispatchRejects`), which ends `dispatchToAgent`
without disposing of the draft. An item may still be under way when the turn is over. The status
and typing labels are left out (section 7).

### SelfUpdate

`disk` is the installed package, `code` what the process loaded: they differ between an install and
the restart, and everything the code asks about its own version it reads from disk. `ProcessDies` is
any end of the process; an install it had started may complete without it. `StartAccount` is
`reconcileUpdateMarker` and what `startAccount` makes of it, `Connected` every "connected" sync.
`applyUpdate` is `PluginUpdate` (or the rollback), then `InstallFails` or `InstallSucceeds`;
`HelperRestarts` is the detached shell. Versions are `1..MaxVersion`, those in `Good` come up. An
update that is `Updatable` or forced installs whatever version it names, an older one too. Nobody
waits for a `plugin.update` (`channel.ts:248-249`), so each of `Users` may have one installing
beside the others' and beside a rollback. The CLI's update calls the same function from another
process and is not an actor of its own; a channel that the host reloads without a restart, and a
version that hangs without syncing or crashing, are not modelled (the code does not notice the
latter).

### PluginRooms

`ensurePluginRooms` as its awaited calls, with `pc` the place in it: each of createRoom and the
two state events of linkChild succeeds, fails, or succeeds with its answer lost, and the process
may end between any two. `stored` is `rooms.json`, `cur` the function's locals, `mem` the
handle's copy. `view` is the client's room list, which the initial sync fills and which may miss
rooms: it is a window of 100 rooms, and a resumed stream brings only what changed. Handlers of
session.new and session.archive run beside it and each other, one action per call.
`archiveRoom` empties the child event of the current space only, for any
room it is given: the code checks neither that it is a session nor that the space lists it, so
`SessionArchive` takes every room there is, the control room included. `archived` holds the rooms
that an archive did remove. Names, titles, encryption and
"via" are left out; so is session.rename.

### ClientHandle

A life is one call of `startAccount`; `phase` says which await it is at. `BeginStop` is `stop()`
up to its await, `StopReturns` the rest. Two listeners wait for the abort: the handle's, added
after the initial sync (`heeds`), and `startAccount`'s, added later and so called second. The host
starts the next life when the last call settled, in the same process or after `ProcessExits`.
An event is on a client's timeline once (`seen`), is compared with the time the handle was
built (`bootTs`, read from a clock that is `skew` ahead of the homeserver's), waits for its
first decryption attempt (`pend`), and reaches `handleInbound` or `handleCommand`. An event of
`late` fails that attempt.

### Onboarding

Every command is a process; `pc` is where it is, `as` the credentials it read at its start. An
identity is a bot login: those the registrar mints, numbered, and the one an operator passes.
`creds`, `store`, `roomsOf` say whose the credentials, the crypto store and `rooms.json` are.
`plugin` is the identity whose plugin_id the credentials file holds, `asId` the one a command read
with them, `keyed` the bot whose plugin_id `pair` registered its code with: that is the bot the
user's device is paired with, and after a direct setup over a minted identity it need not be the bot
that invites. A redeem that answers mints and saves in one step, since nothing runs in between that
sees the difference; one whose answer is lost mints and saves nothing. The credentials file is
truncated and written in place (`credentials.ts:50`): `SaveTorn` is a command killed there, and the
torn file reads as no credentials (39-41). A setup that finds an identity reads and re-saves it in
one synchronous stretch, which changes nothing and is one step; that another process reads the file
in the middle of a write, or resets it in the middle of that stretch, is not modelled. The gateway
process is reduced to what it does to the files. An invitation is refused of a bot that is not in
the room, and for a user who was invited before and has joined; it may fail, and be done with its
answer lost. The wall clock of `pair` passes its deadline after the code expired at the registrar,
which counts from earlier.

## 4. The runs

`CHECK_DEADLOCK FALSE` everywhere: a stream that is consumed, a turn that ended, a transport
that is over and an idle gateway with no update left really stop.

| run | question | bounds |
|---|---|---|
| `SyncSafety` | are keys, deltas and subscription safe under a loss, a crash at any point, failing snapshots, restores and cursor accesses, an overlapping timer dump, and a queue that overflows? Does the whole implement `KeyCustody`? | 3 frames, keys at 1 and 3, 2 bodies (interchangeable), queue of 2, 1 loss, 1 crash |
| `SyncLiveness` | is the stream consumed and released to its end? | 2 frames, 2 losses, 1 crash, 1 re-auth, failing snapshots |
| `SyncStaleQueue` | violation: are keys safe without forfeits when only the socket fails? | 3 frames, 1 loss |
| `TurnTools` | one event per tool, settled at the end, when items overlap in any order and a send may fail? | 1 tool with a sub-item, 2 callbacks at once, 1 partial, 1 final, 1 fault |
| `TurnFaults` | answers and pushes with overlapping items and one faulty send anywhere; does the turn drain? | 1 tool, 2 callbacks at once, 2 partials, 2 finals, 1 fault |
| `ConnCalls` | calls, answers, timeouts and reconnects | 3 calls, 2 losses, 1 re-auth, token rejection, dispose |
| `UpdateGuard` | good and bad versions, crashes, forced and overlapping updates | 2 accounts, 3 versions, the middle one bad, 3 updates, 2 at a time, 2 crashes, 2 helpers |
| `UpdateStaleGuard` | violation: who confirms an update? | 1 account, 2 updates |
| `RoomsFaults` | what do crashes, failed calls, lost rooms and an incomplete room list do to the room tree, with commands beside them that may archive any room? | 5 rooms, 2 handlers (interchangeable), 2 faults of any kind, 1 plain restart |
| `HandleLife` | is an event acted on once and answered, does an aborted start end, what stays open? | 2 lives, 1 event, 1 process exit, clock ahead by 0 or 1 |
| `HandleStop` | violation: is everything saved when `startAccount` has ended? | 2 lives |
| `OnboardFiles` | what may happen to bots, files and invitations when commands overlap each other and the gateway, and one is killed, also while it writes the credentials? | 3 commands, 2 at a time, 1 fault |

Why the bounds are enough. *Sync*: the shortest way to lose a key needs a frame with keys, one
behind it in the queue, and one fault; three frames with keys first and last, and a queue of two,
give every order of served, queued and dropped frames, and a crash may follow the loss. The proofs
remove the bounds for all but liveness, here and in the other modules. The two symmetries are sound:
no definition names a body or a handler, and no property checked with them is a liveness property.
*Turn*: one tool, because tools share nothing but the draft's anchor and each is counted for itself;
its four items give every order and overlap of the tool and a sub-item; two finals where the answers
are the question, because the second block meets what the first left; two item calls at once,
because the draft and the map cannot tell three from two. *Connection*: three calls so that one can
be late, one lost and one issued after the reconnect; two losses so that the retried socket is lost
too. *Update*: two attempts as in the code, versions on both sides of the bad one, as many crashes
as the attempts, two updates that overlap and one after them. *Rooms*: a fault each for the space
and the control room, or one for a room and one for its repair; two handlers to meet on one session;
five rooms are two pairs and a session. *Handle*: the second life meets all the first can leave;
handlers of different events share nothing, so one event will do. *Onboarding*: two commands race
for the files, and the third comes after the race; the gateway may stop and start any number of
times.

Counters that the code does not have (`drops`, `crashes`, `reauths`, `faults`, `updates`,
`Window`, `MaxHelpers`) only bound the number of external events.

What the runs show, beyond what the names say:
- `Custody` names the four ways a key is given up (`forfeited`): the queue was full; the
  snapshot that had to save it failed (the failure is swallowed at `idb-persistence.ts:228` and the
  ack goes out); the un-acked frame was forgotten, because a socket loss cleared it while later
  frames were queued, or because a later frame took its place in `pendingAck`
  (`gateway-transport.ts:347-359`, `RequestWithoutAck` and `FlushReturns`); a failed restore left it
  out of the store of a new process, whose next snapshot replaces the one on disk
  (`idb-persistence.ts:203-206`). There is no fifth.
- `ResumePointSafe` is about the same set: after a failed restore the cursor file does cover keys
  that the next dump erases, and these were forfeited at the restore.
- `SnapshotNeverRegresses` covers the flush and the timer dumping beside each other, failures and a
  restart, and allows a snapshot to lose only what this process's restore missed. That dumps end in
  the order they began is an assumption (section 3).
- `FullyReleased` has an exception, `sdk = "stuck"`: a first socket lost before its auth answer.
- `OnlyAnswersLeft` says, of turns without tools, that each answer is one message and nothing
  else is left in the room. With a tool it is false (section 6).
- `OneEventButForMishaps`: two items of a call that overlap can each post an event
  (`channel.ts:708`), and so can an item after one whose answer was lost. The property bounds a
  tool's events by one and these mishaps of its own; items of other tools, and items that follow
  one another, cost nothing. `SettledButForMishaps` is about tools without a mishap and with no item
  under way: a sub-item reported "running" after the tool ended, in whatever order, leaves the
  tool settled. With overlapping items or a failed edit the code does leave "running" shown.
- `BadVersionLeft` has an exception, `gaveUp`: the marker is cleared before the rollback
  installs anything, so a crash or failed install then leaves the bad version unguarded. It
  concerns an update from a good version; between two bad ones the guard goes back and forth.
- `OneOfEachButForMishaps` bounds the spaces and control rooms by the faults: a restart alone,
  outside `ensurePluginRooms`, never adds one. `SavedPairLinked` has two exceptions:
  `orphaned`, a control room kept when its space was replaced, which is not linked to the new one
  (`space.ts:119`); and a control room that a device archived as if it were a session
  (`channel.ts:449-456`), which every later process goes on reusing unlinked.
- `AnswersKept`: a session answered ok is listed until it is archived, and a room that an archive
  removed from its space is listed nowhere again. An archive of a room its space does not list (a
  session of an older space, one still being linked) is answered ok too and removes nothing.
- `OpenTransportsExplained` has two exceptions besides a start under way: a `stop()` that is
  saving, and a `create()` that threw after it connected (`client.ts:178`), whose transport stays
  connected until the process ends.
- `AtMostOnce` needs a clock that is not behind the homeserver's, and lives whose clients do not
  overlap (`overlap`); with the abort of `HandleStop` they can. `LiveEventAnswered` excepts an event
  whose first decryption attempt fails: it is dropped for good (`client.ts:321`).
- `AbortEnds` and `CommandsEnd` except a connection that hangs (section 6), and `AbortEnds` an abort
  during the initial sync of a revoked token, which never comes.
- `ForeignStateExplained`: a gateway that cannot start on the crypto store of another bot comes of a
  file changed under a live gateway, a reset cut short, a torn credentials file, or a setup over a
  bot that was not reset.
- `SaidIsInvited` holds although `pair` reads credentials at its start and `rooms.json` at its end:
  a bot is refused by rooms it is not in. The bot is also the one whose plugin_id the code was
  registered with, with one exception: a bot passed by hand over one that was not reset keeps the
  other's plugin_id (`cli.ts:382`), so the device is paired with the old bot and invited by the new
  one. It says nothing of a failed invitation, which pairing again does not always repair (section
  6).

Fairness. `GatewaySync`: socket events, promise continuations, reconnect timers and completed dumps
happen (Node's event loop), the SDK calls again after each response (its loop), the gateway reads
what it is sent and pushes what it has. Losses, crashes, reauths, wait timeouts and the 60 s timer
are owed nothing. `GatewayConnection`: the same, and request timers fire; the gateway owes an answer
to `auth` and none to a request. `ReplyTurn`: continuations run and each send settles, because the
transport rejects it after its timeout or at a loss (`CallsSettle`); the host owes nothing.
`SelfUpdate`: a supervisor restarts the gateway, helpers run, accounts are started, a bad version
fails, and an install ends (it has a timeout). `ClientHandle`: the awaits of `startAccount` and
`stop()` end, in one way or the other, the sync delivers while the token lives, and decryption
attempts end; the host, users and the process owe nothing. `Onboarding`: a command's steps are taken
(the registrar client aborts a request after 10 s), codes expire and clocks go on, while no answer
of a poll need ever arrive and the user, the operator and the gateway owe nothing. A gateway run in
the foreground without a supervisor has only the relaunch of the helper, whose `pkill -f` pattern
(`apply.ts:109`) also matches its own shell.

## 5. The proofs

Every theorem holds for all values of the constants that satisfy the named assumption of its
module, those that bound external events included. The assumptions say that the bounds are
naturals, that choices range over the values the code knows, and that markers such as `NoBody`
are none of the real values. Three ask for more: a version exists (`UpdateAssumption`), the
clock has at least one tick (`HandleAssumption`: without one no life could begin), and the tool
calls of a turn are finitely many (`TurnAssumption`, for the count of calls under way).

Each proof follows the same argument. None of the properties is inductive alone, so an invariant
`IInv` adds what they depend on; lemmas show that `Init` establishes `IInv` and that every
action, and stuttering, keeps it (`[Next]_vars`); the theorems follow from `Spec => []IInv`. TLC
checked each `IInv` on small instances before it was proved.

| module | theorem | statement |
|---|---|---|
| `GatewaySyncProofs` | `TypeCorrect` | `Spec => []TypeOK` |
| | `KeysInCustody` | `Spec => []Custody` |
| | `ResumePointHeld` | `Spec => []ResumePointSafe` |
| | `SnapshotMonotone` | `Spec => SnapshotNeverRegresses` |
| | `ImplementsKeyCustody` | `Spec => CustodySpec` |
| `GatewayStreamProofs` | `NothingSkipped` | `Spec => []NoSkippedDelta` |
| | `SubscriptionKept` | `Spec => []SubscriptionInSync` |
| `GatewayConnectionProofs` | `TypeCorrect` | `Spec => []TypeOK` |
| | `OwnAnswers` | `Spec => []AnswersMatch` |
| | `NoCallForgotten` | `Spec => []WaitingIsPending` |
| | `OverIsFinal` | `Spec => NoReconnectWhenOver` |
| `ReplyTurnProofs` | `TypeCorrect` | `Spec => []TypeOK` |
| | `OnlyFinalsPush` | `Spec => []PushOnlyFinals` |
| | `AnswersStay` | `Spec => []AnswersShown` |
| | `OneEventPerTool` | `Spec => []OneEventButForMishaps` |
| | `ToolsShownDone` | `Spec => []SettledButForMishaps` |
| | `NothingElseLeft` | `Spec => []OnlyAnswersLeft` |
| `SelfUpdateProofs` | `TypeCorrect` | `Spec => []TypeOK` |
| | `HealthyStays` | `Spec => HealthyNeverRolledBack` |
| `PluginRoomsProofs` | `TypeCorrect` | `Spec => []TypeOK` |
| | `PairLinked` | `Spec => []SavedPairLinked` |
| | `AnswersHold` | `Spec => []AnswersKept` |
| | `RoomsPaidFor` | `Spec => []OneOfEachButForMishaps` |
| `ClientHandleProofs` | `TypeCorrect` | `Spec => []TypeOK` |
| | `NoTransportLeft` | `Spec => []OpenTransportsExplained` |
| | `OutboundHasClient` | `Spec => []RegisteredIsUp` |
| | `NoEventTwice` | `Spec => []AtMostOnce` |
| `OnboardingProofs` | `TypeCorrect` | `Spec => []TypeOK` |
| | `NoBotInVain` | `Spec => []BotsAccountedFor` |
| | `InvitationsClaimedWereMade` | `Spec => []SaidIsInvited` |
| | `NoForeignState` | `Spec => []ForeignStateExplained` |

### Keys (`GatewaySyncProofs`)

That an ack is harmless depends on what every frame before it carried and on where those keys
are now. `IInv` adds
- `StreamInv`: the frames in `queue` and then `inbox` are gapless with respect to keys. A frame at
  position p comes after every key below p, which is safe, pending, being flushed or carried by
  an earlier frame of the same sequence; the same holds of the gateway's cursor.
- `FrameInv`: a frame without keys at a key's position was stripped because the key was
  released, so the key is safe; what is queued or pending is a sync frame.
- `AckInv`: every key before the pending and the flushing frame is safe, and no sync_start or
  sync_ack under way covers an unsafe key.
- `SdkInv`: while the SDK waits the queue is empty; a frame is held by the flush only during it;
  the keys of the pending frame are in the store or still with the SDK.
- `DumpInv`: but for the keys a failed restore missed, `disk`, the dumps under way and the store
  are nested, in the order the dumps began, and the flush's dump has the keys of its frame. This is
  why a dump cannot undo the one before it. `MissedInv`: what was missed was forfeited.

`SafeGrows` gives `SnapshotMonotone`. For `ImplementsKeyCustody`, `saved` is `disk` and
`writtenOff` is `forfeited`; only `GatewayReceives` moves `released`, and `AckInv` makes that a
`Release`; every other step is an `Account`, which un-saves only what was written off before, or a
stutter.

### Order and subscription (`GatewayStreamProofs`)

This module extends the one before: what a frame is and when the SDK waits come from its `IInv`.
- `DeliveryInv`: positions the SDK is done with, or need not see, are `Settled`; with the one it
  holds they are `Reached`. The frames of `queue` and then `inbox` come in order after what is
  reached, up to the gateway's cursor, and every position the stream may be resumed at
  (`ackedPos`, the pending and the flushing frame, each sync_start under way) is reached. So a
  reconnect repeats frames and never skips one.
- `WireInv`: `Leaves(outbox, gwBody, lastBody)` while connected, where `Leaves` relates a
  sequence of frames to the body it leaves the gateway with. Nothing is claimed while
  the plugin is not connected, when sync_update frames do get lost: the sync_start of the next
  auth_ok overwrites whatever was left (`LeavesOverwritten`). The lemma `LeavesIsBodyAfter` ties
  the relation to the `BodyAfter` of the model.

### Connection (`GatewayConnectionProofs`)

- `FramesInv`: every request and answer under way, on the wire or with the gateway, has an id that
  was given out, and the caller `pending` has for it if it is still there (`Known`). An answer
  that comes late finds no entry, and ids are not reused, which gives `AnswersMatch`.
- `CallsInv`: a caller has one pending id at most.
- `LinkInv`: `connected` needs a socket, calls are pending only while connected, a reconnect timer
  is armed only without a socket, and an end by either side sets `closed`, which the timer and
  `onClose` look at.

### Turn (`ReplyTurnProofs`)

- `ChainInv`: a flush by a final is the last sendOrEdit of the chain or the one running; no
  other is final; a final being sent has the text of `pendingText`. It gives `PushOnlyFinals`.
- `OrderInv`, `ShownInv`: texts are written in the order they were said, and what was answered as
  sent is in the room unless a later text is on the way over it.
- `KeptInv`: the message of an answered final is neither the draft's current one nor the target of
  the send under way. It implies `AnswersShown`.
- `ToolInv`, per tool. `PaidFor`: its events, and its calls that may yet post one, are together at
  most one more than its mishaps. `OwnFor`: its record and the calls that edit name events of its own.
  `CleanFor`: without a mishap its items are worked on one at a time, its one event is the record's,
  and shows the record's status unless an edit is on its way; after its own end that status is not
  "running". `EmittedInv`: once the run is over a tool has had all its items or none.
- `Plain`, `PlainInv`, `FinalsInv`: a turn without tools has a message per answer and the one
  being edited, and its draft is empty once the first final was answered.

No theorem assumes anything of the host's scheduling or of the sends.

### Update (`SelfUpdateProofs`)

`GuardInv`: in a process that loaded the installed copy, every account that may sync guards the
marker if the marker is of that copy; `HealthyInv`: once a boot of the copy synced, the marker is
of another or gone. `DeadInv` covers the time without a process. An account rolls back
only on a marker of the installed copy, which a healthy one no longer has.

### Rooms (`PluginRoomsProofs`)

- `StepInv`, `CommandInv`, `ListInv`: the local variables of each call under way are rooms of the right
  kind, and only spaces list rooms.
- `SoleInv`: no two spaces list one room, so what an archive removes is gone.
- `PairInv`: the pair about to be saved is linked as far as the function has got, or its control room
  is orphaned or was archived since.
- `SessionInv`: a session room is known to its handler alone until its first link, and listed
  from then on unless archived. It makes `AnswersKept` inductive.
- `BillInv`: of each kind, the rooms beyond the one kept, plus one if the kept one is about to be
  replaced because the room list lacks it (`Hidden`), plus one if the link is bound to be refused
  (`Doomed`), are at most the mishaps. Counting what is only going to happen is what
  makes the bound inductive.

### Account (`ClientHandleProofs`)

- `OneLife`, `HandleInv`, `StopInv`, `RegistryInv`, `ClockInv`: one life is under way at a time; how
  far its handle is follows from its phase; `stop()` was called only after an abort; a life
  that settles is unregistered.
- `NoOverlapInv`, `OnceInv`: as long as no life began beside an older syncing client, one client
  syncs, every event that was touched is older than the next handle, and an event is with one
  client or was acted on once. `AtMostOnce` states the same exception (`overlap`).

### Onboarding (`OnboardingProofs`)

- `Budget`: identities minted and commands that may still mint are together at most the commands
  given, which bounds `minted` (lemma `BudgetStep`, by the cardinality of `Busy`).
- `Paired`: a command that pairs has credentials and one that mints has none; a direct room is for
  an account without rooms, and a command at its second invitation has made the first.
- `KeyInv`: the plugin_id stored with the credentials is of the same bot (`Suits`), or of another
  after a mishap and with a bot passed by hand; a command keeps what it read, so the same holds
  of the code it registers and of what it says.
- `FilesInv`: unless a named mishap happened (`mixed`), `plugin` and `store` are of the identity in
  `creds`, with which the gateway runs; the store of another is there only while a reset is about
  to remove it.

`IInvStep` has a lemma per conjunct (`PairedStep`, `SaidStep`, `KeyStep`, `FilesStep`, `BooksStep`,
and one per group of variables for the types), each with a step per action.

### Only model-checked

The liveness properties `FullyReleased`, `TurnDrains`, `CallsSettle`, `ComesBack`, `BadVersionLeft`,
`LiveEventAnswered`, `AbortEnds` and `CommandsEnd`: the prover has no rules for fairness and
ENABLED. The three violations of section 6 are counterexamples, which need no proof.

## 6. Where the code and its comments disagree

Three are the counterexamples of runs and are quoted with their lines in `PROJECT.json`.

- `SyncStaleQueue`: a lost socket clears `pendingAck` and keeps `syncQueue`
  (`gateway-transport.ts:524`); acking a kept frame releases the keys of the forgotten one.
- `UpdateStaleGuard`: the guard of a process clears the marker of the next update
  (`boot-guard.ts:109`).
- `HandleStop`: an abort makes the handle's own listener call `stop()` first, so `startAccount`'s
  call returns at once and `startAccount` ends before the final snapshot is written and the
  transport disposed of (`channel.ts:283`).

Others were met while modelling. The models contain them, and the properties name them as
exceptions or are stated so as to hold beside them; they have no run of their own.

- A reconnect before the first auth answer replaces `authSettle` (`gateway-transport.ts:257`), and
  `connect()`, which is to "resolve once the gateway accepts our `auth` frame" (176), never settles.
- A final equal to the last partial is skipped (`streaming.ts:127`) and never pushed, though
  `finalize` "marks it push-eligible" (81).
- `ensureAnchor`, "idempotent" (`streaming.ts:58-60`), posts a second message while the first send is
  in flight (63).
- Update attempts are counted per account, not per boot (`boot-guard.ts:93`, against 10-12).
- `rooms.json` is written after both rooms were created and linked (`space.ts:134`): a failed call
  in between makes the next start create another pair, and commands of both control rooms are
  obeyed, although "a restart never spawns duplicates" (10-12).
- After a failed invitation `pair` promises that "the gateway will reconcile once it's running"
  (`cli.ts:491`); the gateway invites nobody (`inviteToControlAndSpace`, `space.ts:158`, has no
  caller). Pairing again stops at the first refusal, so a user who already is in the control
  room is not invited to the space (`rooms.ts:88-90`).
- Every privileged registrar call is to come after the version check (`version-check.ts:4-5`,
  `cli.ts:333`); `migrate` redeems without it (`migrate.ts:73`).
- A direct `setup` over an existing identity keeps that one's plugin_id (`cli.ts:382`), and takes what
  is missing of user, token and device from it (`cli.ts:367-369`).

## 7. What is not modelled

- Push intents: the registry is a map written and read in one synchronous stretch each; its
  eviction needs 512 sends between a send and its retry, and its failure is a missing flag.
- Session bindings: only commands typed by an operator write the file, and the gateway reads it at
  each message. Two commands at once can undo one another, and a read can meet a half-written file.
- The status and typing labels of a turn (`channel.ts:671-684`): each is set by one assignment at the
  calls of the host and at the end of the turn. A tool start whose answer comes after the end, of a
  host that does not await its item callback, sets "working" again (723), so that a turn ends
  idle is not a property of this code; for a host that awaits it is what lines 830-831 assign.
- Two turns of one room at once: their drafts are separate, their labels are not.
- Media encryption and transfer, in and out, QR codes, argument parsing and terminal output (one
  sequential computation each); credentials from the environment or the config, which a process
  does not change; the detection and copy of v1 files, which nothing in v2 reads.
- Telemetry and logs (nothing reads them); `scripts/`, `docker/`, `install.sh` (outside the running
  plugin); the encoding of IndexedDB records and of gateway URLs (pure); cryptography, the SDK, the
  homeserver, the registrar and the gateway (external: only how this code meets them).
