---------------------------- MODULE ClientHandle ----------------------------
(***************************************************************************)
(* One account's life in the gateway process: startAccount of              *)
(* src/src/channel.ts and the MatrixClientHandle of                        *)
(* src/src/matrix/client.ts it creates, starts and stops, and the way of   *)
(* an event from the sync to handleInbound or handleCommand.               *)
(*                                                                         *)
(* A life is one call of startAccount; lives follow each other in one      *)
(* process or over a restart of it.  Several handles can be open at a      *)
(* time.  Events are encrypted; what they say is left out, and so are      *)
(* read receipts and the media of a message.  The transport below is the   *)
(* subject of GatewaySync and GatewayConnection, the rooms of PluginRooms. *)
(* The OpenClaw host, the matrix-js-sdk client and the clock are not in    *)
(* src/: they are the actions marked external.                             *)
(***************************************************************************)
EXTENDS Naturals

CONSTANTS
    MaxLives,     \* bound: calls of startAccount
    Events,       \* events other users send
    MaxTime,      \* bound: the clock, but for the time a start takes
    ClockErrors,  \* how far the plugin's clock may be ahead of the homeserver's
    MaxExits      \* bound: ends of the process

ASSUME HandleAssumption ==
    /\ MaxLives \in Nat /\ MaxTime \in Nat \ {0} /\ MaxExits \in Nat
    /\ ClockErrors \subseteq Nat

Lives == 1..MaxLives
None == 0

VARIABLES
    \* the host (external)
    life,      \* the last life started
    aborted,   \* lives whose abort signal fired
    \* startAccount of each life
    phase,     \* where it is
    blocked,   \* lives with a versionBlock
    \* the handle of each life
    open,      \* handles whose transport is connected and not disposed
    syncing,   \* handles whose client runs
    timer,     \* handles with a persist timer
    heeds,     \* handles that stop on abort by themselves
    stop,      \* where stop() is: "no", "save", "done"
    bootTs,    \* startedAtTs
    registry,  \* the handle registered for the account, or None
    \* the events
    ts,        \* homeserver time of each event sent, None before
    late,      \* events whose first decryption attempt fails
    command,   \* events that are a chat4000.command in the control room
    seen,      \* events each client has put on a timeline
    pend,      \* events each handle waits for the decryption of
    \* environment
    now,       \* the homeserver's clock
    skew,      \* how far the plugin's clock is ahead
    dead,      \* the token was revoked: auth_error
    exits,
    \* history: read by no guard
    times,     \* how often each event reached its handler
    noticed,   \* messages answered with the upgrade notice
    failed,    \* lives whose create() threw after the transport was connected
    overlap    \* a life was started while an older client was still syncing

host == <<life, aborted>>
handle == <<open, syncing, timer, heeds, stop, bootTs>>
event == <<ts, late, command, seen, pend>>
env == <<now, skew, dead, exits>>
outcome == <<times, noticed>>
history == <<failed, overlap>>
vars == <<life, aborted, phase, blocked, open, syncing, timer, heeds, stop,
          bootTs, registry, ts, late, command, seen, pend, now, skew, dead, exits,
          times, noticed, failed, overlap>>

Phases == {"none", "create", "hung", "crypto", "sync", "rooms", "wait", "stop",
           "ended", "failed", "gone"}

Init ==
    /\ life = 0 /\ aborted = {}
    /\ phase = [l \in Lives |-> "none"] /\ blocked = {}
    /\ open = {} /\ syncing = {} /\ timer = {} /\ heeds = {}
    /\ stop = [l \in Lives |-> "no"]
    /\ bootTs = [l \in Lives |-> 0]
    /\ registry = None
    /\ ts = [e \in Events |-> None] /\ late = {} /\ command = {}
    /\ seen = [l \in Lives |-> {}] /\ pend = [l \in Lives |-> {}]
    /\ now = 1 /\ skew \in ClockErrors /\ dead = FALSE /\ exits = 0
    /\ times = [e \in Events |-> 0] /\ noticed = {}
    /\ failed = {} /\ overlap = FALSE

-----------------------------------------------------------------------------
(* startAccount *)

Settled(l) == phase[l] \in {"none", "ended", "failed", "gone"}

\* The host starts the account when the last call of startAccount settled.
\* The version policy is read once; a check that fails blocks nothing.
StartAccount ==
    /\ life < MaxLives /\ \A l \in Lives : Settled(l)
    /\ life' = life + 1
    /\ phase' = [phase EXCEPT ![life'] = "create"]
    /\ blocked' \in {blocked, blocked \cup {life'}}
    /\ overlap' = (overlap \/ syncing # {})
    /\ UNCHANGED <<aborted, handle, registry, event, env, outcome, failed>>

\* create(): the snapshot is restored and the transport connects, or connect
\* rejects, which ends startAccount.  The round trips take time.
CreateConnects(l) ==
    /\ phase[l] = "create"
    /\ now' = now + 1
    /\ phase' = [phase EXCEPT ![l] = IF dead THEN "failed" ELSE "crypto"]
    /\ open' = IF dead THEN open ELSE open \cup {l}
    /\ UNCHANGED <<host, blocked, syncing, timer, heeds, stop, bootTs,
                   registry, event, skew, dead, exits, outcome, history>>

\* The first socket is lost before its auth answer: the promise connect()
\* waits for never settles (gateway-transport.ts:257), although the transport
\* reconnects.
ConnectHangs(l) ==
    /\ phase[l] = "create"
    /\ phase' = [phase EXCEPT ![l] = "hung"]
    /\ open' = open \cup {l}
    /\ UNCHANGED <<host, blocked, syncing, timer, heeds, stop, bootTs, registry,
                   event, env, outcome, history>>

\* initRustCrypto throws, for instance on a store of another device: create()
\* rejects and nobody disposes of the transport.
CryptoFails(l) ==
    /\ phase[l] = "crypto"
    /\ phase' = [phase EXCEPT ![l] = "failed"]
    /\ failed' = failed \cup {l}
    /\ UNCHANGED <<host, blocked, handle, registry, event, env, outcome, overlap>>

\* The handle is built, registered and started.
HandleStarts(l) ==
    /\ phase[l] = "crypto"
    /\ phase' = [phase EXCEPT ![l] = "sync"]
    /\ bootTs' = [bootTs EXCEPT ![l] = now + skew]
    /\ syncing' = syncing \cup {l}
    /\ registry' = l
    /\ UNCHANGED <<host, blocked, open, timer, heeds, stop, event, env, outcome,
                   history>>

\* waitForInitialSync resolves.  A listener added to a signal that has fired
\* is never called.
InitialSync(l) ==
    /\ phase[l] = "sync" /\ ~dead
    /\ phase' = [phase EXCEPT ![l] = "rooms"]
    /\ timer' = timer \cup {l}
    /\ heeds' = IF l \in aborted THEN heeds ELSE heeds \cup {l}
    /\ UNCHANGED <<host, blocked, open, syncing, stop, bootTs, registry, event,
                   env, outcome, history>>

\* Mutant of BeginStop: the persist timer is left running.
BeginStopTimer(l) ==
    /\ stop' = [stop EXCEPT ![l] = IF @ = "no" THEN "save" ELSE @]
    /\ UNCHANGED timer

\* stop() up to its await; a second call returns at once.
BeginStop(l) ==
    /\ stop' = [stop EXCEPT ![l] = IF @ = "no" THEN "save" ELSE @]
    /\ timer' = timer \ {l}

\* Mutant of Unregister: the handle stays registered.
UnregisterNever == UNCHANGED registry

Unregister == registry' = None

\* Mutant of RoomsDone: startAccount does not look at the signal again.
RoomsDoneUnaware(l) ==
    /\ phase[l] = "rooms"
    /\ \/ /\ stop[l] = "no"
          /\ phase' = [phase EXCEPT ![l] = "wait"]
          /\ UNCHANGED <<stop, timer, registry>>
       \/ /\ FALSE
          /\ phase' = [phase EXCEPT ![l] = "stop"]
          /\ BeginStop(l)
          /\ UNCHANGED registry
       \/ /\ l \in aborted /\ stop[l] # "no"
          /\ phase' = [phase EXCEPT ![l] = "ended"]
          /\ BeginStop(l)
          /\ Unregister
    /\ UNCHANGED <<host, blocked, open, syncing, heeds, bootTs, event, env,
                   outcome, history>>

\* ensureRooms is over, done or failed.  With the signal fired, startAccount
\* goes on to stop(): it waits for its own call, and returns from one that
\* the abort listener made before.
RoomsDone(l) ==
    /\ phase[l] = "rooms"
    /\ \/ /\ l \notin aborted
          /\ phase' = [phase EXCEPT ![l] = "wait"]
          /\ UNCHANGED <<stop, timer, registry>>
       \/ /\ l \in aborted /\ stop[l] = "no"
          /\ phase' = [phase EXCEPT ![l] = "stop"]
          /\ BeginStop(l)
          /\ UNCHANGED registry
       \/ /\ l \in aborted /\ stop[l] # "no"
          /\ phase' = [phase EXCEPT ![l] = "ended"]
          /\ BeginStop(l)
          /\ Unregister
    /\ UNCHANGED <<host, blocked, open, syncing, heeds, bootTs, event, env,
                   outcome, history>>

\* The host aborts.  The handle's listener was added first and calls stop();
\* then startAccount's listener lets it call stop() a second time, which
\* returns at once: startAccount ends while the first call is saving.
Abort(l) ==
    /\ l \notin aborted /\ phase[l] \in {"create", "hung", "crypto", "sync", "rooms", "wait"}
    /\ aborted' = aborted \cup {l}
    /\ IF l \in heeds THEN BeginStop(l) ELSE UNCHANGED <<stop, timer>>
    /\ IF phase[l] = "wait"
       THEN phase' = [phase EXCEPT ![l] = "ended"] /\ Unregister
       ELSE UNCHANGED <<phase, registry>>
    /\ UNCHANGED <<life, blocked, open, syncing, heeds, bootTs, event, env,
                   outcome, history>>

\* Mutant of StopReturns: the transport is not disposed of.
StopReturnsOpen(l) ==
    /\ stop[l] = "save"
    /\ stop' = [stop EXCEPT ![l] = "done"]
    /\ syncing' = syncing \ {l} /\ UNCHANGED open
    /\ seen' = [seen EXCEPT ![l] = {}]
    /\ IF phase[l] = "stop"
       THEN phase' = [phase EXCEPT ![l] = "ended"] /\ Unregister
       ELSE UNCHANGED <<phase, registry>>
    /\ UNCHANGED <<host, blocked, timer, heeds, bootTs, ts, late, command, pend,
                   env, outcome, history>>

\* stop() after its await: the final snapshot is on disk, the client and the
\* transport go.  A decryption under way still ends.
StopReturns(l) ==
    /\ stop[l] = "save"
    /\ stop' = [stop EXCEPT ![l] = "done"]
    /\ syncing' = syncing \ {l} /\ open' = open \ {l}
    /\ seen' = [seen EXCEPT ![l] = {}]
    /\ IF phase[l] = "stop"
       THEN phase' = [phase EXCEPT ![l] = "ended"] /\ Unregister
       ELSE UNCHANGED <<phase, registry>>
    /\ UNCHANGED <<host, blocked, timer, heeds, bootTs, ts, late, command, pend,
                   env, outcome, history>>

\* External: the process ends, at any point.
ProcessExits ==
    /\ exits < MaxExits /\ life > 0
    /\ exits' = exits + 1
    /\ phase' = [l \in Lives |-> IF phase[l] \in {"none", "ended", "failed"}
                                 THEN phase[l] ELSE "gone"]
    /\ open' = {} /\ syncing' = {} /\ timer' = {} /\ heeds' = {}
    /\ pend' = [l \in Lives |-> {}] /\ registry' = None
    /\ stop' = [l \in Lives |-> IF stop[l] = "save" THEN "no" ELSE stop[l]]
    /\ seen' = [l \in Lives |-> {}]
    /\ UNCHANGED <<host, blocked, bootTs, ts, late, command, now, skew, dead,
                   outcome, history>>

-----------------------------------------------------------------------------
(* Events *)

\* External: a user sends a message or a command; its key may reach the bot
\* later than the event.
UserSends(e) ==
    /\ ts[e] = None
    /\ ts' = [ts EXCEPT ![e] = now]
    /\ late' \in {late, late \cup {e}}
    /\ command' \in {command, command \cup {e}}
    /\ UNCHANGED <<host, phase, blocked, handle, registry, seen, pend, env,
                   outcome, history>>

\* External: time passes; the token is revoked.
Tick ==
    /\ now < MaxTime /\ now' = now + 1
    /\ UNCHANGED <<host, phase, blocked, handle, registry, event, skew, dead,
                   exits, outcome, history>>

TokenDies ==
    /\ ~dead /\ dead' = TRUE
    /\ UNCHANGED <<host, phase, blocked, handle, registry, event, now, skew,
                   exits, outcome, history>>

\* handleInbound: a blocked plugin answers with the notice and relays nothing.
Inbound(l, e) ==
    IF l \in blocked
    THEN noticed' = noticed \cup {e} /\ UNCHANGED times
    ELSE times' = [times EXCEPT ![e] = @ + 1] /\ UNCHANGED noticed

\* handleCommand: commands are handled all the same.
Command(e) == times' = [times EXCEPT ![e] = @ + 1] /\ UNCHANGED noticed

\* decodeCommandEvent and decodeInboundEvent: each event is one or the other.
Deliver(l, e) == IF e \in command THEN Command(e) ELSE Inbound(l, e)

\* Mutant of IsLive: history is acted on as well.
IsLiveAlways(l, e) == ts[e] # None

\* handleTimelineEvent.  The SDK puts an event on a client's timeline once,
\* however often the sync brings it, and starts decrypting it first.  What
\* was sent before this handle was built is history.
IsLive(l, e) == ts[e] >= bootTs[l]

\* Mutant of TimelineEvent: an event still being decrypted is decoded at once.
TimelineEventAtOnce(l, e) ==
    /\ l \in syncing /\ ~dead
    /\ ts[e] # None /\ e \notin seen[l]
    /\ seen' = [seen EXCEPT ![l] = @ \cup {e}]
    /\ UNCHANGED <<host, phase, blocked, handle, registry, ts, late, command,
                   pend, env,
                   outcome, history>>

TimelineEvent(l, e) ==
    /\ l \in syncing /\ ~dead
    /\ ts[e] # None /\ e \notin seen[l]
    /\ seen' = [seen EXCEPT ![l] = @ \cup {e}]
    /\ pend' = IF IsLive(l, e) THEN [pend EXCEPT ![l] = @ \cup {e}] ELSE pend
    /\ UNCHANGED <<host, phase, blocked, handle, registry, ts, late, command,
                   env,
                   outcome, history>>

\* The first Decrypted event is the only one listened to; after a failed
\* attempt there is nothing to decode, and the event is dropped for good.
Decrypted(l, e) ==
    /\ e \in pend[l]
    /\ pend' = [pend EXCEPT ![l] = @ \ {e}]
    /\ IF e \in late THEN UNCHANGED outcome ELSE Deliver(l, e)
    /\ UNCHANGED <<host, phase, blocked, handle, registry, ts, late, command,
                   seen, env,
                   history>>

Next ==
    \/ StartAccount \/ ProcessExits \/ Tick \/ TokenDies
    \/ \E l \in Lives :
        \/ CreateConnects(l) \/ ConnectHangs(l) \/ CryptoFails(l) \/ HandleStarts(l)
        \/ InitialSync(l) \/ RoomsDone(l) \/ Abort(l) \/ StopReturns(l)
        \/ \E e \in Events : TimelineEvent(l, e) \/ Decrypted(l, e)
    \/ \E e \in Events : UserSends(e)

Spec == Init /\ [][Next]_vars

\* The awaits of startAccount and stop() end (GatewayConnection: every call
\* settles), the sync delivers while the token lives, a decryption attempt
\* ends.  Nothing forces the host, a user or the process.
FairSpec ==
    /\ Spec
    /\ \A l \in Lives :
        /\ WF_vars(CreateConnects(l) \/ ConnectHangs(l)) /\ WF_vars(HandleStarts(l) \/ CryptoFails(l))
        /\ WF_vars(InitialSync(l)) /\ WF_vars(RoomsDone(l)) /\ WF_vars(StopReturns(l))
        /\ \A e \in Events : WF_vars(TimelineEvent(l, e)) /\ WF_vars(Decrypted(l, e))

-----------------------------------------------------------------------------
(* Properties *)

TypeOK ==
    /\ life \in 0..MaxLives /\ aborted \subseteq Lives
    /\ phase \in [Lives -> Phases] /\ blocked \subseteq Lives
    /\ open \subseteq Lives /\ syncing \subseteq open
    /\ timer \subseteq syncing /\ heeds \subseteq Lives
    /\ stop \in [Lives -> {"no", "save", "done"}]
    /\ bootTs \in [Lives -> Nat]
    /\ registry \in Lives \cup {None}
    /\ ts \in [Events -> 0..now] /\ late \subseteq Events /\ command \subseteq Events
    /\ seen \in [Lives -> SUBSET Events] /\ pend \in [Lives -> SUBSET Events]
    /\ now \in 1..(MaxTime + MaxLives) /\ skew \in ClockErrors /\ dead \in BOOLEAN
    /\ exits \in 0..MaxExits
    /\ times \in [Events -> Nat] /\ noticed \subseteq Events
    /\ failed \subseteq Lives /\ overlap \in BOOLEAN

\* No event is acted on twice, reaching the agent or a command handler or
\* being answered with the upgrade notice, over restarts of the account and
\* of the process, although every new handle is sent the tail of each
\* timeline again: provided the plugin's clock is not behind, and no older
\* client was still syncing when a life was started.
AtMostOnce ==
    overlap \/ \A e \in Events : times[e] + (IF e \in noticed THEN 1 ELSE 0) <= 1

\* Every connected transport belongs to a startAccount that is under way, to
\* a stop() that is saving, or to a create() that threw: those stay connected
\* until the process ends.
OpenTransportsExplained ==
    \A l \in open :
        \/ ~Settled(l)
        \/ stop[l] = "save"
        \/ l \in failed

\* The handle that outbound sends use is the last one, and its client is
\* syncing, but for an abort that came while the rooms were being ensured.
RegisteredIsUp ==
    registry # None =>
        /\ registry = life
        /\ registry \in syncing \/ (registry \in aborted /\ phase[registry] = "rooms")

\* An event sent while a handle is up is answered: its handler gets it, or
\* the sender the notice, unless the handle is stopped, the token revoked, or
\* its first decryption attempt fails.
LiveEventAnswered ==
    \A l \in Lives, e \in Events :
        (l \in syncing /\ ts[e] # None /\ IsLive(l, e))
            ~> (times[e] > 0 \/ e \in noticed \/ l \notin syncing \/ dead \/ e \in late)

\* An aborted startAccount ends, whatever it was awaiting, unless connect()
\* never settles or the token was revoked before the initial sync.
AbortEnds ==
    \A l \in Lives :
        l \in aborted ~> Settled(l) \/ phase[l] = "hung" \/ (dead /\ phase[l] = "sync")

\* client.ts:380: "Final crypto snapshot so the latest keys/sessions survive
\* this shutdown": when startAccount has ended on an abort, it is on disk.
EndedMeansSaved ==
    \A l \in Lives : phase[l] = "ended" => stop[l] = "done"

=============================================================================
