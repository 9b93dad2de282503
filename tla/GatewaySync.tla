----------------------------- MODULE GatewaySync -----------------------------
(***************************************************************************)
(* The sync path of src/src/matrix/gateway-transport.ts: sync frames pushed *)
(* by the gateway over a WebSocket, buffered or handed to the one waiting  *)
(* request of the SDK's sliding-sync loop, and acknowledged on the SDK's   *)
(* next request, after the crypto store (idb-persistence.ts) was flushed.  *)
(*                                                                         *)
(* Position p of the stream is one sync frame; the positions in KeyPos     *)
(* carry to-device room keys.  Frames, requests and file contents are      *)
(* reduced to the position, whether keys were on board, and the            *)
(* subscription body.  The gateway and homeserver, the SDK loop and the    *)
(* network are not in src/: they are the actions marked external.          *)
(***************************************************************************)
EXTENDS Naturals, Sequences

CONSTANTS
    MaxPos,          \* bound: length of the homeserver's stream
    KeyPos,          \* positions whose frame carries room keys
    Bodies,          \* sliding-sync subscription bodies the SDK may ask for
    NoBody,          \* sync was not started yet
    QueueCap,        \* MAX_SYNC_QUEUE
    FlushOutcomes,   \* subset of BOOLEAN: may a crypto snapshot succeed / fail
    CursorOutcomes,  \* subset of BOOLEAN: may sync-pos.txt be accessed / not
    RestoreOutcomes, \* subset of BOOLEAN: may restoring the store succeed / fail
    Window,          \* bound: frames in flight per direction
    MaxDrops,        \* bound: socket losses
    MaxCrashes,      \* bound: process crashes
    MaxReauths       \* bound: reauth frames (upstream 401)

ASSUME SyncAssumption ==
    /\ MaxPos \in Nat
    /\ KeyPos \subseteq 1..MaxPos
    /\ NoBody \notin Bodies
    /\ QueueCap \in Nat \ {0}
    /\ FlushOutcomes \subseteq BOOLEAN
    /\ CursorOutcomes \subseteq BOOLEAN
    /\ RestoreOutcomes \subseteq BOOLEAN
    /\ Window \in Nat
    /\ MaxDrops \in Nat /\ MaxCrashes \in Nat /\ MaxReauths \in Nat

VARIABLES
    \* the socket, both ends
    link,        \* "down", "connecting", "open"
    connected,   \* GatewayTransport.connected: auth_ok was received
    inbox,       \* frames on their way to the plugin
    outbox,      \* frames on their way to the gateway
    \* GatewayTransport
    queue,       \* syncQueue: frames nobody was waiting for
    pendingAck,  \* the frame handed to the SDK and not yet acknowledged
    flushing,    \* the frame flushAndAckPending holds across its await
    ackedPos,    \* the in-memory resume point
    lastBody,    \* lastSyncBody, NoBody until syncStarted
    \* the SDK's sliding-sync loop (external)
    sdk,         \* "boot", "stuck", "ready", "flush", "wait"
    held,        \* the frame the SDK is processing
    \* the crypto store and the files
    ram,         \* keys in the in-memory IndexedDB
    dumps,       \* snapshots being taken by persistIdbToDisk, oldest first
    disk,        \* keys in crypto-idb-snapshot.json
    posFile,     \* sync-pos.txt
    \* the gateway and homeserver (external)
    cursor,      \* last position pushed on this socket, NoStream before sync_start
    gwBody,      \* the subscription the gateway syncs with
    released,    \* the homeserver may delete keys at or below this position
    \* history: read by no action's guard
    base,        \* the resume point this process was started with
    applied,     \* positions this process's SDK has been handed
    dropped,     \* positions whose frame the queue dropped in this process
    forfeited,   \* keys whose custody was given up: see Safe below
    missed,      \* keys on disk that this process's restore failed to load
    \* counters of the bounded events
    drops, crashes, reauths

socketVars == <<link, connected>>
sdkVars == <<sdk, held>>
fileVars == <<ram, dumps, disk>>
gwVars == <<cursor, gwBody, released>>
histVars == <<base, applied, dropped, forfeited, missed>>
counters == <<drops, crashes, reauths>>
vars == <<link, connected, inbox, outbox, queue, pendingAck, flushing,
          ackedPos, lastBody, sdk, held, ram, dumps, disk, posFile, cursor,
          gwBody, released, base, applied, dropped, forfeited, missed, drops,
          crashes, reauths>>

NoStream == MaxPos + 1

\* Frames to the plugin and to the gateway.
SyncFrame(p, k) == [t |-> "sync", pos |-> p, keys |-> k]
Control(type)   == [t |-> type, pos |-> 0, keys |-> FALSE]
NoFrame         == Control("none")
InFrames ==
    {f \in [t : {"none", "auth_ok", "reauth", "sync"}, pos : 0..MaxPos,
            keys : BOOLEAN] : f.keys => f.t = "sync" /\ f.pos \in KeyPos}
OutFrame(type, p, b) == [t |-> type, pos |-> p, body |-> b]
OutFrames ==
    [t : {"auth", "sync_start", "sync_update", "sync_ack"}, pos : 0..MaxPos,
     body : Bodies \cup {NoBody}]

\* A snapshot of the crypto store on its way to disk, and who asked for it.
Snapshots == [by : {"flush", "timer"}, snap : SUBSET KeyPos]

KeysOf(f) == IF f.keys THEN {f.pos} ELSE {}

-----------------------------------------------------------------------------
Init ==
    /\ link = "down" /\ connected = FALSE
    /\ inbox = <<>> /\ outbox = <<>> /\ queue = <<>>
    /\ pendingAck = NoFrame /\ flushing = NoFrame
    /\ ackedPos = 0 /\ lastBody = NoBody
    /\ sdk = "boot" /\ held = NoFrame
    /\ ram = {} /\ dumps = <<>> /\ disk = {} /\ posFile = 0
    /\ cursor = NoStream /\ gwBody = NoBody /\ released = 0
    /\ base = 0 /\ applied = {} /\ dropped = {} /\ forfeited = {}
    /\ missed = {}
    /\ drops = 0 /\ crashes = 0 /\ reauths = 0

-----------------------------------------------------------------------------
(* Socket *)

\* safeSend: a socket that is not open swallows the frame.
Send(frames) == outbox' = IF link = "open" THEN outbox \o frames ELSE outbox

\* openSocket, from connect() or from the reconnect timer.  (new WebSocket
\* throws for a malformed URL only, which the first connect() would reject.)
OpenSocket ==
    /\ link = "down"
    /\ link' = "connecting"
    /\ UNCHANGED <<connected, inbox, outbox, queue, pendingAck, flushing,
                   ackedPos, lastBody, sdkVars, fileVars, posFile, gwVars,
                   histVars, counters>>

\* The "open" listener sends the auth frame.
SocketOpens ==
    /\ link = "connecting"
    /\ link' = "open"
    /\ outbox' = <<OutFrame("auth", 0, NoBody)>>
    /\ UNCHANGED <<connected, inbox, queue, pendingAck, flushing, ackedPos,
                   lastBody, sdkVars, fileVars, posFile, gwVars, histVars,
                   counters>>

\* onClose and failInFlight.  The un-acked frame is forgotten, the waiting
\* request is rejected and syncQueue keeps what it holds.  connect() is
\* settled only by the auth answer of its own attempt, so losing the socket
\* before the first auth_ok leaves its caller waiting for good.
SocketCloses ==
    /\ link \in {"connecting", "open"}
    /\ drops < MaxDrops
    /\ drops' = drops + 1
    /\ link' = "down" /\ connected' = FALSE
    /\ inbox' = <<>> /\ outbox' = <<>>
    /\ cursor' = NoStream /\ gwBody' = NoBody
    /\ pendingAck' = NoFrame
    /\ forfeited' = forfeited \cup
           IF queue = <<>> THEN {} ELSE KeysOf(pendingAck)
    /\ sdk' = CASE sdk = "wait" -> "ready"
                [] sdk = "boot" -> "stuck"
                [] OTHER -> sdk
    /\ UNCHANGED <<queue, flushing, ackedPos, lastBody, held, fileVars,
                   posFile, released, base, applied, dropped, missed, crashes,
                   reauths>>

\* Mutant of ReceiveAuthOk: a reconnect does not resume the sync stream.
ReceiveAuthOkNoResume ==
    /\ inbox # <<>> /\ Head(inbox).t = "auth_ok"
    /\ inbox' = Tail(inbox)
    /\ connected' = TRUE
    /\ sdk' = IF sdk = "boot" THEN "ready" ELSE sdk
    /\ UNCHANGED <<link, outbox, queue, pendingAck, flushing, ackedPos,
                   lastBody, held, fileVars, posFile, gwVars, histVars, counters>>

\* onMessage "auth_ok": resume the sync stream from ackedPos, if it was started.
\* The first one settles connect(), and the SDK's loop starts.
ReceiveAuthOk ==
    /\ inbox # <<>> /\ Head(inbox).t = "auth_ok"
    /\ inbox' = Tail(inbox)
    /\ connected' = TRUE
    /\ Send(IF lastBody = NoBody THEN <<>>
            ELSE <<OutFrame("sync_start", ackedPos, lastBody)>>)
    /\ sdk' = IF sdk = "boot" THEN "ready" ELSE sdk
    /\ UNCHANGED <<link, queue, pendingAck, flushing, ackedPos, lastBody, held,
                   fileVars, posFile, gwVars, histVars, counters>>

\* onMessage "reauth": send the same token again.
ReceiveReauth ==
    /\ inbox # <<>> /\ Head(inbox).t = "reauth"
    /\ inbox' = Tail(inbox)
    /\ Send(<<OutFrame("auth", 0, NoBody)>>)
    /\ UNCHANGED <<socketVars, queue, pendingAck, flushing, ackedPos, lastBody,
                   sdkVars, fileVars, posFile, gwVars, histVars, counters>>

-----------------------------------------------------------------------------
(* Sync frames *)

\* onSyncFrame with a waiter: the frame goes to the SDK and is now pending.
ReceiveSyncWaiting ==
    /\ inbox # <<>> /\ Head(inbox).t = "sync" /\ sdk = "wait"
    /\ inbox' = Tail(inbox)
    /\ sdk' = "ready" /\ held' = Head(inbox)
    /\ pendingAck' = Head(inbox)
    /\ forfeited' = forfeited \cup KeysOf(pendingAck)
    /\ UNCHANGED <<socketVars, outbox, queue, flushing, ackedPos, lastBody,
                   fileVars, posFile, gwVars, base, applied, dropped, missed,
                   counters>>

\* onSyncFrame without a waiter: buffer, and drop the oldest beyond the cap.
ReceiveSyncBuffered ==
    /\ inbox # <<>> /\ Head(inbox).t = "sync" /\ sdk # "wait"
    /\ inbox' = Tail(inbox)
    /\ IF Len(queue) < QueueCap
       THEN /\ queue' = Append(queue, Head(inbox))
            /\ UNCHANGED <<dropped, forfeited>>
       ELSE /\ queue' = Tail(Append(queue, Head(inbox)))
            /\ dropped' = dropped \cup {Head(queue).pos}
            /\ forfeited' = forfeited \cup KeysOf(Head(queue))
    /\ UNCHANGED <<socketVars, outbox, pendingAck, flushing, ackedPos, lastBody,
                   sdkVars, fileVars, posFile, gwVars, base, applied, missed,
                   counters>>

\* Mutant of NextSyncFrame: syncQueue.pop() for syncQueue.shift().
NextSyncFramePop(pend) ==
    IF queue = <<>>
    THEN /\ sdk' = "wait"
         /\ pendingAck' = pend
         /\ UNCHANGED <<queue, held>>
    ELSE /\ sdk' = "ready"
         /\ held' = queue[Len(queue)]
         /\ pendingAck' = queue[Len(queue)]
         /\ queue' = SubSeq(queue, 1, Len(queue) - 1)

\* nextSyncFrame: the oldest buffered frame, now pending, or a new waiter.
\* `pend` is the un-acked frame left at this point; serving replaces it.
NextSyncFrame(pend) ==
    IF queue = <<>>
    THEN /\ sdk' = "wait"
         /\ pendingAck' = pend
         /\ UNCHANGED <<queue, held>>
    ELSE /\ sdk' = "ready"
         /\ held' = Head(queue)
         /\ pendingAck' = Head(queue)
         /\ queue' = Tail(queue)

\* The keys that serving the next frame loses track of.
Overwritten(pend) == IF queue = <<>> THEN {} ELSE KeysOf(pend)

\* Mutant of BodyFrames: a changed body is recorded and never sent.
BodyFramesNoUpdate(b, pos) ==
    IF lastBody = NoBody THEN <<OutFrame("sync_start", pos, b)>> ELSE <<>>

\* The sync_start / sync_update frames of slidingSyncRequest for this body.
BodyFrames(b, pos) ==
    IF lastBody = NoBody THEN <<OutFrame("sync_start", pos, b)>>
    ELSE IF b # lastBody THEN <<OutFrame("sync_update", 0, b)>>
    ELSE <<>>

\* Mutant of PersistAckedPos: the cursor is written as the next position.
PersistAckedPosOffByOne(p) ==
    /\ ackedPos' = p
    /\ \E ok \in CursorOutcomes : posFile' = IF ok THEN p + 1 ELSE posFile

\* persistAckedPos(p): the resume point moves even when the file write fails.
PersistAckedPos(p) ==
    /\ ackedPos' = p
    /\ \E ok \in CursorOutcomes : posFile' = IF ok THEN p ELSE posFile

\* The SDK asks for the next frame: a call of slidingSyncRequest.  (Window
\* bounds what the socket has buffered when it does.)
SdkCalls == sdk = "ready" /\ held = NoFrame /\ Len(outbox) < Window

\* ... flushAndAckPending has nothing to acknowledge, or no connection.
RequestWithoutAck ==
    /\ SdkCalls
    /\ pendingAck = NoFrame \/ ~connected
    /\ \E b \in Bodies : lastBody' = b /\ Send(BodyFrames(b, ackedPos))
    /\ NextSyncFrame(pendingAck)
    /\ forfeited' = forfeited \cup Overwritten(pendingAck)
    /\ UNCHANGED <<socketVars, inbox, flushing, ackedPos, fileVars, posFile,
                   gwVars, base, applied, dropped, missed, counters>>

\* Mutant of RequestWithAck: a frame with keys is acked without a flush.
RequestWithAckUnflushed ==
    /\ SdkCalls
    /\ pendingAck # NoFrame /\ connected
    /\ PersistAckedPos(pendingAck.pos)
    /\ \E b \in Bodies :
           /\ lastBody' = b
           /\ Send(<<OutFrame("sync_ack", pendingAck.pos, NoBody)>>
                   \o BodyFrames(b, pendingAck.pos))
    /\ NextSyncFrame(NoFrame)
    /\ UNCHANGED <<socketVars, inbox, flushing, fileVars, gwVars, histVars,
                   counters>>

\* ... the pending frame had no keys: persist the cursor and ack at once.
RequestWithAck ==
    /\ SdkCalls
    /\ pendingAck # NoFrame /\ ~pendingAck.keys /\ connected
    /\ PersistAckedPos(pendingAck.pos)
    /\ \E b \in Bodies :
           /\ lastBody' = b
           /\ Send(<<OutFrame("sync_ack", pendingAck.pos, NoBody)>>
                   \o BodyFrames(b, pendingAck.pos))
    /\ NextSyncFrame(NoFrame)
    /\ UNCHANGED <<socketVars, inbox, flushing, fileVars, gwVars, histVars,
                   counters>>

\* dumpIndexedDatabases starts.  The snapshot is taken to hold what the store
\* holds now: nothing the SDK adds while the dump runs.  Dumps end in the order
\* they began: their transactions are queued in turn by the in-memory IndexedDB,
\* and each renames its file in the same synchronous stretch it wrote it in.
DumpStore(who) == dumps' = Append(dumps, [by |-> who, snap |-> ram])

\* Mutant of RequestWithFlush: the cursor is written before the flush.
RequestWithFlushEagerCursor ==
    /\ SdkCalls
    /\ pendingAck # NoFrame /\ pendingAck.keys /\ connected
    /\ pendingAck' = NoFrame /\ flushing' = pendingAck
    /\ DumpStore("flush")
    /\ posFile' = pendingAck.pos
    /\ sdk' = "flush"
    /\ UNCHANGED <<socketVars, inbox, outbox, queue, ackedPos, lastBody, held,
                   ram, disk, gwVars, histVars, counters>>

\* ... the pending frame had keys: flushBeforeAck starts dumping the store.
RequestWithFlush ==
    /\ SdkCalls
    /\ pendingAck # NoFrame /\ pendingAck.keys /\ connected
    /\ pendingAck' = NoFrame /\ flushing' = pendingAck
    /\ DumpStore("flush")
    /\ sdk' = "flush"
    /\ UNCHANGED <<socketVars, inbox, outbox, queue, ackedPos, lastBody, held,
                   ram, disk, posFile, gwVars, histVars, counters>>

\* Mutant of WriteSnapshot: the .tmp file is never renamed into place.
WriteSnapshotNoRename(ok) == ok \in BOOLEAN /\ disk' = disk

\* persistIdbToDisk completes its dump: rename the new snapshot into place, or
\* log the failure; it never throws.
WriteSnapshot(ok) == disk' = IF ok THEN Head(dumps).snap ELSE disk

\* The flush returns and flushAndAckPending goes on: persist the cursor, ack,
\* and serve the request.  The socket may have been lost or replaced meanwhile.
FlushReturns ==
    /\ dumps # <<>> /\ Head(dumps).by = "flush"
    /\ dumps' = Tail(dumps)
    /\ \E ok \in FlushOutcomes :
           /\ WriteSnapshot(ok)
           /\ forfeited' = forfeited \cup
                  (IF ok THEN {} ELSE KeysOf(flushing)) \cup Overwritten(pendingAck)
    /\ PersistAckedPos(flushing.pos)
    /\ \E b \in Bodies :
           /\ lastBody' = b
           /\ Send(<<OutFrame("sync_ack", flushing.pos, NoBody)>>
                   \o BodyFrames(b, flushing.pos))
    /\ flushing' = NoFrame
    /\ NextSyncFrame(pendingAck)
    /\ UNCHANGED <<socketVars, inbox, ram, gwVars, base, applied, dropped,
                   missed, counters>>

\* The waiter's timer fires (empty delta) or the SDK aborts the request.
WaitEnds ==
    /\ sdk = "wait"
    /\ sdk' = "ready"
    /\ UNCHANGED <<socketVars, inbox, outbox, queue, pendingAck, flushing,
                   ackedPos, lastBody, held, fileVars, posFile, gwVars,
                   histVars, counters>>

\* External: the SDK finishes a frame; its keys are in the in-memory store.
SdkProcesses ==
    /\ held # NoFrame
    /\ ram' = ram \cup KeysOf(held)
    /\ applied' = applied \cup {held.pos}
    /\ held' = NoFrame
    /\ UNCHANGED <<socketVars, inbox, outbox, queue, pendingAck, flushing,
                   ackedPos, lastBody, sdk, dumps, disk, posFile, gwVars,
                   base, dropped, forfeited, missed, counters>>

-----------------------------------------------------------------------------
(* The periodic snapshot of client.ts, concurrent with all of the above *)

\* The 60s interval, once start() returned.  (Bound: one such dump at a time.)
PersistTimerFires ==
    /\ sdk \notin {"boot", "stuck"}
    /\ \A i \in 1..Len(dumps) : dumps[i].by # "timer"
    /\ DumpStore("timer")
    /\ UNCHANGED <<socketVars, inbox, outbox, queue, pendingAck, flushing,
                   ackedPos, lastBody, sdkVars, ram, disk, posFile, gwVars,
                   histVars, counters>>

PersistTimerReturns ==
    /\ dumps # <<>> /\ Head(dumps).by = "timer"
    /\ dumps' = Tail(dumps)
    /\ \E ok \in FlushOutcomes : WriteSnapshot(ok)
    /\ UNCHANGED <<socketVars, inbox, outbox, queue, pendingAck, flushing,
                   ackedPos, lastBody, sdkVars, ram, posFile, gwVars, histVars,
                   counters>>

\* loadPersistedPos: what a new transport resumes from; a file that cannot be
\* read starts the stream over.
LoadPersistedPos(ok) == IF ok THEN posFile ELSE 0

\* Mutant of RestoreIdbFromDisk: a restore that succeeds leaves the store empty,
\* as one that ran after the SDK had opened its databases would.
RestoreIdbFromDiskLate(ok) == IF ok THEN {{}} ELSE SUBSET disk

\* restoreIdbFromDisk: the in-memory stores a new process may start with.  An
\* error while reading or parsing the snapshot leaves nothing of it, an error
\* while writing its records a part; both are logged and "starting fresh".
RestoreIdbFromDisk(ok) == IF ok THEN {disk} ELSE SUBSET disk

\* The process dies and is started again: MatrixClientHandle.create restores the
\* crypto store, makes a new transport and connects it.  The next snapshot will
\* replace the file, with what a failed restore missed.
CrashAndRestart ==
    /\ crashes < MaxCrashes
    /\ crashes' = crashes + 1
    /\ link' = "down" /\ connected' = FALSE
    /\ inbox' = <<>> /\ outbox' = <<>> /\ queue' = <<>>
    /\ pendingAck' = NoFrame /\ flushing' = NoFrame
    /\ \E ok \in CursorOutcomes :
           /\ ackedPos' = LoadPersistedPos(ok)
           /\ base' = LoadPersistedPos(ok)
    /\ lastBody' = NoBody
    /\ sdk' = "boot" /\ held' = NoFrame
    /\ \E ok \in RestoreOutcomes :
           /\ ram' \in RestoreIdbFromDisk(ok)
           /\ missed' = IF ok THEN {} ELSE disk \ ram'
    /\ forfeited' = forfeited \cup missed'
    /\ dumps' = <<>>
    /\ cursor' = NoStream /\ gwBody' = NoBody
    /\ applied' = {} /\ dropped' = {}
    /\ UNCHANGED <<disk, posFile, released, drops, reauths>>

-----------------------------------------------------------------------------
(* External: the gateway and the homeserver behind it *)

GatewayReceives ==
    /\ outbox # <<>>
    /\ outbox' = Tail(outbox)
    /\ LET f == Head(outbox) IN
       /\ IF f.t = "auth"
          THEN inbox' = Append(inbox, Control("auth_ok"))
          ELSE UNCHANGED inbox
       /\ cursor' = IF f.t = "sync_start" THEN f.pos ELSE cursor
       /\ gwBody' = IF f.t \in {"sync_start", "sync_update"} THEN f.body ELSE gwBody
       /\ released' = IF f.t \in {"sync_start", "sync_ack"} /\ f.pos > released
                      THEN f.pos ELSE released
    /\ UNCHANGED <<socketVars, queue, pendingAck, flushing, ackedPos, lastBody,
                   sdkVars, fileVars, posFile, histVars, counters>>

\* The next position of the stream, without the keys that were deleted.
GatewayPushes ==
    /\ cursor < MaxPos /\ Len(inbox) < Window
    /\ cursor' = cursor + 1
    /\ inbox' = Append(inbox,
           SyncFrame(cursor + 1, cursor + 1 \in KeyPos /\ cursor + 1 > released))
    /\ UNCHANGED <<socketVars, outbox, queue, pendingAck, flushing, ackedPos,
                   lastBody, sdkVars, fileVars, posFile, gwBody, released,
                   histVars, counters>>

\* The homeserver answered 401: the gateway asks for the token again.
GatewayReauths ==
    /\ cursor # NoStream /\ Len(inbox) < Window
    /\ reauths < MaxReauths
    /\ reauths' = reauths + 1
    /\ inbox' = Append(inbox, Control("reauth"))
    /\ UNCHANGED <<socketVars, outbox, queue, pendingAck, flushing, ackedPos,
                   lastBody, sdkVars, fileVars, posFile, gwVars, histVars,
                   drops, crashes>>

-----------------------------------------------------------------------------
Next ==
    \/ OpenSocket \/ SocketOpens \/ SocketCloses
    \/ ReceiveAuthOk \/ ReceiveReauth
    \/ ReceiveSyncWaiting \/ ReceiveSyncBuffered
    \/ RequestWithoutAck \/ RequestWithAck \/ RequestWithFlush \/ FlushReturns
    \/ WaitEnds \/ SdkProcesses
    \/ PersistTimerFires \/ PersistTimerReturns
    \/ CrashAndRestart
    \/ GatewayReceives \/ GatewayPushes \/ GatewayReauths

Spec == Init /\ [][Next]_vars

\* What keeps running: the event loop (socket events, timers that must fire,
\* awaits that return), the SDK's loop and the gateway.  Nothing is assumed of
\* losses, crashes, re-authentication, timeouts and the 60s snapshot timer.
Fairness ==
    /\ WF_vars(OpenSocket) /\ WF_vars(SocketOpens)
    /\ WF_vars(ReceiveAuthOk) /\ WF_vars(ReceiveReauth)
    /\ WF_vars(ReceiveSyncWaiting \/ ReceiveSyncBuffered)
    /\ WF_vars(RequestWithoutAck \/ RequestWithAck \/ RequestWithFlush)
    /\ WF_vars(FlushReturns) /\ WF_vars(PersistTimerReturns)
    /\ WF_vars(SdkProcesses)
    /\ WF_vars(GatewayReceives) /\ WF_vars(GatewayPushes)

FairSpec == Spec /\ Fairness

-----------------------------------------------------------------------------
(* Properties *)

SocketType ==
    /\ link \in {"down", "connecting", "open"} /\ connected \in BOOLEAN
    /\ inbox \in Seq(InFrames) /\ outbox \in Seq(OutFrames)

TransportType ==
    /\ queue \in Seq(InFrames)
    /\ pendingAck \in InFrames /\ flushing \in InFrames
    /\ ackedPos \in 0..MaxPos
    /\ lastBody \in Bodies \cup {NoBody}
    /\ sdk \in {"boot", "stuck", "ready", "flush", "wait"} /\ held \in InFrames

StoreType ==
    /\ ram \subseteq KeyPos /\ disk \subseteq KeyPos
    /\ dumps \in Seq(Snapshots)
    /\ posFile \in 0..MaxPos

GatewayType ==
    /\ cursor \in 0..NoStream /\ released \in 0..MaxPos
    /\ gwBody \in Bodies \cup {NoBody}

HistoryType ==
    /\ base \in 0..MaxPos
    /\ applied \subseteq 0..MaxPos /\ dropped \subseteq 0..MaxPos
    /\ forfeited \subseteq KeyPos /\ missed \subseteq KeyPos
    /\ drops \in Nat /\ crashes \in Nat /\ reauths \in Nat

TypeOK == SocketType /\ TransportType /\ StoreType /\ GatewayType /\ HistoryType

KeysUpTo(p) == {k \in KeyPos : k <= p}

\* Keys that are on disk, or whose custody was given up, which happens in four
\* ways: the full queue dropped the frame; the snapshot that had to save the key
\* failed; the frame's pending ack was forgotten, at a loss of the socket that
\* left later frames queued or because a later frame replaced it; a restore of
\* the crypto store failed, and the next snapshot replaces the one on disk.
Safe == disk \cup forfeited

\* The promise of flushBeforeAck (client.ts): the homeserver never deletes a
\* room key that is not in the crypto snapshot.
NoKeyLost == KeysUpTo(released) \subseteq disk

\* The same promise under every fault: a deleted key is on disk or was
\* forfeited in one of the four ways above, and in no other.
Custody == KeysUpTo(released) \subseteq Safe

\* The resume point, in memory and in sync-pos.txt, never covers a key that is
\* neither on disk, where a crash leaves it, nor forfeited.
ResumePointSafe == KeysUpTo(ackedPos) \cup KeysUpTo(posFile) \subseteq Safe

\* Within one process the SDK is never handed a frame before all the earlier
\* ones, except those the full queue dropped, across reconnects and re-auths.
NoSkippedDelta ==
    \A p \in applied : (base + 1)..(p - 1) \subseteq applied \cup dropped

\* The body of the last sync_start or sync_update of s, b if there is none.
BodyAfter(s, b) ==
    LET sent == {i \in 1..Len(s) : s[i].t \in {"sync_start", "sync_update"}}
    IN  IF sent = {} THEN b
        ELSE s[CHOOSE i \in sent : \A j \in sent : j <= i].body

\* The body the gateway syncs with, once it has read what is on the wire.
BodyOnWire == BodyAfter(outbox, gwBody)

\* While connected, the gateway has or is about to get the subscription the SDK
\* asked for last, although sync_update frames sent while reconnecting are lost.
SubscriptionInSync == connected => BodyOnWire = lastBody

\* A new crypto snapshot, of the flush or of the timer, loses no key of the one
\* it replaces, except those the restore of this very process failed to load.
SnapshotNeverRegresses == [][disk \ disk' \subseteq missed]_vars

\* GatewaySync keeps the promise of KeyCustody.
Abstract == INSTANCE KeyCustody WITH saved <- disk, writtenOff <- forfeited
CustodySpec == Abstract!Spec

\* The whole stream is eventually consumed and released, unless connect() was
\* left waiting by the loss of its very first socket.
FullyReleased == <>(released = MaxPos \/ sdk = "stuck")
=============================================================================
