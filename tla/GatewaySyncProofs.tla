-------------------------- MODULE GatewaySyncProofs --------------------------
(***************************************************************************)
(* Proofs about GatewaySync, for every stream, every placement of keys,    *)
(* every queue capacity and every number of faults:                        *)
(*   - TypeCorrect: Spec => []TypeOK                                       *)
(*   - KeysInCustody: Spec => []Custody                                    *)
(*   - ResumePointHeld: Spec => []ResumePointSafe                          *)
(*   - SnapshotMonotone: Spec => SnapshotNeverRegresses                    *)
(*   - ImplementsKeyCustody: Spec => CustodySpec                           *)
(***************************************************************************)
EXTENDS GatewaySync, SequenceTheorems, TLAPS

USE DEF DumpStore, RestoreIdbFromDisk, LoadPersistedPos

-----------------------------------------------------------------------------
(* The inductive invariant *)

\* Room keys that some frame of s carries.
KeysIn(s) == {k \in KeyPos : \E j \in 1..Len(s) : s[j].keys /\ s[j].pos = k}

\* A sync frame of s comes after all the keys below its position: they are in
\* C, or an earlier frame of s carries them.
Gapless(s, C) ==
    \A i \in 1..Len(s) : \A k \in KeyPos :
        s[i].t = "sync" /\ k < s[i].pos =>
            k \in C \/ \E j \in 1..(i - 1) : s[j].keys /\ s[j].pos = k

\* A frame without keys at a key's position: the key was released and is safe.
Flagged(f, C) == f.t = "sync" /\ f.pos \in KeyPos /\ ~f.keys => f.pos \in C

\* Keys that are safe or will be flushed before anything later is acked.
Covered == Safe \cup KeysOf(pendingAck) \cup KeysOf(flushing)

SdkInv ==
    /\ sdk = "wait" => queue = <<>>
    /\ sdk # "flush" => flushing = NoFrame
    /\ pendingAck.keys => pendingAck.pos \in ram \/ held = pendingAck

DumpInv ==
    /\ disk \subseteq ram \cup missed
    /\ \A i \in 1..Len(dumps) :
           /\ disk \subseteq dumps[i].snap \cup missed
           /\ dumps[i].snap \subseteq ram
           /\ dumps[i].by = "flush" =>
                  sdk = "flush" /\ flushing.keys /\ flushing.pos \in dumps[i].snap
    /\ \A i, j \in 1..Len(dumps) :
           /\ i <= j => dumps[i].snap \subseteq dumps[j].snap
           /\ dumps[i].by = "flush" /\ dumps[j].by = "flush" => i = j

\* What a restore failed to load was forfeited when it failed.
MissedInv == missed \subseteq forfeited

StreamInv ==
    /\ Gapless(queue, Covered)
    /\ Gapless(inbox, Covered \cup KeysIn(queue))
    /\ cursor # NoStream =>
           KeysUpTo(cursor) \subseteq Covered \cup KeysIn(queue) \cup KeysIn(inbox)

FrameInv ==
    /\ \A i \in 1..Len(queue) : queue[i].t = "sync" /\ Flagged(queue[i], Safe)
    /\ \A i \in 1..Len(inbox) : Flagged(inbox[i], Safe)
    /\ pendingAck # NoFrame => pendingAck.t = "sync"
    /\ Flagged(pendingAck, Safe) /\ Flagged(flushing, Safe)

\* Whatever s tells the gateway it may delete is in C.
AcksSafe(s, C) ==
    \A i \in 1..Len(s) :
        s[i].t \in {"sync_start", "sync_ack"} => KeysUpTo(s[i].pos) \subseteq C

AckInv ==
    /\ \A k \in KeyPos : k < pendingAck.pos => k \in Safe
    /\ \A k \in KeyPos : k < flushing.pos => k \in Safe
    /\ AcksSafe(outbox, Safe)

IInv == /\ TypeOK
        /\ SdkInv /\ DumpInv /\ MissedInv /\ StreamInv /\ FrameInv /\ AckInv
        /\ Custody /\ ResumePointSafe

-----------------------------------------------------------------------------
(* Type correctness *)

LEMMA FrameTypes ==
    /\ 0 \in 0..MaxPos /\ NoStream \in 0..NoStream /\ 0..MaxPos \subseteq 0..NoStream
    /\ NoFrame \in InFrames /\ Control("auth_ok") \in InFrames
    /\ Control("reauth") \in InFrames
    /\ \A p \in 0..MaxPos, k \in BOOLEAN :
           (k => p \in KeyPos) => SyncFrame(p, k) \in InFrames
BY SyncAssumption DEF NoFrame, Control, SyncFrame, InFrames, NoStream

LEMMA OutTypes ==
    ASSUME NEW p \in 0..MaxPos, NEW b \in Bodies \cup {NoBody},
           NEW type \in {"auth", "sync_start", "sync_update", "sync_ack"}
    PROVE  <<OutFrame(type, p, b)>> \in Seq(OutFrames)
BY DEF OutFrame, OutFrames

\* What the SDK's request sends is a sequence of gateway frames.
LEMMA SendTypes ==
    ASSUME outbox \in Seq(OutFrames), NEW s \in Seq(OutFrames), Send(s)
    PROVE  outbox' \in Seq(OutFrames)
BY DEF Send

LEMMA BodyFramesType ==
    ASSUME NEW b \in Bodies, NEW p \in 0..MaxPos
    PROVE  /\ BodyFrames(b, p) \in Seq(OutFrames)
           /\ <<OutFrame("sync_ack", p, NoBody)>> \o BodyFrames(b, p) \in Seq(OutFrames)
<1>1. BodyFrames(b, p) \in Seq(OutFrames)
  BY SyncAssumption, OutTypes, 0 \in 0..MaxPos DEF BodyFrames
<1>2. <<OutFrame("sync_ack", p, NoBody)>> \in Seq(OutFrames)
  BY OutTypes
<1> QED BY <1>1, <1>2

LEMMA DumpsType ==
    ASSUME dumps \in Seq(Snapshots), dumps # <<>>
    PROVE  Head(dumps).snap \subseteq KeyPos /\ Tail(dumps) \in Seq(Snapshots)
<1>1. Head(dumps) \in Snapshots /\ Tail(dumps) \in Seq(Snapshots)
  OBVIOUS
<1> QED BY <1>1 DEF Snapshots

LEMMA DumpTaken ==
    ASSUME dumps \in Seq(Snapshots), ram \subseteq KeyPos, NEW by \in {"flush", "timer"}
    PROVE  Append(dumps, [by |-> by, snap |-> ram]) \in Seq(Snapshots)
<1>1. [by |-> by, snap |-> ram] \in Snapshots
  BY DEF Snapshots
<1> QED BY <1>1, AppendProperties

LEMMA QueueHeadType ==
    ASSUME NEW s \in Seq(InFrames), s # <<>>
    PROVE  /\ Head(s) \in InFrames
           /\ Tail(s) \in Seq(InFrames)
           /\ KeysOf(Head(s)) \subseteq KeyPos
<1>1. Head(s) \in InFrames /\ Tail(s) \in Seq(InFrames)
  OBVIOUS
<1> QED BY <1>1 DEF InFrames, KeysOf

LEMMA KeysOfType ==
    ASSUME NEW f \in InFrames
    PROVE  KeysOf(f) \subseteq KeyPos /\ f.pos \in 0..MaxPos /\ f.keys \in BOOLEAN
BY DEF KeysOf, InFrames

LEMMA NextSyncFrameType ==
    ASSUME NEW pend \in InFrames, queue \in Seq(InFrames), held \in InFrames,
           NextSyncFrame(pend)
    PROVE  /\ sdk' \in {"wait", "ready"}
           /\ queue' \in Seq(InFrames)
           /\ pendingAck' \in InFrames /\ held' \in InFrames
           /\ Overwritten(pend) \subseteq KeyPos
<1>1. CASE queue = <<>>
  BY <1>1, Zenon DEF NextSyncFrame, Overwritten
<1>2. CASE queue # <<>>
  BY <1>2, QueueHeadType, KeysOfType DEF NextSyncFrame, Overwritten
<1> QED BY <1>1, <1>2

LEMMA TypeInit == Init => TypeOK
<1> SUFFICES ASSUME Init PROVE TypeOK
  OBVIOUS
<1>1. SocketType
  BY FrameTypes, EmptySeq DEF Init, SocketType
<1>2. TransportType
  BY FrameTypes, EmptySeq DEF Init, TransportType
<1>3. StoreType
  BY FrameTypes, EmptySeq DEF Init, StoreType
<1>4. GatewayType
  BY FrameTypes, EmptySeq DEF Init, GatewayType
<1>5. HistoryType
  BY FrameTypes, EmptySeq DEF Init, HistoryType
<1> QED BY <1>1, <1>2, <1>3, <1>4, <1>5 DEF TypeOK

LEMMA TypeStep == TypeOK /\ [Next]_vars => TypeOK'
<1> SUFFICES ASSUME TypeOK, [Next]_vars
             PROVE  TypeOK'
  OBVIOUS
<1> USE DEF TypeOK, SocketType, TransportType, StoreType, GatewayType, HistoryType
<1>1. CASE OpenSocket
  BY <1>1 DEF OpenSocket, socketVars, sdkVars, fileVars, gwVars, histVars, counters
<1>2. CASE SocketOpens
  BY <1>2, SyncAssumption, OutTypes, 0 \in 0..MaxPos DEF SocketOpens, socketVars, sdkVars, fileVars, gwVars, histVars, counters
<1>3. CASE SocketCloses
  <2>1. sdk' \in {"boot", "stuck", "ready", "flush", "wait"}
    BY <1>3 DEF SocketCloses
  <2>2. forfeited' \subseteq KeyPos
    BY <1>3, KeysOfType DEF SocketCloses
  <2>3. SocketType' /\ GatewayType'
    BY <1>3, FrameTypes, EmptySeq DEF SocketCloses
  <2>4. TransportType'
    BY <1>3, <2>1, FrameTypes DEF SocketCloses
  <2>5. StoreType' /\ HistoryType'
    BY <1>3, <2>2 DEF SocketCloses, fileVars
  <2> QED
    BY <2>3, <2>4, <2>5
<1>4. CASE ReceiveAuthOk
  <2>1. outbox' \in Seq(OutFrames)
    <3>1. CASE lastBody = NoBody
      BY <1>4, <3>1 DEF ReceiveAuthOk, Send
    <3>2. CASE lastBody # NoBody
      BY <1>4, <3>2, OutTypes DEF ReceiveAuthOk, Send
    <3> QED BY <3>1, <3>2
  <2> QED
    BY <1>4, <2>1 DEF ReceiveAuthOk, fileVars, gwVars, histVars, counters
<1>5. CASE ReceiveReauth
  BY <1>5, OutTypes, SendTypes, QueueHeadType, SyncAssumption, 0 \in 0..MaxPos DEF ReceiveReauth, socketVars, sdkVars, fileVars, gwVars, histVars, counters
<1>6. CASE ReceiveSyncWaiting
  BY <1>6, QueueHeadType, KeysOfType DEF ReceiveSyncWaiting, socketVars, sdkVars, fileVars, gwVars, histVars, counters
<1>7. CASE ReceiveSyncBuffered
  <2>1. Head(inbox) \in InFrames /\ Append(queue, Head(inbox)) \in Seq(InFrames)
    BY <1>7 DEF ReceiveSyncBuffered
  <2>2. queue' \in Seq(InFrames)
    <3>1. Append(queue, Head(inbox)) # <<>>
      BY <2>1, AppendProperties
    <3>2. Tail(Append(queue, Head(inbox))) \in Seq(InFrames)
      BY <2>1, <3>1
    <3> QED BY <1>7, <2>1, <3>2 DEF ReceiveSyncBuffered
  <2>3. dropped' \subseteq 0..MaxPos /\ forfeited' \subseteq KeyPos
    <3>1. CASE Len(queue) < QueueCap
      BY <1>7, <3>1 DEF ReceiveSyncBuffered
    <3>2. CASE ~ (Len(queue) < QueueCap)
      <4>1. queue # <<>>
        BY <3>2, SyncAssumption
      <4>2. Head(queue) \in InFrames
        BY <4>1
      <4>3. Head(queue).pos \in 0..MaxPos /\ KeysOf(Head(queue)) \subseteq KeyPos
        BY <4>2, KeysOfType
      <4>4. /\ dropped' = dropped \cup {Head(queue).pos}
            /\ forfeited' = forfeited \cup KeysOf(Head(queue))
        BY <1>7, <3>2 DEF ReceiveSyncBuffered
      <4> QED BY <4>3, <4>4
    <3> QED BY <3>1, <3>2
  <2> QED
    BY <1>7, <2>2, <2>3 DEF ReceiveSyncBuffered, socketVars, sdkVars, fileVars,
                           gwVars, counters
<1>8. CASE RequestWithoutAck
  BY <1>8, SendTypes, BodyFramesType, NextSyncFrameType DEF RequestWithoutAck, socketVars, sdkVars, fileVars, gwVars, histVars, counters, SdkCalls
<1>9. CASE RequestWithAck
  BY <1>9, SendTypes, BodyFramesType, NextSyncFrameType, FrameTypes, KeysOfType DEF RequestWithAck, socketVars, sdkVars, fileVars, gwVars, histVars, counters, PersistAckedPos, SdkCalls
<1>10. CASE RequestWithFlush
  BY <1>10, FrameTypes, DumpTaken DEF RequestWithFlush, socketVars, sdkVars, fileVars, gwVars, histVars, counters, SdkCalls
<1>11. CASE FlushReturns
  <2>1. Head(dumps).snap \subseteq KeyPos /\ dumps' \in Seq(Snapshots)
    BY <1>11, DumpsType DEF FlushReturns
  <2>2. disk' \subseteq KeyPos /\ forfeited' \subseteq KeyPos
    BY <1>11, <2>1, KeysOfType, NextSyncFrameType DEF FlushReturns, WriteSnapshot
  <2>3. ackedPos' \in 0..MaxPos /\ posFile' \in 0..MaxPos
    BY <1>11, KeysOfType DEF FlushReturns, PersistAckedPos
  <2>4. outbox' \in Seq(OutFrames) /\ lastBody' \in Bodies
    BY <1>11, KeysOfType, SendTypes, BodyFramesType DEF FlushReturns
  <2> QED
    BY <1>11, <2>1, <2>2, <2>3, <2>4, NextSyncFrameType, FrameTypes
    DEF FlushReturns, socketVars, gwVars, counters
<1>12. CASE WaitEnds
  BY <1>12 DEF WaitEnds, socketVars, sdkVars, fileVars, gwVars, histVars, counters
<1>13. CASE SdkProcesses
  BY <1>13, FrameTypes, KeysOfType DEF SdkProcesses, socketVars, sdkVars, fileVars, gwVars, histVars, counters
<1>14. CASE PersistTimerFires
  BY <1>14, DumpTaken DEF PersistTimerFires, socketVars, sdkVars, fileVars, gwVars, histVars, counters
<1>15. CASE PersistTimerReturns
  <2>1. Head(dumps).snap \subseteq KeyPos /\ dumps' \in Seq(Snapshots)
    BY <1>15, DumpsType DEF PersistTimerReturns
  <2> QED
    BY <1>15, <2>1 DEF PersistTimerReturns, WriteSnapshot, socketVars,
                       sdkVars, gwVars, histVars, counters
<1>16. CASE CrashAndRestart
  <2>1. SocketType' /\ GatewayType'
    BY <1>16, FrameTypes, EmptySeq DEF CrashAndRestart
  <2>2. TransportType'
    BY <1>16, FrameTypes, EmptySeq DEF CrashAndRestart
  <2>3. StoreType' /\ HistoryType'
    <3>1. ram' \subseteq KeyPos /\ missed' \subseteq KeyPos
      BY <1>16 DEF CrashAndRestart
    <3>2. StoreType'
      BY <1>16, <3>1, EmptySeq DEF CrashAndRestart
    <3>3. forfeited' \subseteq KeyPos
      BY <1>16, <3>1 DEF CrashAndRestart
    <3>4. base' \in 0..MaxPos /\ applied' = {} /\ dropped' = {}
      BY <1>16, FrameTypes DEF CrashAndRestart
    <3>5. drops' \in Nat /\ crashes' \in Nat /\ reauths' \in Nat
      BY <1>16 DEF CrashAndRestart
    <3> QED BY <3>1, <3>2, <3>3, <3>4, <3>5
  <2> QED
    BY <2>1, <2>2, <2>3
<1>17. CASE GatewayReceives
  <2> DEFINE f == Head(outbox)
  <2>1. f \in OutFrames /\ outbox' \in Seq(OutFrames)
    BY <1>17 DEF GatewayReceives
  <2>2. inbox' \in Seq(InFrames)
    <3>1. Append(inbox, Control("auth_ok")) \in Seq(InFrames)
      BY FrameTypes, AppendProperties
    <3> QED BY <1>17, <3>1 DEF GatewayReceives
  <2>3. f.pos \in 0..MaxPos /\ f.body \in Bodies \cup {NoBody}
    BY <2>1 DEF OutFrames
  <2>4. /\ cursor' \in 0..NoStream /\ released' \in 0..MaxPos
        /\ gwBody' \in Bodies \cup {NoBody}
    BY <1>17, <2>3, FrameTypes DEF GatewayReceives
  <2> QED
    BY <1>17, <2>1, <2>2, <2>4 DEF GatewayReceives, socketVars, sdkVars,
                                   fileVars, histVars, counters
<1>18. CASE GatewayPushes
  <2>1. cursor + 1 \in 0..MaxPos /\ cursor' \in 0..NoStream
    BY <1>18, SyncAssumption DEF GatewayPushes, NoStream
  <2>2. inbox' \in Seq(InFrames)
    BY <1>18, <2>1, FrameTypes, AppendProperties DEF GatewayPushes
  <2> QED
    BY <1>18, <2>1, <2>2 DEF GatewayPushes, socketVars, sdkVars, fileVars,
                             histVars, counters
<1>19. CASE GatewayReauths
  BY <1>19, FrameTypes DEF GatewayReauths, socketVars, sdkVars, fileVars, gwVars, histVars, counters
<1>20. CASE UNCHANGED vars
  BY <1>20 DEF vars
<1> QED
  BY <1>1, <1>2, <1>3, <1>4, <1>5, <1>6, <1>7, <1>8, <1>9, <1>10, <1>11, <1>12, <1>13, <1>14, <1>15, <1>16, <1>17, <1>18, <1>19, <1>20 DEF Next

\* Every variable keeps its type: the positions stay within the stream and
\* keys are only ever noted for the positions that carry them.
THEOREM TypeCorrect == Spec => []TypeOK
<1>1. Init => TypeOK
  BY TypeInit
<1>2. TypeOK /\ [Next]_vars => TypeOK'
  BY TypeStep
<1> QED BY <1>1, <1>2, PTL DEF Spec

-----------------------------------------------------------------------------
(* Lemmas about Gapless and KeysIn *)

LEMMA KeysInAppend ==
    ASSUME NEW s \in Seq(InFrames), NEW f \in InFrames
    PROVE  KeysIn(Append(s, f)) = KeysIn(s) \cup KeysOf(f)
<1> DEFINE t == Append(s, f)
<1>1. /\ Len(t) = Len(s) + 1 /\ Len(s) \in Nat
      /\ \A i \in 1..Len(s) : t[i] = s[i]
      /\ t[Len(s) + 1] = f
  BY AppendProperties, LenProperties
<1>2. KeysIn(t) \subseteq KeysIn(s) \cup KeysOf(f)
  BY <1>1 DEF KeysIn, KeysOf
<1>3. KeysIn(s) \subseteq KeysIn(t)
  BY <1>1 DEF KeysIn
<1>4. KeysOf(f) \subseteq KeysIn(t)
  <2>1. Len(s) + 1 \in 1..Len(t)
    BY <1>1
  <2> QED BY <1>1, <2>1, KeysOfType DEF KeysIn, KeysOf
<1> QED BY <1>2, <1>3, <1>4

LEMMA KeysInHeadTail ==
    ASSUME NEW s \in Seq(InFrames), s # <<>>
    PROVE  KeysIn(s) = KeysOf(Head(s)) \cup KeysIn(Tail(s))
<1>1. /\ Len(Tail(s)) = Len(s) - 1 /\ Len(s) \in Nat \ {0}
      /\ Head(s) = s[1] /\ Head(s) \in InFrames
      /\ \A i \in 1..Len(Tail(s)) : Tail(s)[i] = s[i + 1]
  BY HeadTailProperties, LenProperties, EmptySeq
<1>2. KeysIn(s) \subseteq KeysOf(Head(s)) \cup KeysIn(Tail(s))
  <2> SUFFICES ASSUME NEW k \in KeyPos, NEW j \in 1..Len(s), s[j].keys, s[j].pos = k
               PROVE  k \in KeysOf(Head(s)) \cup KeysIn(Tail(s))
    BY DEF KeysIn
  <2>1. CASE j = 1
    BY <1>1, <2>1 DEF KeysOf
  <2>2. CASE j # 1
    <3>1. j - 1 \in 1..Len(Tail(s)) /\ Tail(s)[j - 1] = s[j]
      BY <1>1, <2>2
    <3> QED BY <3>1 DEF KeysIn
  <2> QED BY <2>1, <2>2
<1>3. KeysOf(Head(s)) \subseteq KeysIn(s)
  <2>1. 1 \in 1..Len(s)
    BY <1>1
  <2> QED BY <1>1, <2>1, KeysOfType DEF KeysIn, KeysOf
<1>4. KeysIn(Tail(s)) \subseteq KeysIn(s)
  <2>1. \A i \in 1..Len(Tail(s)) : i + 1 \in 1..Len(s)
    BY <1>1
  <2> QED BY <1>1, <2>1 DEF KeysIn
<1> QED BY <1>2, <1>3, <1>4

LEMMA KeysInEmpty == KeysIn(<<>>) = {}
BY EmptySeq DEF KeysIn

LEMMA GaplessMono ==
    ASSUME NEW s, NEW C, NEW D, Gapless(s, C), C \subseteq D
    PROVE  Gapless(s, D)
BY DEF Gapless

LEMMA GaplessEmpty ==
    ASSUME NEW C PROVE Gapless(<<>>, C)
BY EmptySeq DEF Gapless

\* The first frame comes after keys of C only.
LEMMA GaplessHead ==
    ASSUME NEW s \in Seq(InFrames), s # <<>>, NEW C, Gapless(s, C),
           Head(s).t = "sync"
    PROVE  \A k \in KeyPos : k < Head(s).pos => k \in C
<1>1. 1 \in 1..Len(s) /\ Head(s) = s[1]
  BY LenProperties, EmptySeq
<1>2. ~ \E j \in 1..(1 - 1) : TRUE
  OBVIOUS
<1> QED BY <1>1, <1>2 DEF Gapless

LEMMA GaplessTail ==
    ASSUME NEW s \in Seq(InFrames), s # <<>>, NEW C, Gapless(s, C)
    PROVE  Gapless(Tail(s), C \cup KeysOf(Head(s)))
<1>1. /\ Len(Tail(s)) = Len(s) - 1 /\ Len(s) \in Nat \ {0}
      /\ Head(s) = s[1] /\ Head(s) \in InFrames
      /\ \A i \in 1..Len(Tail(s)) : Tail(s)[i] = s[i + 1]
  BY HeadTailProperties, LenProperties, EmptySeq
<1> SUFFICES ASSUME NEW i \in 1..Len(Tail(s)), NEW k \in KeyPos,
                    Tail(s)[i].t = "sync", k < Tail(s)[i].pos,
                    k \notin C \cup KeysOf(Head(s))
             PROVE  \E j \in 1..(i - 1) : Tail(s)[j].keys /\ Tail(s)[j].pos = k
  BY DEF Gapless
<1>2. i + 1 \in 1..Len(s) /\ Tail(s)[i] = s[i + 1]
  BY <1>1
<1>3. PICK j \in 1..((i + 1) - 1) : s[j].keys /\ s[j].pos = k
  BY <1>2 DEF Gapless
<1>4. j # 1
  BY <1>1, <1>3 DEF KeysOf
<1>5. j - 1 \in 1..(i - 1) /\ Tail(s)[j - 1] = s[j]
  BY <1>1, <1>3, <1>4
<1> QED BY <1>3, <1>5

LEMMA GaplessAppend ==
    ASSUME NEW s \in Seq(InFrames), NEW f \in InFrames, NEW C, Gapless(s, C),
           f.t = "sync" => \A k \in KeyPos : k < f.pos => k \in C \cup KeysIn(s)
    PROVE  Gapless(Append(s, f), C)
<1> DEFINE t == Append(s, f)
<1>1. /\ Len(t) = Len(s) + 1 /\ Len(s) \in Nat
      /\ \A i \in 1..Len(s) : t[i] = s[i]
      /\ t[Len(s) + 1] = f
  BY AppendProperties, LenProperties
<1> SUFFICES ASSUME NEW i \in 1..Len(t), NEW k \in KeyPos,
                    t[i].t = "sync", k < t[i].pos, k \notin C
             PROVE  \E j \in 1..(i - 1) : t[j].keys /\ t[j].pos = k
  BY DEF Gapless
<1>2. CASE i \in 1..Len(s)
  <2>1. PICK j \in 1..(i - 1) : s[j].keys /\ s[j].pos = k
    BY <1>1, <1>2 DEF Gapless
  <2>2. j \in 1..Len(s)
    BY <1>1, <1>2
  <2> QED BY <1>1, <2>1, <2>2
<1>3. CASE i = Len(s) + 1
  <2>1. k \in KeysIn(s)
    BY <1>1, <1>3
  <2>2. PICK j \in 1..Len(s) : s[j].keys /\ s[j].pos = k
    BY <2>1 DEF KeysIn
  <2> QED BY <1>1, <1>3, <2>2
<1> QED BY <1>1, <1>2, <1>3

-----------------------------------------------------------------------------
(* Lemmas about what is sent to the gateway *)

\* A frame that is no keyless sync frame at a key's position, or a safe one,
\* may follow frames of which that is known.
LEMMA FlaggedAppend ==
    ASSUME NEW s \in Seq(InFrames), NEW f \in InFrames, NEW C,
           \A i \in 1..Len(s) : Flagged(s[i], C),
           f.t # "sync" \/ Flagged(f, C)
    PROVE  \A i \in 1..Len(Append(s, f)) : Flagged(Append(s, f)[i], C)
<1> DEFINE a == Append(s, f)
<1>1. /\ Len(a) = Len(s) + 1 /\ Len(s) \in Nat
      /\ \A i \in 1..Len(s) : a[i] = s[i]
      /\ a[Len(s) + 1] = f
  BY AppendProperties, LenProperties
<1>2. Flagged(f, C)
  BY DEF Flagged
<1>3. \A i \in 1..Len(a) : i \in 1..Len(s) \/ i = Len(s) + 1
  BY <1>1
<1> QED BY <1>1, <1>2, <1>3

LEMMA AcksSafeMono ==
    ASSUME NEW s, NEW C, NEW D, AcksSafe(s, C), C \subseteq D
    PROVE  AcksSafe(s, D)
BY DEF AcksSafe

LEMMA AcksSafeTail ==
    ASSUME NEW s \in Seq(OutFrames), s # <<>>, NEW C, AcksSafe(s, C)
    PROVE  /\ AcksSafe(Tail(s), C)
           /\ Head(s).t \in {"sync_start", "sync_ack"} => KeysUpTo(Head(s).pos) \subseteq C
<1>1. /\ Len(Tail(s)) = Len(s) - 1 /\ Len(s) \in Nat \ {0}
      /\ Head(s) = s[1]
      /\ \A i \in 1..Len(Tail(s)) : Tail(s)[i] = s[i + 1]
  BY HeadTailProperties, LenProperties, EmptySeq
<1>2. 1 \in 1..Len(s) /\ \A i \in 1..Len(Tail(s)) : i + 1 \in 1..Len(s)
  BY <1>1
<1> QED BY <1>1, <1>2 DEF AcksSafe

LEMMA AcksSafeConcat ==
    ASSUME NEW s \in Seq(OutFrames), NEW u \in Seq(OutFrames), NEW C,
           AcksSafe(s, C), AcksSafe(u, C)
    PROVE  AcksSafe(s \o u, C)
<1>1. /\ Len(s \o u) = Len(s) + Len(u) /\ Len(s) \in Nat /\ Len(u) \in Nat
      /\ \A i \in 1..(Len(s) + Len(u)) :
             (s \o u)[i] = IF i <= Len(s) THEN s[i] ELSE u[i - Len(s)]
  BY ConcatProperties, LenProperties
<1> SUFFICES ASSUME NEW i \in 1..Len(s \o u),
                    (s \o u)[i].t \in {"sync_start", "sync_ack"}
             PROVE  KeysUpTo((s \o u)[i].pos) \subseteq C
  BY DEF AcksSafe
<1>2. CASE i <= Len(s)
  <2>1. i \in 1..Len(s) /\ (s \o u)[i] = s[i]
    BY <1>1, <1>2
  <2> QED BY <2>1 DEF AcksSafe
<1>3. CASE ~ (i <= Len(s))
  <2>1. i - Len(s) \in 1..Len(u) /\ (s \o u)[i] = u[i - Len(s)]
    BY <1>1, <1>3
  <2> QED BY <2>1 DEF AcksSafe
<1> QED BY <1>2, <1>3

\* A frame that acknowledges or resumes at p is safe if the keys up to p are.
LEMMA AcksSafeOne ==
    ASSUME NEW type, NEW p, NEW b, NEW C,
           type \in {"sync_start", "sync_ack"} => KeysUpTo(p) \subseteq C
    PROVE  AcksSafe(<<OutFrame(type, p, b)>>, C)
BY DEF AcksSafe, OutFrame

LEMMA AcksSafeBody ==
    ASSUME NEW b, NEW p, NEW C, KeysUpTo(p) \subseteq C
    PROVE  AcksSafe(BodyFrames(b, p), C)
<1>1. AcksSafe(<<>>, C)
  BY EmptySeq DEF AcksSafe
<1> QED BY <1>1, AcksSafeOne DEF BodyFrames

LEMMA AcksSafeSend ==
    ASSUME outbox \in Seq(OutFrames), AcksSafe(outbox, Safe), NEW s \in Seq(OutFrames),
           NEW C, Safe \subseteq C, AcksSafe(s, C), Send(s)
    PROVE  AcksSafe(outbox', C)
<1>1. AcksSafe(outbox, C)
  BY AcksSafeMono
<1> QED BY <1>1, AcksSafeConcat DEF Send

-----------------------------------------------------------------------------
(* Snapshots lose what was missed only, and nothing that is safe becomes unsafe *)

LEMMA ForfeitedGrows ==
    ASSUME MissedInv, [Next]_vars
    PROVE  forfeited \subseteq forfeited' /\ MissedInv'
<1>1. CASE CrashAndRestart
  BY <1>1 DEF CrashAndRestart, MissedInv
<1>2. CASE FlushReturns
  BY <1>2 DEF FlushReturns, MissedInv
<1>3. CASE ~CrashAndRestart /\ ~FlushReturns
  BY <1>3 DEF MissedInv, Next, vars, histVars, OpenSocket, SocketOpens, SocketCloses,
     ReceiveAuthOk, ReceiveReauth, ReceiveSyncWaiting, ReceiveSyncBuffered,
     RequestWithoutAck, RequestWithAck, RequestWithFlush, WaitEnds,
     SdkProcesses, PersistTimerFires, PersistTimerReturns,
     GatewayReceives, GatewayPushes, GatewayReauths
<1> QED BY <1>1, <1>2, <1>3

LEMMA SafeGrows ==
    ASSUME TypeOK, DumpInv, MissedInv, [Next]_vars
    PROVE  disk \ disk' \subseteq missed /\ Safe \subseteq Safe'
<1>1. disk \ disk' \subseteq missed
  <2>1. ASSUME dumps # <<>>, NEW ok \in BOOLEAN, WriteSnapshot(ok)
        PROVE  disk \ disk' \subseteq missed
    <3>1. 1 \in 1..Len(dumps) /\ Head(dumps) = dumps[1]
      BY <2>1, LenProperties, EmptySeq DEF TypeOK, StoreType
    <3> QED BY <2>1, <3>1 DEF DumpInv, WriteSnapshot
  <2>2. CASE FlushReturns
    BY <2>1, <2>2, SyncAssumption DEF FlushReturns
  <2>3. CASE PersistTimerReturns
    BY <2>1, <2>3, SyncAssumption DEF PersistTimerReturns
  <2>4. CASE ~FlushReturns /\ ~PersistTimerReturns
    <3>1. disk' = disk
      BY <2>4 DEF Next, vars, fileVars, OpenSocket, SocketOpens, SocketCloses,
         ReceiveAuthOk, ReceiveReauth, ReceiveSyncWaiting, ReceiveSyncBuffered,
         RequestWithoutAck, RequestWithAck, RequestWithFlush, WaitEnds,
         SdkProcesses, PersistTimerFires, CrashAndRestart, GatewayReceives,
         GatewayPushes, GatewayReauths
    <3> QED BY <3>1
  <2> QED BY <2>2, <2>3, <2>4
<1> QED BY <1>1, ForfeitedGrows DEF Safe, MissedInv

-----------------------------------------------------------------------------
(* What an action keeps by leaving variables alone *)

LEMMA StreamKept ==
    ASSUME StreamInv, Covered \subseteq Covered',
           UNCHANGED <<queue, inbox, cursor>>
    PROVE  StreamInv'
<1>1. Gapless(queue, Covered')
  BY GaplessMono DEF StreamInv
<1>2. Gapless(inbox, Covered' \cup KeysIn(queue))
  BY GaplessMono DEF StreamInv
<1> QED BY <1>1, <1>2 DEF StreamInv, KeysUpTo, KeysIn, Gapless

LEMMA FrameKept ==
    ASSUME FrameInv, Safe \subseteq Safe',
           UNCHANGED <<queue, inbox>>,
           pendingAck' \in {pendingAck, NoFrame}, flushing' \in {flushing, NoFrame}
    PROVE  FrameInv'
<1>1. \A C : Flagged(NoFrame, C)
  BY DEF Flagged, NoFrame, Control
<1>2. \A f : Flagged(f, Safe) => Flagged(f, Safe')
  BY DEF Flagged
<1> QED BY <1>1, <1>2 DEF FrameInv, Flagged

LEMMA AckKept ==
    ASSUME AckInv, Safe \subseteq Safe', outbox' = outbox,
           pendingAck' \in {pendingAck, NoFrame}, flushing' \in {flushing, NoFrame}
    PROVE  AckInv'
<1>1. AcksSafe(outbox', Safe')
  BY AcksSafeMono DEF AckInv
<1>2. \A k \in KeyPos : ~(k < NoFrame.pos)
  BY SyncAssumption DEF NoFrame, Control
<1> QED BY <1>1, <1>2 DEF AckInv, AcksSafe, KeysUpTo

LEMMA CustodyKept ==
    ASSUME Custody, ResumePointSafe, Safe \subseteq Safe',
           UNCHANGED <<released, ackedPos, posFile>>
    PROVE  Custody' /\ ResumePointSafe'
BY DEF Custody, ResumePointSafe, KeysUpTo

LEMMA DumpKept ==
    ASSUME DumpInv, ram \subseteq ram', UNCHANGED <<disk, dumps, flushing, missed>>,
           sdk = "flush" => sdk' = "flush"
    PROVE  DumpInv'
BY DEF DumpInv

\* persistIdbToDisk starts: the new dump has everything the older ones have.
LEMMA DumpAppend ==
    ASSUME TypeOK, DumpInv, NEW by \in {"flush", "timer"},
           dumps' = Append(dumps, [by |-> by, snap |-> ram]),
           UNCHANGED <<ram, disk, missed>>,
           by = "timer" => UNCHANGED <<sdk, flushing>>,
           by = "flush" => /\ sdk # "flush" /\ sdk' = "flush"
                           /\ flushing'.keys /\ flushing'.pos \in ram
    PROVE  DumpInv'
<1>1. /\ Len(dumps') = Len(dumps) + 1 /\ Len(dumps) \in Nat
      /\ \A i \in 1..Len(dumps) : dumps'[i] = dumps[i]
      /\ dumps'[Len(dumps) + 1] = [by |-> by, snap |-> ram]
  <2>1. [by |-> by, snap |-> ram] \in Snapshots /\ dumps \in Seq(Snapshots)
    BY DEF Snapshots, TypeOK, StoreType
  <2> QED BY <2>1, AppendProperties, LenProperties
<1>2. \A i \in 1..Len(dumps') : i \in 1..Len(dumps) \/ i = Len(dumps) + 1
  BY <1>1
<1>3. by = "flush" => \A i \in 1..Len(dumps) : dumps[i].by # "flush"
  BY DEF DumpInv
<1>4. \A i \in 1..Len(dumps') :
          /\ disk' \subseteq dumps'[i].snap \cup missed' /\ dumps'[i].snap \subseteq ram'
          /\ dumps'[i].by = "flush" =>
                sdk' = "flush" /\ flushing'.keys /\ flushing'.pos \in dumps'[i].snap
  BY <1>1, <1>2, <1>3 DEF DumpInv
<1>5. \A i, j \in 1..Len(dumps') : i <= j => dumps'[i].snap \subseteq dumps'[j].snap
  <2> SUFFICES ASSUME NEW i \in 1..Len(dumps'), NEW j \in 1..Len(dumps'), i <= j
               PROVE  dumps'[i].snap \subseteq dumps'[j].snap
    OBVIOUS
  <2>1. CASE j \in 1..Len(dumps)
    <3>1. i \in 1..Len(dumps)
      BY <1>1, <2>1
    <3> QED BY <1>1, <2>1, <3>1 DEF DumpInv
  <2>2. CASE j = Len(dumps) + 1
    BY <1>1, <1>4, <2>2
  <2> QED BY <1>2, <2>1, <2>2
<1>6. \A i, j \in 1..Len(dumps') :
          dumps'[i].by = "flush" /\ dumps'[j].by = "flush" => i = j
  <2>1. CASE by = "flush"
    BY <1>1, <1>2, <1>3, <2>1
  <2>2. CASE by = "timer"
    BY <1>1, <1>2, <2>2 DEF DumpInv
  <2> QED BY <2>1, <2>2
<1> QED BY <1>4, <1>5, <1>6 DEF DumpInv

\* persistIdbToDisk returns: what it wrote, or did not write, is below the rest.
LEMMA DumpReturn ==
    ASSUME TypeOK, DumpInv, dumps # <<>>, dumps' = Tail(dumps),
           UNCHANGED <<ram, missed>>, NEW ok \in BOOLEAN, WriteSnapshot(ok),
           \A i \in 1..Len(Tail(dumps)) :
               Tail(dumps)[i].by = "flush" => UNCHANGED <<sdk, flushing>>
    PROVE  DumpInv'
<1>1. /\ Len(Tail(dumps)) = Len(dumps) - 1 /\ Len(dumps) \in Nat \ {0}
      /\ Head(dumps) = dumps[1]
      /\ \A i \in 1..Len(Tail(dumps)) : Tail(dumps)[i] = dumps[i + 1]
  BY HeadTailProperties, LenProperties, EmptySeq DEF TypeOK, StoreType
<1>2. /\ 1 \in 1..Len(dumps)
      /\ \A i \in 1..Len(Tail(dumps)) : i + 1 \in 1..Len(dumps) /\ 1 <= i + 1
  BY <1>1
<1>3. disk' \subseteq dumps[1].snap \cup missed
  BY <1>1, <1>2 DEF WriteSnapshot, DumpInv
<1>4. disk' \subseteq ram' \cup missed'
  BY <1>2, <1>3 DEF DumpInv
<1>5. \A i \in 1..Len(dumps') :
          /\ disk' \subseteq dumps'[i].snap \cup missed' /\ dumps'[i].snap \subseteq ram'
          /\ dumps'[i].by = "flush" =>
                sdk' = "flush" /\ flushing'.keys /\ flushing'.pos \in dumps'[i].snap
  <2> SUFFICES ASSUME NEW i \in 1..Len(Tail(dumps))
               PROVE  /\ disk' \subseteq dumps[i + 1].snap \cup missed
                      /\ dumps[i + 1].snap \subseteq ram
                      /\ dumps[i + 1].by = "flush" =>
                            sdk' = "flush" /\ flushing'.keys
                            /\ flushing'.pos \in dumps[i + 1].snap
    BY <1>1
  <2>1. dumps[1].snap \subseteq dumps[i + 1].snap
    BY <1>2 DEF DumpInv
  <2> QED BY <1>1, <1>2, <1>3, <2>1 DEF DumpInv
<1>6. \A i, j \in 1..Len(dumps') :
          /\ i <= j => dumps'[i].snap \subseteq dumps'[j].snap
          /\ dumps'[i].by = "flush" /\ dumps'[j].by = "flush" => i = j
  BY <1>1, <1>2 DEF DumpInv
<1> QED BY <1>4, <1>5, <1>6 DEF DumpInv

\* nextSyncFrame, after the pending frame was dealt with: everything covered so
\* far is safe or is `pend`, which stays pending if nothing is served.
LEMMA Serve ==
    ASSUME TypeOK, StreamInv, FrameInv, SdkInv, Safe \subseteq Safe',
           NEW pend \in InFrames, NextSyncFrame(pend),
           pend.keys => pend.pos \in ram \/ held = pend,
           Flagged(pend, Safe'), pend # NoFrame => pend.t = "sync",
           \A k \in KeyPos : k < pend.pos => k \in Safe',
           Covered \subseteq Safe' \cup KeysOf(pend), Overwritten(pend) \subseteq Safe',
           flushing' = NoFrame, UNCHANGED <<ram, inbox, cursor>>
    PROVE  /\ SdkInv' /\ StreamInv' /\ FrameInv'
           /\ \A k \in KeyPos : k < pendingAck'.pos => k \in Safe'
<1>1. KeysOf(NoFrame) = {} /\ Flagged(NoFrame, Safe')
  BY DEF KeysOf, NoFrame, Control, Flagged
<1>2. \A f : Flagged(f, Safe) => Flagged(f, Safe')
  BY DEF Flagged
<1>3. CASE queue = <<>>
  <2>1. sdk' = "wait" /\ pendingAck' = pend /\ queue' = queue /\ held' = held
    BY <1>3 DEF NextSyncFrame
  <2>2. Covered \subseteq Covered'
    BY <1>1, <2>1 DEF Covered
  <2>3. StreamInv'
    BY <2>1, <2>2, StreamKept
  <2>4. FrameInv'
    BY <1>1, <1>2, <2>1 DEF FrameInv
  <2>5. SdkInv'
    BY <1>3, <2>1 DEF SdkInv
  <2> QED BY <2>1, <2>3, <2>4, <2>5
<1>4. CASE queue # <<>>
  <2>1. /\ sdk' = "ready" /\ pendingAck' = Head(queue) /\ held' = Head(queue)
        /\ queue' = Tail(queue)
    BY <1>4 DEF NextSyncFrame
  <2>2. queue \in Seq(InFrames) /\ 1 \in 1..Len(queue) /\ Head(queue) = queue[1]
    BY <1>4, LenProperties, EmptySeq DEF TypeOK, TransportType
  <2>3. Head(queue).t = "sync" /\ Flagged(Head(queue), Safe')
    BY <1>2, <2>2 DEF FrameInv
  <2>4. Covered \subseteq Safe'
    BY <1>4 DEF Overwritten
  <2>5. Covered' = Safe' \cup KeysOf(Head(queue))
    BY <1>1, <2>1 DEF Covered
  <2>6. \A k \in KeyPos : k < pendingAck'.pos => k \in Safe'
    BY <1>4, <2>1, <2>2, <2>3, <2>4, GaplessHead DEF StreamInv
  <2>7. Gapless(queue', Covered')
    <3>1. Gapless(Tail(queue), Covered \cup KeysOf(Head(queue)))
      BY <1>4, <2>2, GaplessTail DEF StreamInv
    <3> QED BY <2>1, <2>4, <2>5, <3>1, GaplessMono
  <2>8. Covered \cup KeysIn(queue) \subseteq Covered' \cup KeysIn(queue')
    BY <1>4, <2>1, <2>2, <2>4, <2>5, KeysInHeadTail
  <2>9. Gapless(inbox', Covered' \cup KeysIn(queue'))
    BY <2>8, GaplessMono DEF StreamInv
  <2>10. cursor' # NoStream =>
             KeysUpTo(cursor') \subseteq Covered' \cup KeysIn(queue') \cup KeysIn(inbox')
    BY <2>8 DEF StreamInv
  <2>11. StreamInv'
    BY <2>7, <2>9, <2>10 DEF StreamInv, KeysUpTo, KeysIn, Gapless
  <2>12. FrameInv'
    <3>1. \A i \in 1..Len(queue') : i + 1 \in 1..Len(queue) /\ queue'[i] = queue[i + 1]
      BY <1>4, <2>1, <2>2, HeadTailProperties, LenProperties
    <3> QED BY <1>1, <1>2, <2>1, <2>3, <3>1 DEF FrameInv
  <2>13. SdkInv'
    BY <1>4, <2>1 DEF SdkInv
  <2> QED BY <2>6, <2>11, <2>12, <2>13
<1> QED BY <1>3, <1>4

\* Receiving a control frame takes nothing out of the stream.
LEMMA InboxPop ==
    ASSUME TypeOK, StreamInv, FrameInv, Safe \subseteq Safe', inbox # <<>>,
           Head(inbox).t \in {"auth_ok", "reauth"}, inbox' = Tail(inbox),
           UNCHANGED <<queue, pendingAck, flushing, cursor>>
    PROVE  StreamInv' /\ FrameInv'
<1>1. inbox \in Seq(InFrames) /\ Head(inbox) \in InFrames
  BY HeadTailProperties DEF TypeOK, SocketType
<1>2. KeysOf(Head(inbox)) = {}
  BY <1>1 DEF InFrames, KeysOf
<1>3. Covered \subseteq Covered'
  BY DEF Covered, KeysOf
<1>4. Gapless(queue', Covered')
  BY <1>3, GaplessMono DEF StreamInv
<1>5. Gapless(inbox', Covered' \cup KeysIn(queue'))
  <2>1. Gapless(Tail(inbox), Covered \cup KeysIn(queue) \cup KeysOf(Head(inbox)))
    BY <1>1, GaplessTail DEF StreamInv
  <2> QED BY <1>2, <1>3, <2>1, GaplessMono
<1>6. KeysIn(inbox') = KeysIn(inbox)
  BY <1>1, <1>2, KeysInHeadTail
<1>7. StreamInv'
  BY <1>3, <1>4, <1>5, <1>6 DEF StreamInv, KeysUpTo, KeysIn, Gapless
<1>8. FrameInv'
  <2>1. \A i \in 1..Len(inbox') : i + 1 \in 1..Len(inbox) /\ inbox'[i] = inbox[i + 1]
    BY <1>1, HeadTailProperties, LenProperties
  <2>2. \A f : Flagged(f, Safe) => Flagged(f, Safe')
    BY DEF Flagged
  <2> QED BY <2>1, <2>2 DEF FrameInv
<1> QED BY <1>7, <1>8

-----------------------------------------------------------------------------
(* The inductive step *)

LEMMA IInvInit == Init => IInv
<1> SUFFICES ASSUME Init PROVE IInv
  OBVIOUS
<1>1. TypeOK
  BY TypeInit
<1>2. \A k \in KeyPos : ~(k <= 0)
  BY SyncAssumption
<1>3. Len(<<>>) = 0
  BY EmptySeq
<1>4. SdkInv /\ DumpInv /\ MissedInv
  BY <1>3 DEF Init, SdkInv, DumpInv, MissedInv, NoFrame, Control
<1>5. StreamInv
  BY GaplessEmpty DEF Init, StreamInv
<1>6. FrameInv
  BY <1>3 DEF Init, FrameInv, Flagged, NoFrame, Control
<1>7. AckInv
  BY <1>2, <1>3, SyncAssumption DEF Init, AckInv, AcksSafe, NoFrame, Control
<1>8. Custody /\ ResumePointSafe
  BY <1>2 DEF Init, Custody, ResumePointSafe, KeysUpTo
<1> QED BY <1>1, <1>4, <1>5, <1>6, <1>7, <1>8 DEF IInv

LEMMA IInvStep == IInv /\ [Next]_vars => IInv'
<1> SUFFICES ASSUME IInv, [Next]_vars
             PROVE  IInv'
  OBVIOUS
<1> USE DEF IInv
<1>1. TypeOK'
  BY TypeStep
<1>2. Safe \subseteq Safe' /\ forfeited \subseteq forfeited' /\ MissedInv'
  BY SafeGrows, ForfeitedGrows
<1>3. KeysOf(NoFrame) = {} /\ \A k \in KeyPos : ~(k < NoFrame.pos)
  BY SyncAssumption DEF KeysOf, NoFrame, Control
<1>4. \A f, C, D : Flagged(f, C) /\ C \subseteq D => Flagged(f, D)
  BY DEF Flagged
<1>5. \A C : Flagged(NoFrame, C) /\ ~NoFrame.keys
  BY DEF Flagged, NoFrame, Control
<1> USE <1>1
<1>6. CASE OpenSocket
  <2>1. Covered \subseteq Covered'
    BY <1>2, <1>6 DEF OpenSocket, Covered, KeysOf
  <2> QED
    BY <1>2, <1>6, <2>1, StreamKept, FrameKept, AckKept, CustodyKept, DumpKept
    DEF OpenSocket, SdkInv, sdkVars, fileVars, gwVars, histVars
<1>7. CASE SocketOpens
  <2>1. Covered \subseteq Covered'
    BY <1>2, <1>7 DEF SocketOpens, Covered, KeysOf
  <2>2. AcksSafe(outbox', Safe')
    BY <1>7, AcksSafeOne DEF SocketOpens
  <2>3. AckInv'
    BY <1>2, <1>7, <2>2 DEF SocketOpens, AckInv
  <2> QED
    BY <1>2, <1>7, <2>1, <2>3, StreamKept, FrameKept, CustodyKept, DumpKept
    DEF SocketOpens, SdkInv, sdkVars, fileVars, gwVars, histVars
<1>8. CASE SocketCloses
  <2> USE DEF SocketCloses
  <2>1. pendingAck' = NoFrame /\ queue' = queue /\ flushing' = flushing
    BY <1>8
  <2>2. SdkInv'
    <3>1. sdk' # "wait" /\ (sdk # "flush" <=> sdk' # "flush")
      BY <1>8
    <3> QED BY <1>5, <1>8, <2>1, <3>1 DEF SdkInv
  <2>3. DumpInv'
    BY <1>8, DumpKept DEF fileVars
  <2>4. StreamInv'
    <3>1. CASE queue = <<>>
      BY <1>8, <2>1, <3>1, GaplessEmpty DEF StreamInv
    <3>2. CASE queue # <<>>
      <4>1. KeysOf(pendingAck) \subseteq Safe'
        BY <1>8, <3>2 DEF Safe
      <4>2. Covered \subseteq Covered'
        BY <1>2, <2>1, <4>1 DEF Covered
      <4>3. Gapless(queue', Covered')
        BY <2>1, <4>2, GaplessMono DEF StreamInv
      <4> QED BY <1>8, <4>3, GaplessEmpty DEF StreamInv
    <3> QED BY <3>1, <3>2
  <2>5. FrameInv'
    <3>1. Len(inbox') = 0
      BY <1>8, EmptySeq
    <3> QED BY <1>2, <1>4, <1>5, <1>8, <3>1 DEF FrameInv
  <2>6. AckInv'
    <3>1. AcksSafe(outbox', Safe')
      BY <1>8, EmptySeq DEF AcksSafe
    <3> QED BY <1>2, <1>3, <1>8, <3>1 DEF AckInv
  <2> QED
    BY <1>2, <1>8, <2>2, <2>3, <2>4, <2>5, <2>6, CustodyKept
<1>9. CASE ReceiveAuthOk
  <2> USE DEF ReceiveAuthOk
  <2> DEFINE sent == IF lastBody = NoBody THEN <<>>
                     ELSE <<OutFrame("sync_start", ackedPos, lastBody)>>
  <2>1. StreamInv' /\ FrameInv'
    BY <1>2, <1>9, InboxPop DEF histVars, gwVars
  <2>2. SdkInv'
    BY <1>9 DEF SdkInv, fileVars
  <2>3. DumpInv'
    BY <1>9, DumpKept DEF fileVars, histVars
  <2>4. AckInv'
    <3>1. sent \in Seq(OutFrames)
      BY OutTypes, EmptySeq DEF TypeOK, TransportType
    <3>2. AcksSafe(sent, Safe')
      BY <1>2, AcksSafeOne, EmptySeq DEF ResumePointSafe, AcksSafe
    <3>3. AcksSafe(outbox', Safe')
      BY <1>2, <1>9, <3>1, <3>2, AcksSafeSend DEF TypeOK, SocketType, AckInv
    <3> QED BY <1>2, <1>9, <3>3 DEF AckInv
  <2> QED
    BY <1>2, <1>9, <2>1, <2>2, <2>3, <2>4, CustodyKept DEF gwVars
<1>10. CASE ReceiveReauth
  <2> USE DEF ReceiveReauth
  <2>1. StreamInv' /\ FrameInv'
    BY <1>2, <1>10, InboxPop DEF histVars, gwVars
  <2>2. SdkInv' /\ DumpInv'
    BY <1>10, DumpKept DEF SdkInv, fileVars, sdkVars, histVars
  <2>3. AckInv'
    <3>1. AcksSafe(<<OutFrame("auth", 0, NoBody)>>, Safe')
      BY AcksSafeOne
    <3>2. AcksSafe(outbox', Safe')
      BY <1>2, <1>10, <3>1, FrameTypes, OutTypes, AcksSafeSend DEF TypeOK, SocketType, AckInv
    <3> QED BY <1>2, <1>10, <3>2 DEF AckInv
  <2> QED
    BY <1>2, <1>10, <2>1, <2>2, <2>3, CustodyKept DEF gwVars
<1>11. CASE ReceiveSyncWaiting
  <2> USE DEF ReceiveSyncWaiting
  <2> DEFINE f == Head(inbox)
  <2>1. inbox \in Seq(InFrames) /\ inbox # <<>> /\ f \in InFrames /\ f.t = "sync"
    BY <1>11, HeadTailProperties DEF TypeOK, SocketType
  <2>2. queue = <<>> /\ flushing = NoFrame
    BY <1>11 DEF SdkInv
  <2>3. Covered \subseteq Safe'
    BY <1>2, <1>3, <1>11, <2>2 DEF Covered, Safe
  <2>4. Covered' = Safe' \cup KeysOf(f)
    BY <1>3, <1>11, <2>2 DEF Covered
  <2>5. StreamInv'
    <3>1. Gapless(queue', Covered')
      BY <1>11, <2>2, GaplessEmpty
    <3>2. KeysIn(queue) = {} /\ KeysIn(queue') = {}
      BY <1>11, <2>2, KeysInEmpty
    <3>3. Gapless(inbox', Covered' \cup KeysIn(queue'))
      <4>1. Gapless(Tail(inbox), Covered \cup KeysIn(queue) \cup KeysOf(f))
        BY <2>1, GaplessTail DEF StreamInv
      <4> QED BY <1>11, <2>3, <2>4, <3>2, <4>1, GaplessMono
    <3>4. KeysIn(inbox) = KeysOf(f) \cup KeysIn(inbox')
      BY <1>11, <2>1, KeysInHeadTail
    <3>5. cursor' # NoStream =>
              KeysUpTo(cursor') \subseteq Covered' \cup KeysIn(queue') \cup KeysIn(inbox')
      BY <1>11, <2>3, <2>4, <3>2, <3>4 DEF StreamInv, gwVars
    <3> QED BY <3>1, <3>3, <3>5 DEF StreamInv
  <2>6. Flagged(f, Safe')
    <3>1. 1 \in 1..Len(inbox) /\ f = inbox[1]
      BY <2>1, LenProperties, EmptySeq
    <3> QED BY <1>2, <1>4, <3>1 DEF FrameInv
  <2>7. FrameInv'
    <3>1. \A i \in 1..Len(inbox') : i + 1 \in 1..Len(inbox) /\ inbox'[i] = inbox[i + 1]
      BY <1>11, <2>1, HeadTailProperties, LenProperties
    <3> QED BY <1>2, <1>4, <1>11, <2>1, <2>6, <3>1 DEF FrameInv
  <2>8. AckInv'
    <3>1. \A k \in KeyPos : k < f.pos => k \in Safe'
      BY <2>1, <2>2, <2>3, KeysInEmpty, GaplessHead DEF StreamInv
    <3>2. AcksSafe(outbox', Safe')
      BY <1>2, <1>11, AcksSafeMono DEF AckInv
    <3> QED BY <1>2, <1>11, <3>1, <3>2 DEF AckInv
  <2>9. SdkInv' /\ DumpInv'
    BY <1>11, <2>2, DumpKept DEF SdkInv, fileVars
  <2> QED
    BY <1>2, <1>11, <2>5, <2>7, <2>8, <2>9, CustodyKept DEF gwVars
<1>12. CASE ReceiveSyncBuffered
  <2> USE DEF ReceiveSyncBuffered
  <2> DEFINE f == Head(inbox)
             a == Append(queue, f)
  <2>1. inbox \in Seq(InFrames) /\ inbox # <<>> /\ f \in InFrames /\ f.t = "sync"
    BY <1>12, HeadTailProperties DEF TypeOK, SocketType
  <2>2. queue \in Seq(InFrames) /\ a \in Seq(InFrames) /\ a # <<>>
    BY <2>1, AppendProperties DEF TypeOK, TransportType
  <2>3. Covered \subseteq Covered'
    BY <1>2, <1>12 DEF Covered, KeysOf
  <2>4. Gapless(a, Covered)
    BY <2>1, <2>2, GaplessHead, GaplessAppend DEF StreamInv
  <2>5. KeysIn(a) = KeysIn(queue) \cup KeysOf(f)
    BY <2>1, <2>2, KeysInAppend
  <2>6. /\ Gapless(queue', Covered')
        /\ Covered \cup KeysIn(a) \subseteq Covered' \cup KeysIn(queue')
    <3>1. CASE Len(queue) < QueueCap
      BY <1>12, <2>3, <2>4, <3>1, GaplessMono
    <3>2. CASE ~ (Len(queue) < QueueCap)
      <4>1. queue # <<>>
        BY <3>2, EmptySeq, SyncAssumption
      <4>2. Head(a) = Head(queue)
        BY <2>1, <2>2, <4>1, HeadTailAppend
      <4>3. queue' = Tail(a) /\ KeysOf(Head(a)) \subseteq Safe'
        BY <1>12, <3>2, <4>2 DEF Safe
      <4>4. Gapless(Tail(a), Covered \cup KeysOf(Head(a)))
        BY <2>2, <2>4, GaplessTail
      <4>5. Covered \cup KeysOf(Head(a)) \subseteq Covered'
        BY <2>3, <4>3 DEF Covered
      <4>6. KeysIn(a) = KeysOf(Head(a)) \cup KeysIn(Tail(a))
        BY <2>2, KeysInHeadTail
      <4> QED BY <4>3, <4>4, <4>5, <4>6, GaplessMono
    <3> QED BY <3>1, <3>2
  <2>7. StreamInv'
    <3>1. Gapless(inbox', Covered' \cup KeysIn(queue'))
      <4>1. Gapless(Tail(inbox), Covered \cup KeysIn(queue) \cup KeysOf(f))
        BY <2>1, GaplessTail DEF StreamInv
      <4> QED BY <1>12, <2>5, <2>6, <4>1, GaplessMono
    <3>2. KeysIn(inbox) = KeysOf(f) \cup KeysIn(inbox')
      BY <1>12, <2>1, KeysInHeadTail
    <3>3. cursor' # NoStream =>
              KeysUpTo(cursor') \subseteq Covered' \cup KeysIn(queue') \cup KeysIn(inbox')
      BY <1>12, <2>5, <2>6, <3>2 DEF StreamInv, gwVars
    <3> QED BY <2>6, <3>1, <3>3 DEF StreamInv
  <2>8. FrameInv'
    <3>1. \A i \in 1..Len(inbox') : i + 1 \in 1..Len(inbox) /\ inbox'[i] = inbox[i + 1]
      BY <1>12, <2>1, HeadTailProperties, LenProperties
    <3>2. Flagged(f, Safe')
      <4>1. 1 \in 1..Len(inbox) /\ f = inbox[1]
        BY <2>1, LenProperties, EmptySeq
      <4> QED BY <1>2, <1>4, <4>1 DEF FrameInv
    <3>3. \A i \in 1..Len(a) : a[i].t = "sync" /\ Flagged(a[i], Safe')
      <4>1. /\ Len(a) = Len(queue) + 1 /\ Len(queue) \in Nat
            /\ \A i \in 1..Len(queue) : a[i] = queue[i]
            /\ a[Len(queue) + 1] = f
        BY <2>1, <2>2, AppendProperties, LenProperties
      <4>2. \A i \in 1..Len(queue) : queue[i].t = "sync" /\ Flagged(queue[i], Safe')
        BY <1>2, <1>4 DEF FrameInv
      <4>3. \A i \in 1..Len(a) : i \in 1..Len(queue) \/ i = Len(queue) + 1
        BY <4>1
      <4> QED BY <2>1, <3>2, <4>1, <4>2, <4>3
    <3>4. \A i \in 1..Len(queue') : queue'[i].t = "sync" /\ Flagged(queue'[i], Safe')
      <4>1. \A i \in 1..Len(Tail(a)) : i + 1 \in 1..Len(a) /\ Tail(a)[i] = a[i + 1]
        BY <2>2, HeadTailProperties, LenProperties
      <4>2. queue' = a \/ queue' = Tail(a)
        BY <1>12
      <4> QED BY <3>3, <4>1, <4>2
    <3>5. \A i \in 1..Len(inbox') : Flagged(inbox'[i], Safe')
      BY <1>2, <1>4, <3>1 DEF FrameInv
    <3> QED BY <1>2, <1>4, <1>12, <3>4, <3>5 DEF FrameInv
  <2>9. AckInv' /\ SdkInv' /\ DumpInv'
    BY <1>2, <1>12, AckKept, DumpKept DEF SdkInv, fileVars, sdkVars
  <2> QED
    BY <1>2, <1>12, <2>7, <2>8, <2>9, CustodyKept DEF gwVars
<1>13. CASE RequestWithoutAck
  <2> USE DEF RequestWithoutAck
  <2>1. sdk = "ready" /\ held = NoFrame /\ flushing = NoFrame
    BY <1>13 DEF SdkCalls, SdkInv
  <2>2. Covered \subseteq Safe' \cup KeysOf(pendingAck) /\ Overwritten(pendingAck) \subseteq Safe'
    BY <1>2, <1>3, <1>13, <2>1 DEF Covered, Safe
  <2>3. /\ SdkInv' /\ StreamInv' /\ FrameInv'
        /\ \A k \in KeyPos : k < pendingAck'.pos => k \in Safe'
    <3>1. /\ pendingAck \in InFrames /\ Flagged(pendingAck, Safe')
          /\ pendingAck # NoFrame => pendingAck.t = "sync"
          /\ pendingAck.keys => pendingAck.pos \in ram \/ held = pendingAck
          /\ \A k \in KeyPos : k < pendingAck.pos => k \in Safe'
      BY <1>2, <1>4 DEF TypeOK, TransportType, FrameInv, SdkInv, AckInv
    <3>2. UNCHANGED <<ram, inbox, cursor>> /\ flushing' = NoFrame
      BY <1>13, <2>1 DEF fileVars, gwVars
    <3>3. NextSyncFrame(pendingAck)
      BY <1>13
    <3> QED BY <1>2, <2>2, <3>1, <3>2, <3>3, Serve
  <2>4. AckInv'
    <3>1. PICK b \in Bodies : Send(BodyFrames(b, ackedPos))
      BY <1>13
    <3>2. AcksSafe(BodyFrames(b, ackedPos), Safe') /\ BodyFrames(b, ackedPos) \in Seq(OutFrames)
      BY <1>2, AcksSafeBody, BodyFramesType
      DEF ResumePointSafe, TypeOK, TransportType
    <3>3. AcksSafe(outbox', Safe')
      BY <1>2, <3>1, <3>2, AcksSafeSend DEF AckInv, TypeOK, SocketType
    <3> QED BY <1>2, <1>3, <1>13, <2>1, <2>3, <3>3 DEF AckInv
  <2>5. DumpInv'
    BY <1>13, <2>1 DEF DumpInv, fileVars
  <2> QED
    BY <1>2, <1>13, <2>3, <2>4, <2>5, CustodyKept DEF gwVars
<1>14. CASE RequestWithAck
  <2> USE DEF RequestWithAck
  <2> DEFINE p == pendingAck.pos
  <2>1. sdk = "ready" /\ held = NoFrame /\ flushing = NoFrame
    BY <1>14 DEF SdkCalls, SdkInv
  <2>2. KeysUpTo(p) \subseteq Safe' /\ p \in 0..MaxPos
    <3>1. p \in 0..MaxPos /\ KeyPos \subseteq 1..MaxPos
      BY KeysOfType, SyncAssumption DEF TypeOK, TransportType
    <3>2. pendingAck.t = "sync" /\ (p \in KeyPos => p \in Safe)
      BY <1>14 DEF FrameInv, Flagged
    <3>3. \A k \in KeyPos : k <= p => k < p \/ k = p
      BY <3>1
    <3> QED BY <1>2, <3>1, <3>2, <3>3 DEF AckInv, KeysUpTo
  <2>3. Covered \subseteq Safe' \cup KeysOf(NoFrame) /\ Overwritten(NoFrame) \subseteq Safe'
    BY <1>2, <1>3, <1>14, <2>1 DEF Covered, KeysOf, Overwritten
  <2>4. /\ SdkInv' /\ StreamInv' /\ FrameInv'
        /\ \A k \in KeyPos : k < pendingAck'.pos => k \in Safe'
    <3>1. UNCHANGED <<ram, inbox, cursor>> /\ flushing' = NoFrame
      BY <1>14, <2>1 DEF fileVars, gwVars
    <3>2. NextSyncFrame(NoFrame)
      BY <1>14
    <3> QED BY <1>2, <1>3, <1>5, <2>3, <3>1, <3>2, Serve, FrameTypes
  <2>5. AckInv'
    <3> DEFINE sent(b) == <<OutFrame("sync_ack", p, NoBody)>> \o BodyFrames(b, p)
    <3>1. PICK b \in Bodies : Send(sent(b))
      BY <1>14
    <3>2. /\ <<OutFrame("sync_ack", p, NoBody)>> \in Seq(OutFrames)
          /\ BodyFrames(b, p) \in Seq(OutFrames) /\ sent(b) \in Seq(OutFrames)
      BY <2>2, OutTypes, BodyFramesType
    <3>3. AcksSafe(sent(b), Safe')
      BY <2>2, <3>2, AcksSafeOne, AcksSafeBody, AcksSafeConcat
    <3>4. AcksSafe(outbox', Safe')
      BY <1>2, <3>1, <3>2, <3>3, AcksSafeSend DEF AckInv, TypeOK, SocketType
    <3> QED BY <1>2, <1>3, <1>14, <2>1, <2>4, <3>4 DEF AckInv
  <2>6. DumpInv'
    BY <1>14, <2>1 DEF DumpInv, fileVars, histVars
  <2>7. Custody' /\ ResumePointSafe'
    BY <1>2, <1>14, <2>2 DEF Custody, ResumePointSafe, PersistAckedPos, gwVars, KeysUpTo
  <2> QED
    BY <1>2, <2>4, <2>5, <2>6, <2>7
<1>15. CASE RequestWithFlush
  <2> USE DEF RequestWithFlush
  <2>1. sdk = "ready" /\ held = NoFrame /\ flushing = NoFrame
    BY <1>15 DEF SdkCalls, SdkInv
  <2>2. pendingAck' = NoFrame /\ flushing' = pendingAck /\ pendingAck.keys /\ pendingAck.pos \in ram
    BY <1>5, <1>15, <2>1 DEF SdkInv
  <2>3. Covered \subseteq Covered'
    BY <1>2, <1>3, <2>1, <2>2 DEF Covered
  <2>4. StreamInv'
    BY <1>15, <2>3, StreamKept DEF gwVars
  <2>5. FrameInv'
    BY <1>2, <1>4, <1>5, <1>15, <2>2 DEF FrameInv
  <2>6. AckInv'
    BY <1>2, <1>3, <1>15, <2>2, AcksSafeMono DEF AckInv, KeysUpTo, AcksSafe
  <2>7. SdkInv'
    BY <1>5, <1>15, <2>2 DEF SdkInv
  <2>8. DumpInv'
    BY <1>15, <2>1, <2>2, DumpAppend DEF histVars
  <2> QED
    BY <1>2, <1>15, <2>4, <2>5, <2>6, <2>7, <2>8, CustodyKept DEF gwVars
<1>16. CASE FlushReturns
  <2> USE DEF FlushReturns
  <2> DEFINE p == flushing.pos
  <2>1. PICK ok \in BOOLEAN :
            /\ WriteSnapshot(ok)
            /\ forfeited' = forfeited \cup (IF ok THEN {} ELSE KeysOf(flushing))
                                      \cup Overwritten(pendingAck)
    BY <1>16, SyncAssumption
  <2>2. 1 \in 1..Len(dumps) /\ Head(dumps) = dumps[1] /\ Head(dumps).by = "flush"
    BY <1>16, LenProperties, EmptySeq DEF TypeOK, StoreType
  <2>3. sdk = "flush" /\ flushing.keys /\ p \in Head(dumps).snap
    BY <2>2 DEF DumpInv
  <2>4. p \in Safe' /\ KeysOf(flushing) \subseteq Safe'
    BY <2>1, <2>3 DEF KeysOf, Safe, WriteSnapshot
  <2>5. KeysUpTo(p) \subseteq Safe' /\ p \in 0..MaxPos
    <3>1. p \in 0..MaxPos /\ KeyPos \subseteq 1..MaxPos
      BY KeysOfType, SyncAssumption DEF TypeOK, TransportType
    <3>2. \A k \in KeyPos : k <= p => k < p \/ k = p
      BY <3>1
    <3> QED BY <1>2, <2>4, <3>1, <3>2 DEF AckInv, KeysUpTo
  <2>6. Covered \subseteq Safe' \cup KeysOf(pendingAck) /\ Overwritten(pendingAck) \subseteq Safe'
    BY <1>2, <2>1, <2>4 DEF Covered, Safe
  <2>7. /\ SdkInv' /\ StreamInv' /\ FrameInv'
        /\ \A k \in KeyPos : k < pendingAck'.pos => k \in Safe'
    <3>1. /\ pendingAck \in InFrames /\ Flagged(pendingAck, Safe')
          /\ pendingAck # NoFrame => pendingAck.t = "sync"
          /\ pendingAck.keys => pendingAck.pos \in ram \/ held = pendingAck
          /\ \A k \in KeyPos : k < pendingAck.pos => k \in Safe'
      BY <1>2, <1>4 DEF TypeOK, TransportType, FrameInv, SdkInv, AckInv
    <3>2. UNCHANGED <<ram, inbox, cursor>> /\ flushing' = NoFrame
      BY <1>16 DEF gwVars
    <3>3. NextSyncFrame(pendingAck)
      BY <1>16
    <3> QED BY <1>2, <2>6, <3>1, <3>2, <3>3, Serve
  <2>8. AckInv'
    <3> DEFINE sent(b) == <<OutFrame("sync_ack", p, NoBody)>> \o BodyFrames(b, p)
    <3>1. PICK b \in Bodies : Send(sent(b))
      BY <1>16
    <3>2. /\ <<OutFrame("sync_ack", p, NoBody)>> \in Seq(OutFrames)
          /\ BodyFrames(b, p) \in Seq(OutFrames) /\ sent(b) \in Seq(OutFrames)
      BY <2>5, OutTypes, BodyFramesType
    <3>3. AcksSafe(sent(b), Safe')
      BY <2>5, <3>2, AcksSafeOne, AcksSafeBody, AcksSafeConcat
    <3>4. AcksSafe(outbox', Safe')
      BY <1>2, <3>1, <3>2, <3>3, AcksSafeSend DEF AckInv, TypeOK, SocketType
    <3> QED BY <1>3, <1>16, <2>7, <3>4 DEF AckInv
  <2>9. DumpInv'
    <3>1. \A i \in 1..Len(Tail(dumps)) :
              i + 1 \in 1..Len(dumps) /\ i + 1 # 1 /\ Tail(dumps)[i] = dumps[i + 1]
      BY <1>16, HeadTailProperties, LenProperties DEF TypeOK, StoreType
    <3>2. \A i \in 1..Len(Tail(dumps)) : Tail(dumps)[i].by # "flush"
      BY <2>2, <3>1 DEF DumpInv
    <3>3. dumps # <<>> /\ dumps' = Tail(dumps) /\ UNCHANGED <<ram, missed>>
      BY <1>16
    <3> QED BY <2>1, <3>2, <3>3, DumpReturn
  <2>10. Custody' /\ ResumePointSafe'
    BY <1>2, <1>16, <2>5 DEF Custody, ResumePointSafe, PersistAckedPos, gwVars, KeysUpTo
  <2> QED
    BY <1>2, <2>7, <2>8, <2>9, <2>10
<1>17. CASE WaitEnds
  <2>1. Covered \subseteq Covered'
    BY <1>2, <1>17 DEF WaitEnds, Covered, KeysOf
  <2>2. SdkInv' /\ DumpInv'
    BY <1>17, DumpKept DEF WaitEnds, SdkInv, fileVars, histVars
  <2> QED
    BY <1>2, <1>17, <2>1, <2>2, StreamKept, FrameKept, AckKept, CustodyKept
    DEF WaitEnds, gwVars
<1>18. CASE SdkProcesses
  <2>1. Covered \subseteq Covered'
    BY <1>2, <1>18 DEF SdkProcesses, Covered, KeysOf
  <2>2. SdkInv'
    BY <1>18 DEF SdkProcesses, SdkInv, KeysOf
  <2>3. DumpInv'
    BY <1>18, DumpKept DEF SdkProcesses
  <2> QED
    BY <1>2, <1>18, <2>1, <2>2, <2>3, StreamKept, FrameKept, AckKept, CustodyKept
    DEF SdkProcesses, gwVars
<1>19. CASE PersistTimerFires
  <2>1. Covered \subseteq Covered'
    BY <1>2, <1>19 DEF PersistTimerFires, Covered, KeysOf
  <2>2. SdkInv'
    BY <1>19 DEF PersistTimerFires, SdkInv, sdkVars
  <2>3. DumpInv'
    BY <1>19, DumpAppend DEF PersistTimerFires, sdkVars, histVars
  <2> QED
    BY <1>2, <1>19, <2>1, <2>2, <2>3, StreamKept, FrameKept, AckKept, CustodyKept
    DEF PersistTimerFires, gwVars
<1>20. CASE PersistTimerReturns
  <2>1. Covered \subseteq Covered'
    BY <1>2, <1>20 DEF PersistTimerReturns, Covered, KeysOf
  <2>2. SdkInv'
    BY <1>20 DEF PersistTimerReturns, SdkInv, sdkVars
  <2>3. DumpInv'
    <3>1. PICK ok \in BOOLEAN : WriteSnapshot(ok)
      BY <1>20, SyncAssumption DEF PersistTimerReturns
    <3>2. dumps # <<>> /\ dumps' = Tail(dumps) /\ UNCHANGED <<ram, sdk, flushing, missed>>
      BY <1>20 DEF PersistTimerReturns, sdkVars, histVars
    <3> QED BY <3>1, <3>2, DumpReturn
  <2> QED
    BY <1>2, <1>20, <2>1, <2>2, <2>3, StreamKept, FrameKept, AckKept, CustodyKept
    DEF PersistTimerReturns, gwVars
<1>21. CASE CrashAndRestart
  <2> USE DEF CrashAndRestart
  <2>1. /\ pendingAck' = NoFrame /\ flushing' = NoFrame /\ held' = NoFrame
        /\ queue' = <<>> /\ inbox' = <<>> /\ outbox' = <<>> /\ dumps' = <<>>
        /\ cursor' = NoStream /\ ackedPos' \in {0, posFile} /\ sdk' = "boot"
        /\ disk \subseteq ram' \cup missed'
        /\ UNCHANGED <<disk, posFile, released>>
    BY <1>21
  <2>2. Len(<<>>) = 0
    BY EmptySeq
  <2>3. SdkInv' /\ DumpInv'
    BY <1>5, <2>1, <2>2 DEF SdkInv, DumpInv
  <2>4. StreamInv'
    BY <2>1, GaplessEmpty DEF StreamInv
  <2>5. FrameInv'
    BY <1>5, <2>1, <2>2 DEF FrameInv
  <2>6. AckInv'
    BY <1>3, <2>1, <2>2 DEF AckInv, AcksSafe
  <2>7. Custody' /\ ResumePointSafe'
    <3>1. \A k \in KeyPos : ~(k <= 0)
      BY SyncAssumption
    <3>2. KeysUpTo(0) = {} /\ KeysUpTo(posFile) \subseteq Safe
      BY <3>1 DEF ResumePointSafe, KeysUpTo
    <3>3. KeysUpTo(ackedPos') \subseteq Safe'
      BY <1>2, <2>1, <3>2
    <3> QED BY <1>2, <2>1, <3>2, <3>3 DEF Custody, ResumePointSafe, KeysUpTo
  <2> QED
    BY <1>2, <2>3, <2>4, <2>5, <2>6, <2>7
<1>22. CASE GatewayReceives
  <2> USE DEF GatewayReceives
  <2> DEFINE f == Head(outbox)
  <2>1. /\ AcksSafe(Tail(outbox), Safe)
        /\ f.t \in {"sync_start", "sync_ack"} => KeysUpTo(f.pos) \subseteq Safe
    BY <1>22, AcksSafeTail DEF AckInv, TypeOK, SocketType
  <2>2. UNCHANGED <<queue, pendingAck, flushing, disk, forfeited, ackedPos, posFile>>
    BY <1>22 DEF fileVars, histVars
  <2>3. Covered' = Covered
    BY <2>2 DEF Covered, Safe, KeysOf
  <2>4. inbox' = inbox \/ inbox' = Append(inbox, Control("auth_ok"))
    BY <1>22
  <2>5. /\ Control("auth_ok") \in InFrames /\ Control("auth_ok").t # "sync"
        /\ KeysOf(Control("auth_ok")) = {}
    BY FrameTypes DEF Control, KeysOf
  <2>6. KeysIn(inbox') = KeysIn(inbox)
    <3>1. inbox \in Seq(InFrames)
      BY DEF TypeOK, SocketType
    <3>2. KeysIn(Append(inbox, Control("auth_ok")))
              = KeysIn(inbox) \cup KeysOf(Control("auth_ok"))
      BY <2>5, <3>1, KeysInAppend
    <3> QED BY <2>4, <2>5, <3>2
  <2>7. StreamInv'
    <3>1. Gapless(inbox', Covered \cup KeysIn(queue))
      BY <2>4, <2>5, GaplessAppend DEF StreamInv, TypeOK, SocketType
    <3>2. cursor' = cursor \/ KeysUpTo(cursor') \subseteq Safe
      BY <1>22, <2>1
    <3>3. KeysIn(queue)' = KeysIn(queue) /\ Safe \subseteq Covered
      BY <2>2 DEF KeysIn, Covered
    <3>4. Gapless(queue', Covered')
      BY <2>2, <2>3 DEF StreamInv
    <3>5. Gapless(inbox', Covered' \cup KeysIn(queue'))
      BY <2>2, <2>3, <3>1
    <3>6. cursor' # NoStream =>
              KeysUpTo(cursor') \subseteq Covered \cup KeysIn(queue) \cup KeysIn(inbox)
      BY <3>2, <3>3 DEF StreamInv
    <3> QED BY <2>2, <2>3, <2>6, <3>4, <3>5, <3>6 DEF StreamInv, NoStream, KeysUpTo
  <2>8. FrameInv'
    <3>1. \A i \in 1..Len(inbox') : Flagged(inbox'[i], Safe')
      BY <1>2, <1>4, <2>4, <2>5, FlaggedAppend DEF FrameInv, TypeOK, SocketType
    <3> QED BY <1>2, <1>4, <2>2, <3>1 DEF FrameInv
  <2>9. AckInv'
    BY <1>2, <1>22, <2>1, <2>2, AcksSafeMono DEF AckInv
  <2>10. SdkInv' /\ DumpInv'
    BY <1>22, DumpKept DEF SdkInv, sdkVars, fileVars, histVars
  <2>11. Custody' /\ ResumePointSafe'
    BY <1>2, <1>22, <2>1, <2>2 DEF Custody, ResumePointSafe, KeysUpTo
  <2> QED BY <1>2, <2>7, <2>8, <2>9, <2>10, <2>11
<1>23. CASE GatewayPushes
  <2> USE DEF GatewayPushes
  <2> DEFINE p == cursor + 1
             f == SyncFrame(p, p \in KeyPos /\ p > released)
  <2>1. /\ cursor # NoStream /\ cursor \in Nat /\ released \in Nat
        /\ KeyPos \subseteq Nat /\ p \in 0..MaxPos
    BY <1>23, SyncAssumption DEF NoStream, TypeOK, GatewayType
  <2>2. /\ f \in InFrames /\ f.pos = p /\ f.t = "sync"
        /\ f.keys = (p \in KeyPos /\ p > released)
        /\ KeysOf(f) = IF p \in KeyPos /\ p > released THEN {p} ELSE {}
    BY <2>1, FrameTypes DEF SyncFrame, KeysOf
  <2>3. /\ UNCHANGED <<queue, pendingAck, flushing, disk, forfeited>>
        /\ inbox' = Append(inbox, f)
    BY <1>23 DEF fileVars, histVars
  <2>4. Covered' = Covered /\ Safe \subseteq Covered
    BY <2>3 DEF Covered, Safe, KeysOf
  <2>5. p \in KeyPos => p \in Safe \cup KeysOf(f)
    BY <2>1, <2>2 DEF Custody, KeysUpTo
  <2>6. KeysUpTo(cursor) \subseteq Covered \cup KeysIn(queue) \cup KeysIn(inbox)
    BY <2>1 DEF StreamInv
  <2>7. KeysIn(inbox') = KeysIn(inbox) \cup KeysOf(f)
    BY <2>2, <2>3, KeysInAppend DEF TypeOK, SocketType
  <2>8. StreamInv'
    <3>1. \A k \in KeyPos : k < p => k \in KeysUpTo(cursor)
      BY <2>1 DEF KeysUpTo
    <3>2. Gapless(inbox', Covered \cup KeysIn(queue))
      BY <2>2, <2>3, <2>6, <3>1, GaplessAppend DEF StreamInv, TypeOK, SocketType
    <3>3. \A k \in KeyPos : k <= p => k \in KeysUpTo(cursor) \/ k = p
      BY <2>1 DEF KeysUpTo
    <3>4. KeysUpTo(p) \subseteq Covered \cup KeysIn(queue) \cup KeysIn(inbox')
      BY <2>4, <2>5, <2>6, <2>7, <3>3 DEF KeysUpTo
    <3>5. Gapless(queue', Covered')
      BY <2>3, <2>4 DEF StreamInv
    <3>6. KeysUpTo(cursor') \subseteq Covered' \cup KeysIn(queue') \cup KeysIn(inbox')
      BY <1>23, <2>3, <2>4, <3>4
    <3>7. Gapless(inbox', Covered' \cup KeysIn(queue'))
      BY <2>3, <2>4, <3>2
    <3> QED BY <3>5, <3>6, <3>7 DEF StreamInv, KeysUpTo, KeysIn
  <2>9. FrameInv'
    <3>1. Flagged(f, Safe')
      BY <1>2, <2>2, <2>5 DEF Flagged
    <3>2. \A i \in 1..Len(inbox') : Flagged(inbox'[i], Safe')
      BY <1>2, <1>4, <2>2, <2>3, <3>1, FlaggedAppend DEF FrameInv, TypeOK, SocketType
    <3> QED BY <1>2, <1>4, <2>3, <3>2 DEF FrameInv
  <2>10. SdkInv' /\ DumpInv'
    BY <1>23, DumpKept DEF SdkInv, sdkVars, fileVars, histVars
  <2> QED
    BY <1>2, <1>23, <2>8, <2>9, <2>10, AckKept, CustodyKept
<1>24. CASE GatewayReauths
  <2> USE DEF GatewayReauths
  <2>1. UNCHANGED <<queue, pendingAck, flushing, disk, forfeited, cursor>>
    BY <1>24 DEF fileVars, histVars, gwVars
  <2>2. Covered' = Covered
    BY <2>1 DEF Covered, Safe, KeysOf
  <2>3. /\ Control("reauth") \in InFrames /\ Control("reauth").t # "sync"
        /\ KeysOf(Control("reauth")) = {} /\ inbox' = Append(inbox, Control("reauth"))
    BY <1>24, FrameTypes DEF Control, KeysOf
  <2>4. KeysIn(inbox') = KeysIn(inbox)
    <3>1. inbox \in Seq(InFrames)
      BY DEF TypeOK, SocketType
    <3>2. KeysIn(Append(inbox, Control("reauth")))
              = KeysIn(inbox) \cup KeysOf(Control("reauth"))
      BY <2>3, <3>1, KeysInAppend
    <3> QED BY <2>3, <3>2
  <2>5. StreamInv'
    <3>1. Gapless(inbox', Covered \cup KeysIn(queue))
      BY <2>3, GaplessAppend DEF StreamInv, TypeOK, SocketType
    <3>2. Gapless(queue', Covered') /\ Gapless(inbox', Covered' \cup KeysIn(queue'))
      BY <2>1, <2>2, <3>1 DEF StreamInv
    <3> QED BY <2>1, <2>2, <2>4, <3>2 DEF StreamInv, KeysUpTo, KeysIn
  <2>6. FrameInv'
    <3>1. \A i \in 1..Len(inbox') : Flagged(inbox'[i], Safe')
      BY <1>2, <1>4, <2>3, FlaggedAppend DEF FrameInv, TypeOK, SocketType
    <3> QED BY <1>2, <1>4, <2>1, <3>1 DEF FrameInv
  <2>7. SdkInv' /\ DumpInv'
    BY <1>24, DumpKept DEF SdkInv, sdkVars, fileVars, histVars
  <2> QED
    BY <1>2, <1>24, <2>5, <2>6, <2>7, AckKept, CustodyKept DEF gwVars
<1>25. CASE UNCHANGED vars
  <2>1. Covered' = Covered
    BY <1>25 DEF vars, Covered, Safe, KeysOf
  <2> QED
    BY <1>2, <1>25, <2>1, StreamKept, FrameKept, AckKept, CustodyKept, DumpKept
    DEF vars, SdkInv
<1> QED
  BY <1>6, <1>7, <1>8, <1>9, <1>10, <1>11, <1>12, <1>13, <1>14, <1>15, <1>16, <1>17, <1>18, <1>19, <1>20, <1>21, <1>22, <1>23, <1>24, <1>25
  DEF Next

LEMMA Inductive == Spec => []IInv
<1>1. IInv /\ [Next]_vars => IInv'
  BY IInvStep
<1> QED BY IInvInit, <1>1, PTL DEF Spec

-----------------------------------------------------------------------------
(* The theorems *)

\* Whatever fails, in whatever order, a room key the homeserver was told it may
\* delete (sync_ack, or sync_start with a resume point) is in the crypto
\* snapshot or was forfeited in one of the four named ways.
THEOREM KeysInCustody == Spec => []Custody
<1>1. IInv => Custody
  BY DEF IInv
<1> QED BY Inductive, <1>1, PTL

\* The resume point, in memory and in sync-pos.txt, never covers a key that is
\* neither on disk, where a crash leaves it, nor forfeited.
THEOREM ResumePointHeld == Spec => []ResumePointSafe
<1>1. IInv => ResumePointSafe
  BY DEF IInv
<1> QED BY Inductive, <1>1, PTL

\* A snapshot loses no key of the one it replaces but those that the restore of
\* the same process failed to load, although the flush before an ack and the 60s
\* timer dump the store concurrently.
THEOREM SnapshotMonotone == Spec => SnapshotNeverRegresses
<1>1. IInv /\ [Next]_vars => [disk \ disk' \subseteq missed]_vars
  BY SafeGrows DEF IInv
<1> QED BY Inductive, <1>1, PTL DEF Spec, SnapshotNeverRegresses

\* Only the gateway's reading of an ack or a resume point lets the homeserver
\* delete keys.
LEMMA ReleasedOnlyByGateway ==
    ASSUME [Next]_vars PROVE released' = released \/ GatewayReceives
BY DEF Next, vars, gwVars, OpenSocket, SocketOpens, SocketCloses,
       ReceiveAuthOk, ReceiveReauth, ReceiveSyncWaiting, ReceiveSyncBuffered,
       RequestWithoutAck, RequestWithAck, RequestWithFlush, FlushReturns,
       WaitEnds, SdkProcesses, PersistTimerFires, PersistTimerReturns,
       CrashAndRestart, GatewayPushes, GatewayReauths

\* Every step of the transport is, for the keys alone, a step that saves keys,
\* writes keys off or releases keys already accounted for, or no step at all.
LEMMA StepRefines == IInv /\ [Next]_vars => [Abstract!Next]_(Abstract!vars)
<1> SUFFICES ASSUME IInv, [Next]_vars
             PROVE  [Abstract!Next]_(Abstract!vars)
  OBVIOUS
<1>1. disk \ disk' \subseteq forfeited /\ forfeited \subseteq forfeited'
  BY SafeGrows, ForfeitedGrows DEF IInv, MissedInv
<1>2. CASE released' = released
  BY <1>1, <1>2 DEF Abstract!Next, Abstract!Account
<1>3. CASE GatewayReceives /\ released' # released
  <2>1. UNCHANGED <<disk, forfeited>>
    BY <1>3 DEF GatewayReceives, fileVars, histVars
  <2>2. released' > released
    BY <1>3 DEF GatewayReceives
  <2>3. KeysUpTo(released') \subseteq Safe'
    BY IInvStep DEF IInv, Custody, KeysUpTo
  <2>4. \A k \in KeyPos : k <= released' => k \in disk \cup forfeited
    BY <2>1, <2>3 DEF KeysUpTo, Safe
  <2> QED BY <2>1, <2>2, <2>4 DEF Abstract!Next, Abstract!Release
<1> QED BY <1>2, <1>3, ReleasedOnlyByGateway

\* The transport with its socket, queue, flush, cursor file, crashes and
\* reconnects implements KeyCustody: the homeserver gives up a key only after
\* the plugin saved it or wrote it off.
THEOREM ImplementsKeyCustody == Spec => CustodySpec
<1>1. Init => Abstract!Init
  BY DEF Init, Abstract!Init
<1>2. IInv /\ [Next]_vars => [Abstract!Next]_(Abstract!vars)
  BY StepRefines
<1> QED BY Inductive, <1>1, <1>2, PTL DEF Spec, CustodySpec, Abstract!Spec
=============================================================================
