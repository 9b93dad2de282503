-------------------------- MODULE GatewayStreamProofs --------------------------
(***************************************************************************)
(* Proofs about the order in which GatewaySync delivers the stream, and     *)
(* about the subscription it keeps, for every stream, queue capacity and    *)
(* number of faults:                                                        *)
(*   - NothingSkipped: Spec => []NoSkippedDelta                             *)
(*   - SubscriptionKept: Spec => []SubscriptionInSync                       *)
(* Both rest on IInv of GatewaySyncProofs, which says nothing of either.    *)
(***************************************************************************)
EXTENDS GatewaySyncProofs

-----------------------------------------------------------------------------
(* The order of delivery: the inductive invariant *)

PosOf(f) == IF f.t = "sync" THEN {f.pos} ELSE {}

\* Positions of the sync frames of s.
PosIn(s) == {p \in 0..MaxPos : \E j \in 1..Len(s) : s[j].t = "sync" /\ s[j].pos = p}

\* A sync frame of s comes after every earlier position: that one is in C, or
\* an earlier frame of s has it.
InOrder(s, C) ==
    \A i \in 1..Len(s) : \A k \in 0..MaxPos :
        s[i].t = "sync" /\ k < s[i].pos =>
            k \in C \/ \E j \in 1..(i - 1) : s[j].t = "sync" /\ s[j].pos = k

\* Positions the SDK is done with in this process, or need not see, and with
\* them the one it is working on.
Settled == 0..base \cup applied \cup dropped
Reached == Settled \cup PosOf(held)

HeldInv ==
    /\ held # NoFrame => held.t = "sync" /\ 0..(held.pos - 1) \subseteq Settled
    /\ sdk \in {"wait", "flush"} => held = NoFrame
    /\ \A p \in applied : 0..(p - 1) \subseteq Settled

\* Every resume point that s tells the gateway lies in C, and all before it.
StartsIn(s, C) ==
    \A i \in 1..Len(s) : s[i].t = "sync_start" => 0..s[i].pos \subseteq C

\* Whatever position the stream may be resumed at has been reached.
ResumeInv ==
    /\ 0..ackedPos \subseteq Reached
    /\ 0..pendingAck.pos \subseteq Reached
    /\ 0..flushing.pos \subseteq Reached
    /\ StartsIn(outbox, Reached)

ComingInv ==
    /\ InOrder(queue, Reached)
    /\ InOrder(inbox, Reached \cup PosIn(queue))
    /\ cursor # NoStream =>
           0..cursor \subseteq Reached \cup PosIn(queue) \cup PosIn(inbox)

DeliveryInv == HeldInv /\ ResumeInv /\ ComingInv

-----------------------------------------------------------------------------
(* The subscription: the inductive invariant *)

IsBody(f) == f.t \in {"sync_start", "sync_update"}

\* Reading s leaves the gateway with body b, if it had body g before.
Leaves(s, g, b) ==
    \/ g = b /\ \A i \in 1..Len(s) : ~IsBody(s[i])
    \/ \E i \in 1..Len(s) :
           /\ IsBody(s[i]) /\ s[i].body = b
           /\ \A j \in 1..Len(s) : j > i => ~IsBody(s[j])

WireInv ==
    /\ connected => link = "open"
    /\ link # "open" => inbox = <<>> /\ outbox = <<>> /\ cursor = NoStream
    /\ lastBody = NoBody => Leaves(outbox, gwBody, NoBody)
    /\ connected => Leaves(outbox, gwBody, lastBody)
-----------------------------------------------------------------------------
(* Lemmas about PosIn and InOrder *)

LEMMA PosOfType ==
    ASSUME NEW f \in InFrames PROVE f.pos \in 0..MaxPos /\ PosOf(f) \subseteq 0..MaxPos
BY DEF InFrames, PosOf

LEMMA PosOfControl ==
    /\ PosOf(NoFrame) = {} /\ NoFrame.pos = 0
    /\ \A type \in {"auth_ok", "reauth"} :
           Control(type).t # "sync" /\ PosOf(Control(type)) = {}
BY DEF PosOf, NoFrame, Control

LEMMA PosInAppend ==
    ASSUME NEW s \in Seq(InFrames), NEW f \in InFrames
    PROVE  PosIn(Append(s, f)) = PosIn(s) \cup PosOf(f)
<1> DEFINE t == Append(s, f)
<1>1. /\ Len(t) = Len(s) + 1 /\ Len(s) \in Nat
      /\ \A i \in 1..Len(s) : t[i] = s[i]
      /\ t[Len(s) + 1] = f
  BY AppendProperties, LenProperties
<1>2. PosIn(t) \subseteq PosIn(s) \cup PosOf(f)
  BY <1>1 DEF PosIn, PosOf
<1>3. PosIn(s) \subseteq PosIn(t)
  BY <1>1 DEF PosIn
<1>4. PosOf(f) \subseteq PosIn(t)
  <2>1. Len(s) + 1 \in 1..Len(t)
    BY <1>1
  <2> QED BY <1>1, <2>1, PosOfType DEF PosIn, PosOf
<1> QED BY <1>2, <1>3, <1>4

LEMMA PosInHeadTail ==
    ASSUME NEW s \in Seq(InFrames), s # <<>>
    PROVE  PosIn(s) = PosOf(Head(s)) \cup PosIn(Tail(s))
<1>1. /\ Len(Tail(s)) = Len(s) - 1 /\ Len(s) \in Nat \ {0}
      /\ Head(s) = s[1] /\ Head(s) \in InFrames
      /\ \A i \in 1..Len(Tail(s)) : Tail(s)[i] = s[i + 1]
  BY HeadTailProperties, LenProperties, EmptySeq
<1>2. PosIn(s) \subseteq PosOf(Head(s)) \cup PosIn(Tail(s))
  <2> SUFFICES ASSUME NEW p \in 0..MaxPos, NEW j \in 1..Len(s),
                      s[j].t = "sync", s[j].pos = p
               PROVE  p \in PosOf(Head(s)) \cup PosIn(Tail(s))
    BY DEF PosIn
  <2>1. CASE j = 1
    BY <1>1, <2>1 DEF PosOf
  <2>2. CASE j # 1
    <3>1. j - 1 \in 1..Len(Tail(s)) /\ Tail(s)[j - 1] = s[j]
      BY <1>1, <2>2
    <3> QED BY <3>1 DEF PosIn
  <2> QED BY <2>1, <2>2
<1>3. PosOf(Head(s)) \subseteq PosIn(s)
  <2>1. 1 \in 1..Len(s)
    BY <1>1
  <2> QED BY <1>1, <2>1, PosOfType DEF PosIn, PosOf
<1>4. PosIn(Tail(s)) \subseteq PosIn(s)
  <2>1. \A i \in 1..Len(Tail(s)) : i + 1 \in 1..Len(s)
    BY <1>1
  <2> QED BY <1>1, <2>1 DEF PosIn
<1> QED BY <1>2, <1>3, <1>4

LEMMA InOrderMono ==
    ASSUME NEW s, NEW C, NEW D, InOrder(s, C), C \subseteq D
    PROVE  InOrder(s, D)
BY DEF InOrder

LEMMA InOrderEmpty ==
    ASSUME NEW C PROVE InOrder(<<>>, C) /\ PosIn(<<>>) = {}
BY EmptySeq DEF InOrder, PosIn

\* Everything before the first frame is in C.
LEMMA InOrderHead ==
    ASSUME NEW s \in Seq(InFrames), s # <<>>, NEW C, InOrder(s, C),
           Head(s).t = "sync"
    PROVE  0..(Head(s).pos - 1) \subseteq C
<1>1. 1 \in 1..Len(s) /\ Head(s) = s[1] /\ Head(s) \in InFrames
  BY LenProperties, EmptySeq
<1>2. Head(s).pos \in 0..MaxPos
  BY <1>1, PosOfType
<1>3. \A k \in 0..MaxPos : k < Head(s).pos => k \in C
  <2>1. ~ \E j \in 1..(1 - 1) : TRUE
    OBVIOUS
  <2> QED BY <1>1, <2>1 DEF InOrder
<1> QED BY <1>2, <1>3, SyncAssumption

LEMMA InOrderTail ==
    ASSUME NEW s \in Seq(InFrames), s # <<>>, NEW C, InOrder(s, C)
    PROVE  InOrder(Tail(s), C \cup PosOf(Head(s)))
<1>1. /\ Len(Tail(s)) = Len(s) - 1 /\ Len(s) \in Nat \ {0}
      /\ Head(s) = s[1] /\ Head(s) \in InFrames
      /\ \A i \in 1..Len(Tail(s)) : Tail(s)[i] = s[i + 1]
  BY HeadTailProperties, LenProperties, EmptySeq
<1> SUFFICES ASSUME NEW i \in 1..Len(Tail(s)), NEW k \in 0..MaxPos,
                    Tail(s)[i].t = "sync", k < Tail(s)[i].pos,
                    k \notin C \cup PosOf(Head(s))
             PROVE  \E j \in 1..(i - 1) : Tail(s)[j].t = "sync" /\ Tail(s)[j].pos = k
  BY DEF InOrder
<1>2. i + 1 \in 1..Len(s) /\ Tail(s)[i] = s[i + 1]
  BY <1>1
<1>3. PICK j \in 1..((i + 1) - 1) : s[j].t = "sync" /\ s[j].pos = k
  BY <1>2 DEF InOrder
<1>4. j # 1
  BY <1>1, <1>3 DEF PosOf
<1>5. j - 1 \in 1..(i - 1) /\ Tail(s)[j - 1] = s[j]
  BY <1>1, <1>3, <1>4
<1> QED BY <1>3, <1>5

LEMMA InOrderAppend ==
    ASSUME NEW s \in Seq(InFrames), NEW f \in InFrames, NEW C, InOrder(s, C),
           f.t = "sync" => 0..(f.pos - 1) \subseteq C \cup PosIn(s)
    PROVE  InOrder(Append(s, f), C)
<1> DEFINE t == Append(s, f)
<1>1. /\ Len(t) = Len(s) + 1 /\ Len(s) \in Nat
      /\ \A i \in 1..Len(s) : t[i] = s[i]
      /\ t[Len(s) + 1] = f
  BY AppendProperties, LenProperties
<1> SUFFICES ASSUME NEW i \in 1..Len(t), NEW k \in 0..MaxPos,
                    t[i].t = "sync", k < t[i].pos, k \notin C
             PROVE  \E j \in 1..(i - 1) : t[j].t = "sync" /\ t[j].pos = k
  BY DEF InOrder
<1>2. CASE i \in 1..Len(s)
  <2>1. PICK j \in 1..(i - 1) : s[j].t = "sync" /\ s[j].pos = k
    BY <1>1, <1>2 DEF InOrder
  <2>2. j \in 1..Len(s)
    BY <1>1, <1>2
  <2> QED BY <1>1, <2>1, <2>2
<1>3. CASE i = Len(s) + 1
  <2>1. k \in PosIn(s)
    BY <1>1, <1>3, PosOfType
  <2>2. PICK j \in 1..Len(s) : s[j].t = "sync" /\ s[j].pos = k
    BY <2>1 DEF PosIn
  <2> QED BY <1>1, <1>3, <2>2
<1> QED BY <1>1, <1>2, <1>3

-----------------------------------------------------------------------------
(* Lemmas about the resume points on their way to the gateway *)

LEMMA StartsInMono ==
    ASSUME NEW s, NEW C, NEW D, StartsIn(s, C), C \subseteq D
    PROVE  StartsIn(s, D)
BY DEF StartsIn

LEMMA StartsInTail ==
    ASSUME NEW s \in Seq(OutFrames), s # <<>>, NEW C, StartsIn(s, C)
    PROVE  /\ StartsIn(Tail(s), C)
           /\ Head(s).t = "sync_start" => 0..Head(s).pos \subseteq C
<1>1. /\ Len(Tail(s)) = Len(s) - 1 /\ Len(s) \in Nat \ {0}
      /\ Head(s) = s[1]
      /\ \A i \in 1..Len(Tail(s)) : Tail(s)[i] = s[i + 1]
  BY HeadTailProperties, LenProperties, EmptySeq
<1>2. 1 \in 1..Len(s) /\ \A i \in 1..Len(Tail(s)) : i + 1 \in 1..Len(s)
  BY <1>1
<1> QED BY <1>1, <1>2 DEF StartsIn

LEMMA StartsInConcat ==
    ASSUME NEW s \in Seq(OutFrames), NEW u \in Seq(OutFrames), NEW C,
           StartsIn(s, C), StartsIn(u, C)
    PROVE  StartsIn(s \o u, C)
<1>1. /\ Len(s \o u) = Len(s) + Len(u) /\ Len(s) \in Nat /\ Len(u) \in Nat
      /\ \A i \in 1..(Len(s) + Len(u)) :
             (s \o u)[i] = IF i <= Len(s) THEN s[i] ELSE u[i - Len(s)]
  BY ConcatProperties, LenProperties
<1> SUFFICES ASSUME NEW i \in 1..Len(s \o u), (s \o u)[i].t = "sync_start"
             PROVE  0..(s \o u)[i].pos \subseteq C
  BY DEF StartsIn
<1>2. CASE i <= Len(s)
  <2>1. i \in 1..Len(s) /\ (s \o u)[i] = s[i]
    BY <1>1, <1>2
  <2> QED BY <2>1 DEF StartsIn
<1>3. CASE ~ (i <= Len(s))
  <2>1. i - Len(s) \in 1..Len(u) /\ (s \o u)[i] = u[i - Len(s)]
    BY <1>1, <1>3
  <2> QED BY <2>1 DEF StartsIn
<1> QED BY <1>2, <1>3

LEMMA StartsInEmpty == ASSUME NEW C PROVE StartsIn(<<>>, C)
BY EmptySeq DEF StartsIn

LEMMA StartsInOne ==
    ASSUME NEW type, NEW p, NEW b, NEW C,
           type = "sync_start" => 0..p \subseteq C
    PROVE  StartsIn(<<OutFrame(type, p, b)>>, C)
BY DEF StartsIn, OutFrame

LEMMA StartsInBody ==
    ASSUME NEW b \in Bodies, NEW p \in 0..MaxPos, NEW C, 0..p \subseteq C
    PROVE  /\ StartsIn(BodyFrames(b, p), C)
           /\ StartsIn(<<OutFrame("sync_ack", p, NoBody)>> \o BodyFrames(b, p), C)
<1>1. StartsIn(BodyFrames(b, p), C)
  BY StartsInEmpty, StartsInOne DEF BodyFrames
<1>2. StartsIn(<<OutFrame("sync_ack", p, NoBody)>>, C)
  BY StartsInOne
<1>3. <<OutFrame("sync_ack", p, NoBody)>> \in Seq(OutFrames)
  BY OutTypes
<1>4. BodyFrames(b, p) \in Seq(OutFrames)
  BY BodyFramesType
<1> QED BY <1>1, <1>2, <1>3, <1>4, StartsInConcat

LEMMA StartsInSend ==
    ASSUME outbox \in Seq(OutFrames), NEW C, NEW D, C \subseteq D,
           StartsIn(outbox, C), NEW s \in Seq(OutFrames), StartsIn(s, D), Send(s)
    PROVE  StartsIn(outbox', D)
<1>1. StartsIn(outbox, D)
  BY StartsInMono
<1> QED BY <1>1, StartsInConcat DEF Send
-----------------------------------------------------------------------------
(* What an action keeps *)

\* Nothing that was reached is forgotten while the process lives: a frame is
\* handed over when no other is held.
LEMMA ReachedGrows ==
    ASSUME held' = held \/ held = NoFrame, base' = base,
           applied \subseteq applied', dropped \subseteq dropped'
    PROVE  Settled \subseteq Settled' /\ Reached \subseteq Reached'
<1>1. Settled \subseteq Settled'
  BY DEF Settled
<1>2. PosOf(held) \subseteq PosOf(held)'
  BY PosOfControl DEF PosOf
<1> QED BY <1>1, <1>2 DEF Reached

LEMMA HeldKept ==
    ASSUME HeldInv, Settled \subseteq Settled', UNCHANGED <<held, applied>>,
           sdk' \in {"wait", "flush"} => sdk' = sdk \/ held = NoFrame
    PROVE  HeldInv'
BY DEF HeldInv

LEMMA ComingKept ==
    ASSUME ComingInv, Reached \subseteq Reached', UNCHANGED <<queue, inbox, cursor>>
    PROVE  ComingInv'
<1>1. InOrder(queue, Reached')
  BY InOrderMono DEF ComingInv
<1>2. InOrder(inbox, Reached' \cup PosIn(queue))
  BY InOrderMono DEF ComingInv
<1>3. PosIn(queue)' = PosIn(queue) /\ PosIn(inbox)' = PosIn(inbox)
  BY DEF PosIn
<1>4. InOrder(queue', Reached') /\ InOrder(inbox', Reached' \cup PosIn(queue'))
  BY <1>1, <1>2
<1>5. cursor' # NoStream' =>
          0..cursor' \subseteq Reached' \cup PosIn(queue') \cup PosIn(inbox')
  BY DEF ComingInv, NoStream
<1> QED BY <1>4, <1>5 DEF ComingInv

LEMMA ResumeKept ==
    ASSUME TypeOK, ResumeInv, Reached \subseteq Reached', ackedPos' = ackedPos,
           pendingAck' \in {pendingAck, NoFrame},
           flushing' \in {flushing, pendingAck, NoFrame},
           outbox' = outbox \/ StartsIn(outbox', Reached')
    PROVE  ResumeInv'
<1>1. StartsIn(outbox', Reached')
  BY StartsInMono DEF ResumeInv
<1>2. 0..NoFrame.pos \subseteq Reached'
  <2>1. 0 \in Settled
    BY DEF TypeOK, HistoryType, Settled
  <2> QED BY <2>1, PosOfControl DEF Reached
<1>3. 0..pendingAck'.pos \subseteq Reached' /\ 0..flushing'.pos \subseteq Reached'
  BY <1>2 DEF ResumeInv
<1> QED BY <1>1, <1>3 DEF ResumeInv

\* nextSyncFrame: the oldest queued frame comes after everything settled.
LEMMA Delivers ==
    ASSUME TypeOK, FrameInv, HeldInv, ComingInv, held = NoFrame,
           NEW pend \in InFrames, NextSyncFrame(pend), 0..pend.pos \subseteq Reached,
           UNCHANGED <<inbox, cursor, base, applied, dropped>>
    PROVE  /\ HeldInv' /\ ComingInv' /\ Reached \subseteq Reached'
           /\ 0..pendingAck'.pos \subseteq Reached'
<1>1. Settled' = Settled /\ Reached = Settled /\ Reached \subseteq Reached'
  BY PosOfControl, ReachedGrows DEF Settled, Reached
<1>2. CASE queue = <<>>
  <2>1. sdk' = "wait" /\ pendingAck' = pend /\ queue' = queue /\ held' = held
    BY <1>2 DEF NextSyncFrame
  <2>2. HeldInv'
    BY <1>1, <2>1, HeldKept
  <2>3. ComingInv'
    BY <1>1, <2>1, ComingKept
  <2> QED BY <1>1, <2>1, <2>2, <2>3
<1>3. CASE queue # <<>>
  <2>1. /\ sdk' = "ready" /\ pendingAck' = Head(queue) /\ held' = Head(queue)
        /\ queue' = Tail(queue)
    BY <1>3 DEF NextSyncFrame
  <2>2. /\ queue \in Seq(InFrames) /\ 1 \in 1..Len(queue) /\ Head(queue) = queue[1]
        /\ Head(queue) \in InFrames
    BY <1>3, LenProperties, EmptySeq DEF TypeOK, TransportType
  <2>3. Head(queue).t = "sync" /\ Head(queue).pos \in 0..MaxPos
    BY <2>2, PosOfType DEF FrameInv
  <2>4. 0..(Head(queue).pos - 1) \subseteq Settled
    BY <1>1, <1>3, <2>2, <2>3, InOrderHead DEF ComingInv
  <2>5. Reached' = Reached \cup PosOf(Head(queue))
    BY <1>1, <2>1 DEF Reached
  <2>6. 0..pendingAck'.pos \subseteq Reached'
    BY <1>1, <2>1, <2>3, <2>4, <2>5, SyncAssumption DEF PosOf
  <2>7. HeldInv'
    BY <1>1, <2>1, <2>3, <2>4 DEF HeldInv
  <2>8. InOrder(queue', Reached')
    BY <1>3, <2>1, <2>2, <2>5, InOrderTail DEF ComingInv
  <2>9. Reached \cup PosIn(queue) = Reached' \cup PosIn(queue')
    BY <1>3, <2>1, <2>2, <2>5, PosInHeadTail
  <2>10. InOrder(inbox', Reached' \cup PosIn(queue'))
    BY <2>9 DEF ComingInv
  <2>11. cursor' # NoStream' =>
             0..cursor' \subseteq Reached' \cup PosIn(queue') \cup PosIn(inbox')
    BY <2>9 DEF ComingInv, NoStream
  <2>12. ComingInv'
    BY <2>8, <2>10, <2>11 DEF ComingInv
  <2> QED BY <1>1, <2>6, <2>7, <2>12
<1> QED BY <1>2, <1>3

\* Reading a frame that is no sync frame takes nothing out of the stream.
LEMMA ControlRead ==
    ASSUME TypeOK, ComingInv, Reached \subseteq Reached', inbox # <<>>,
           Head(inbox).t \in {"auth_ok", "reauth"}, inbox' = Tail(inbox),
           UNCHANGED <<queue, cursor>>
    PROVE  ComingInv'
<1>1. inbox \in Seq(InFrames)
  BY DEF TypeOK, SocketType
<1>2. PosOf(Head(inbox)) = {}
  BY DEF PosOf
<1>3. InOrder(queue', Reached')
  BY InOrderMono DEF ComingInv
<1>4. PosIn(inbox') = PosIn(inbox)
  BY <1>1, <1>2, PosInHeadTail
<1>5. InOrder(inbox', Reached' \cup PosIn(queue'))
  <2>1. InOrder(Tail(inbox), Reached \cup PosIn(queue) \cup PosOf(Head(inbox)))
    BY <1>1, InOrderTail DEF ComingInv
  <2> QED BY <1>2, <2>1, InOrderMono
<1>6. cursor' # NoStream' =>
          0..cursor' \subseteq Reached' \cup PosIn(queue') \cup PosIn(inbox')
  BY <1>4 DEF ComingInv, NoStream
<1> QED BY <1>3, <1>5, <1>6 DEF ComingInv

\* A frame that is no sync frame, on its way to the plugin, changes nothing.
LEMMA ControlSent ==
    ASSUME TypeOK, ComingInv, Reached \subseteq Reached', NEW f \in InFrames,
           f.t # "sync", inbox' \in {inbox, Append(inbox, f)},
           queue' = queue, cursor' = cursor \/ 0..cursor' \subseteq Reached'
    PROVE  ComingInv'
<1>1. inbox \in Seq(InFrames) /\ PosOf(f) = {}
  BY DEF TypeOK, SocketType, PosOf
<1>2. InOrder(queue', Reached')
  BY InOrderMono DEF ComingInv
<1>3. PosIn(Append(inbox, f)) = PosIn(inbox)
  BY <1>1, PosInAppend
<1>4. PosIn(inbox') = PosIn(inbox)
  BY <1>3
<1>5. InOrder(inbox', Reached' \cup PosIn(queue'))
  <2>1. InOrder(inbox, Reached' \cup PosIn(queue))
    BY InOrderMono DEF ComingInv
  <2>2. InOrder(Append(inbox, f), Reached' \cup PosIn(queue))
    BY <1>1, <2>1, InOrderAppend
  <2> QED BY <2>1, <2>2
<1>6. cursor' # NoStream' =>
          0..cursor' \subseteq Reached' \cup PosIn(queue') \cup PosIn(inbox')
  BY <1>4 DEF ComingInv, NoStream
<1> QED BY <1>2, <1>5, <1>6 DEF ComingInv
-----------------------------------------------------------------------------
(* The order of delivery: every step keeps the invariant *)

LEMMA DeliveryInit == Init => DeliveryInv
<1> SUFFICES ASSUME Init PROVE DeliveryInv
  OBVIOUS
<1>1. 0..0 \subseteq Reached
  BY DEF Init, Reached, Settled
<1>2. HeldInv
  BY DEF Init, HeldInv
<1>3. ResumeInv
  BY <1>1, PosOfControl, StartsInEmpty DEF Init, ResumeInv
<1>4. ComingInv
  BY InOrderEmpty DEF Init, ComingInv
<1> QED BY <1>2, <1>3, <1>4 DEF DeliveryInv

LEMMA DeliveryStep == IInv /\ DeliveryInv /\ [Next]_vars => DeliveryInv'
<1> SUFFICES ASSUME IInv, DeliveryInv, [Next]_vars
             PROVE  DeliveryInv'
  OBVIOUS
<1>1. TypeOK /\ FrameInv /\ SdkInv /\ HeldInv /\ ResumeInv /\ ComingInv
  BY DEF IInv, DeliveryInv
<1>2. /\ inbox \in Seq(InFrames) /\ outbox \in Seq(OutFrames) /\ queue \in Seq(InFrames)
      /\ pendingAck \in InFrames /\ flushing \in InFrames /\ ackedPos \in 0..MaxPos
      /\ lastBody \in Bodies \cup {NoBody}
      /\ pendingAck.pos \in 0..MaxPos /\ flushing.pos \in 0..MaxPos
  BY <1>1, PosOfType DEF TypeOK, SocketType, TransportType
<1>3. CASE OpenSocket
  <2>1. /\ UNCHANGED <<held, base, applied, dropped, sdk, queue, inbox, cursor,
                       ackedPos, pendingAck, flushing, outbox>>
    BY <1>3 DEF OpenSocket, sdkVars, histVars, gwVars
  <2> QED BY <1>1, <2>1, ReachedGrows, HeldKept, ComingKept, ResumeKept DEF DeliveryInv
<1>4. CASE SocketOpens
  <2>1. /\ UNCHANGED <<held, base, applied, dropped, sdk, queue, inbox, cursor,
                       ackedPos, pendingAck, flushing>>
        /\ outbox' = <<OutFrame("auth", 0, NoBody)>>
    BY <1>4 DEF SocketOpens, sdkVars, histVars, gwVars
  <2>2. StartsIn(outbox', Reached')
    BY <2>1, StartsInOne
  <2> QED BY <1>1, <2>1, <2>2, ReachedGrows, HeldKept, ComingKept, ResumeKept DEF DeliveryInv
<1>5. CASE SocketCloses
  <2>1. /\ UNCHANGED <<held, base, applied, dropped, queue, ackedPos, flushing>>
        /\ inbox' = <<>> /\ outbox' = <<>> /\ cursor' = NoStream
        /\ pendingAck' = NoFrame
        /\ sdk' \in {"wait", "flush"} => sdk' = sdk
    BY <1>5 DEF SocketCloses
  <2>2. Settled \subseteq Settled' /\ Reached \subseteq Reached'
    BY <2>1, ReachedGrows
  <2>3. HeldInv'
    BY <1>1, <2>1, <2>2, HeldKept
  <2>4. ResumeInv'
    BY <1>1, <2>1, <2>2, ResumeKept, StartsInEmpty
  <2>5. InOrder(queue', Reached') /\ InOrder(inbox', Reached' \cup PosIn(queue'))
    BY <1>1, <2>1, <2>2, InOrderMono, InOrderEmpty DEF ComingInv
  <2>6. cursor' = NoStream'
    BY <2>1 DEF NoStream
  <2>7. ComingInv'
    BY <2>5, <2>6 DEF ComingInv
  <2> QED BY <2>3, <2>4, <2>7 DEF DeliveryInv
<1>6. CASE ReceiveAuthOk
  <2>1. /\ UNCHANGED <<held, base, applied, dropped, queue, cursor, ackedPos,
                       pendingAck, flushing, lastBody>>
        /\ inbox # <<>> /\ Head(inbox).t = "auth_ok" /\ inbox' = Tail(inbox)
        /\ sdk' \in {"wait", "flush"} => sdk' = sdk
    BY <1>6 DEF ReceiveAuthOk, histVars, gwVars
  <2>2. Settled \subseteq Settled' /\ Reached \subseteq Reached'
    BY <2>1, ReachedGrows
  <2>3. StartsIn(outbox', Reached')
    <3> DEFINE s == IF lastBody = NoBody THEN <<>>
                    ELSE <<OutFrame("sync_start", ackedPos, lastBody)>>
    <3>1. Send(s)
      BY <1>6 DEF ReceiveAuthOk
    <3>2. s \in Seq(OutFrames)
      BY <1>2, OutTypes
    <3>3. 0..ackedPos \subseteq Reached' /\ StartsIn(outbox, Reached)
      BY <1>1, <2>2 DEF ResumeInv
    <3>4. StartsIn(s, Reached')
      BY <3>3, StartsInOne, StartsInEmpty
    <3> HIDE DEF s
    <3> QED BY <1>2, <2>2, <3>1, <3>2, <3>3, <3>4, StartsInSend
  <2> QED BY <1>1, <2>1, <2>2, <2>3, HeldKept, ControlRead, ResumeKept DEF DeliveryInv
<1>7. CASE ReceiveReauth
  <2>1. /\ UNCHANGED <<held, base, applied, dropped, sdk, queue, cursor, ackedPos,
                       pendingAck, flushing>>
        /\ inbox # <<>> /\ Head(inbox).t = "reauth" /\ inbox' = Tail(inbox)
        /\ Send(<<OutFrame("auth", 0, NoBody)>>)
    BY <1>7 DEF ReceiveReauth, sdkVars, histVars, gwVars
  <2>2. Settled \subseteq Settled' /\ Reached \subseteq Reached'
    BY <2>1, ReachedGrows
  <2>3. StartsIn(outbox', Reached')
    <3>1. <<OutFrame("auth", 0, NoBody)>> \in Seq(OutFrames)
      BY SyncAssumption, OutTypes, 0 \in 0..MaxPos
    <3>2. StartsIn(<<OutFrame("auth", 0, NoBody)>>, Reached') /\ StartsIn(outbox, Reached)
      BY <1>1, StartsInOne DEF ResumeInv
    <3> QED BY <1>2, <2>1, <2>2, <3>1, <3>2, StartsInSend
  <2> QED BY <1>1, <2>1, <2>2, <2>3, HeldKept, ControlRead, ResumeKept DEF DeliveryInv
<1>8. CASE ReceiveSyncWaiting
  <2> DEFINE f == Head(inbox)
  <2>1. /\ UNCHANGED <<base, applied, dropped, queue, cursor, ackedPos, flushing, outbox>>
        /\ inbox # <<>> /\ f.t = "sync" /\ inbox' = Tail(inbox) /\ sdk = "wait"
        /\ sdk' = "ready" /\ held' = f /\ pendingAck' = f
    BY <1>8 DEF ReceiveSyncWaiting, gwVars
  <2>2. held = NoFrame /\ queue = <<>>
    BY <1>1, <2>1 DEF HeldInv, SdkInv
  <2>3. f \in InFrames /\ f.pos \in 0..MaxPos
    BY <1>2, <2>1, PosOfType
  <2>4. Settled' = Settled /\ Reached = Settled /\ Reached \subseteq Reached'
    BY <2>1, <2>2, PosOfControl, ReachedGrows DEF Settled, Reached
  <2>5. Reached' = Reached \cup PosOf(f)
    BY <2>1, <2>4 DEF Reached
  <2>6. PosIn(queue) = {} /\ queue' = queue /\ InOrder(queue', Reached')
    BY <2>1, <2>2, InOrderEmpty
  <2>7. InOrder(inbox, Reached)
    BY <1>1, <2>6 DEF ComingInv
  <2>8. 0..(f.pos - 1) \subseteq Settled
    BY <1>2, <2>1, <2>4, <2>7, InOrderHead
  <2>9. 0..f.pos \subseteq Reached'
    BY <2>1, <2>3, <2>4, <2>5, <2>8, SyncAssumption DEF PosOf
  <2>10. HeldInv'
    BY <1>1, <2>1, <2>4, <2>8 DEF HeldInv
  <2>11. ResumeInv'
    <3>1. StartsIn(outbox', Reached')
      BY <1>1, <2>1, <2>4, StartsInMono DEF ResumeInv
    <3> QED BY <1>1, <2>1, <2>4, <2>9, <3>1 DEF ResumeInv
  <2>12. ComingInv'
    <3>1. InOrder(inbox', Reached' \cup PosIn(queue'))
      BY <1>2, <2>1, <2>5, <2>6, <2>7, InOrderTail
    <3>2. PosIn(inbox) = PosOf(f) \cup PosIn(inbox')
      BY <1>2, <2>1, PosInHeadTail
    <3>3. cursor' # NoStream' =>
              0..cursor' \subseteq Reached' \cup PosIn(queue') \cup PosIn(inbox')
      BY <1>1, <2>1, <2>5, <3>2 DEF ComingInv, NoStream
    <3> QED BY <2>6, <3>1, <3>3 DEF ComingInv
  <2> QED BY <2>10, <2>11, <2>12 DEF DeliveryInv
<1>9. CASE ReceiveSyncBuffered
  <2> DEFINE f == Head(inbox)
             a == Append(queue, f)
  <2>1. /\ UNCHANGED <<base, applied, held, sdk, cursor, ackedPos, pendingAck,
                       flushing, outbox>>
        /\ inbox # <<>> /\ f.t = "sync" /\ inbox' = Tail(inbox)
        /\ dropped \subseteq dropped'
    BY <1>9 DEF ReceiveSyncBuffered, gwVars, sdkVars
  <2>2. f \in InFrames /\ a \in Seq(InFrames) /\ a # <<>>
    BY <1>2, <2>1, AppendProperties
  <2>3. Settled \subseteq Settled' /\ Reached \subseteq Reached'
    BY <2>1, ReachedGrows
  <2>4. 0..(f.pos - 1) \subseteq Reached \cup PosIn(queue)
    BY <1>1, <1>2, <2>1, InOrderHead DEF ComingInv
  <2>5. InOrder(a, Reached)
    BY <1>1, <1>2, <2>2, <2>4, InOrderAppend DEF ComingInv
  <2>6. PosIn(a) = PosIn(queue) \cup PosOf(f)
    BY <1>2, <2>2, PosInAppend
  <2>7. InOrder(inbox', Reached \cup PosIn(a)) /\ PosIn(inbox) = PosOf(f) \cup PosIn(inbox')
    <3>1. InOrder(inbox', Reached \cup PosIn(queue) \cup PosOf(f))
      BY <1>1, <1>2, <2>1, InOrderTail DEF ComingInv
    <3> QED BY <1>2, <2>1, <2>6, <3>1, PosInHeadTail, InOrderMono
  <2>8. InOrder(queue', Reached') /\ Reached \cup PosIn(a) \subseteq Reached' \cup PosIn(queue')
    <3>1. CASE Len(queue) < QueueCap
      <4>1. queue' = a
        BY <1>9, <3>1 DEF ReceiveSyncBuffered
      <4> HIDE DEF a
      <4> QED BY <2>3, <2>5, <4>1, InOrderMono
    <3>2. CASE ~(Len(queue) < QueueCap)
      <4>1. queue' = Tail(a) /\ dropped' = dropped \cup {Head(queue).pos}
        BY <1>9, <3>2 DEF ReceiveSyncBuffered
      <4>2. queue # <<>>
        BY <3>2, SyncAssumption
      <4>3. Head(a) = Head(queue)
        BY <1>2, <2>2, <4>2, AppendProperties, LenProperties, EmptySeq
      <4>4. PosOf(Head(a)) \subseteq Reached'
        BY <4>1, <4>3 DEF PosOf, Reached, Settled
      <4> HIDE DEF a
      <4>5. InOrder(Tail(a), Reached \cup PosOf(Head(a)))
        BY <2>2, <2>5, InOrderTail
      <4>6. PosIn(a) = PosOf(Head(a)) \cup PosIn(Tail(a))
        BY <2>2, PosInHeadTail
      <4> QED BY <2>3, <4>1, <4>4, <4>5, <4>6, InOrderMono
    <3> QED BY <3>1, <3>2
  <2> HIDE DEF a
  <2>9. HeldInv'
    BY <1>1, <2>1, <2>3, HeldKept
  <2>10. ResumeInv'
    BY <1>1, <2>1, <2>3, ResumeKept
  <2>11. ComingInv'
    <3>1. InOrder(inbox', Reached' \cup PosIn(queue'))
      BY <2>7, <2>8, InOrderMono
    <3>2. cursor' # NoStream' =>
              0..cursor' \subseteq Reached' \cup PosIn(queue') \cup PosIn(inbox')
      BY <1>1, <2>1, <2>6, <2>7, <2>8 DEF ComingInv, NoStream
    <3> QED BY <2>8, <3>1, <3>2 DEF ComingInv
  <2> QED BY <2>9, <2>10, <2>11 DEF DeliveryInv
<1>10. CASE RequestWithoutAck
  <2>1. /\ UNCHANGED <<inbox, cursor, base, applied, dropped, ackedPos, flushing>>
        /\ held = NoFrame /\ NextSyncFrame(pendingAck)
    BY <1>10 DEF RequestWithoutAck, SdkCalls, gwVars
  <2>2. /\ HeldInv' /\ ComingInv' /\ Reached \subseteq Reached'
        /\ 0..pendingAck'.pos \subseteq Reached'
    BY <1>1, <1>2, <2>1, Delivers DEF ResumeInv
  <2>3. PICK b \in Bodies : Send(BodyFrames(b, ackedPos))
    BY <1>10 DEF RequestWithoutAck
  <2>4. StartsIn(outbox, Reached) /\ 0..ackedPos \subseteq Reached'
    BY <1>1, <2>2 DEF ResumeInv
  <2>5. BodyFrames(b, ackedPos) \in Seq(OutFrames)
        /\ StartsIn(BodyFrames(b, ackedPos), Reached')
    BY <1>2, <2>4, BodyFramesType, StartsInBody
  <2>6. StartsIn(outbox', Reached')
    BY <1>2, <2>2, <2>3, <2>4, <2>5, StartsInSend
  <2> QED BY <1>1, <2>1, <2>2, <2>4, <2>6 DEF DeliveryInv, ResumeInv
<1>11. CASE RequestWithAck
  <2> DEFINE p == pendingAck.pos
  <2>1. /\ UNCHANGED <<inbox, cursor, base, applied, dropped, flushing>>
        /\ held = NoFrame /\ NextSyncFrame(NoFrame) /\ ackedPos' = p
    BY <1>11 DEF RequestWithAck, SdkCalls, gwVars, histVars, PersistAckedPos
  <2>2. 0..NoFrame.pos \subseteq Reached /\ NoFrame \in InFrames
    BY <1>1, PosOfControl, FrameTypes DEF TypeOK, HistoryType, Settled, Reached
  <2>3. /\ HeldInv' /\ ComingInv' /\ Reached \subseteq Reached'
        /\ 0..pendingAck'.pos \subseteq Reached'
    BY <1>1, <1>2, <2>1, <2>2, Delivers
  <2>4. StartsIn(outbox, Reached) /\ 0..p \subseteq Reached'
    BY <1>1, <2>3 DEF ResumeInv
  <2>5. PICK b \in Bodies :
            Send(<<OutFrame("sync_ack", p, NoBody)>> \o BodyFrames(b, p))
    BY <1>11 DEF RequestWithAck
  <2>6. /\ <<OutFrame("sync_ack", p, NoBody)>> \o BodyFrames(b, p) \in Seq(OutFrames)
        /\ StartsIn(<<OutFrame("sync_ack", p, NoBody)>> \o BodyFrames(b, p), Reached')
    BY <1>2, <2>4, BodyFramesType, StartsInBody
  <2>7. StartsIn(outbox', Reached')
    BY <1>2, <2>3, <2>4, <2>5, <2>6, StartsInSend
  <2>8. ResumeInv'
    BY <1>1, <2>1, <2>3, <2>4, <2>7 DEF ResumeInv
  <2> QED BY <2>3, <2>8 DEF DeliveryInv
<1>12. CASE RequestWithFlush
  <2>1. /\ UNCHANGED <<held, base, applied, dropped, queue, inbox, cursor, ackedPos, outbox>>
        /\ held = NoFrame /\ pendingAck' = NoFrame /\ flushing' = pendingAck
    BY <1>12 DEF RequestWithFlush, SdkCalls, gwVars, histVars
  <2>2. Settled \subseteq Settled' /\ Reached \subseteq Reached'
    BY <2>1, ReachedGrows
  <2> QED BY <1>1, <2>1, <2>2, HeldKept, ComingKept, ResumeKept DEF DeliveryInv
<1>13. CASE FlushReturns
  <2> DEFINE p == flushing.pos
  <2>1. /\ UNCHANGED <<inbox, cursor, base, applied, dropped>>
        /\ NextSyncFrame(pendingAck) /\ ackedPos' = p /\ flushing' = NoFrame
    BY <1>13 DEF FlushReturns, gwVars, PersistAckedPos
  <2>2. held = NoFrame
    <3>1. dumps # <<>> /\ Head(dumps).by = "flush" /\ dumps \in Seq(Snapshots)
      BY <1>1, <1>13 DEF FlushReturns, TypeOK, StoreType
    <3>2. 1 \in 1..Len(dumps) /\ Head(dumps) = dumps[1]
      BY <3>1, LenProperties, EmptySeq
    <3>3. DumpInv
      BY DEF IInv
    <3>4. sdk = "flush"
      BY <3>1, <3>2, <3>3 DEF DumpInv
    <3> QED BY <1>1, <3>4 DEF HeldInv
  <2>3. /\ HeldInv' /\ ComingInv' /\ Reached \subseteq Reached'
        /\ 0..pendingAck'.pos \subseteq Reached'
    BY <1>1, <1>2, <2>1, <2>2, Delivers DEF ResumeInv
  <2>4. StartsIn(outbox, Reached) /\ 0..p \subseteq Reached'
    BY <1>1, <2>3 DEF ResumeInv
  <2>5. PICK b \in Bodies :
            Send(<<OutFrame("sync_ack", p, NoBody)>> \o BodyFrames(b, p))
    BY <1>13 DEF FlushReturns
  <2>6. /\ <<OutFrame("sync_ack", p, NoBody)>> \o BodyFrames(b, p) \in Seq(OutFrames)
        /\ StartsIn(<<OutFrame("sync_ack", p, NoBody)>> \o BodyFrames(b, p), Reached')
    BY <1>2, <2>4, BodyFramesType, StartsInBody
  <2>7. StartsIn(outbox', Reached')
    BY <1>2, <2>3, <2>4, <2>5, <2>6, StartsInSend
  <2>8. 0..NoFrame.pos \subseteq Reached
    BY <1>1, PosOfControl DEF TypeOK, HistoryType, Settled, Reached
  <2>9. ResumeInv'
    BY <2>1, <2>3, <2>4, <2>7, <2>8 DEF ResumeInv
  <2> QED BY <2>3, <2>9 DEF DeliveryInv
<1>14. CASE WaitEnds
  <2>1. /\ UNCHANGED <<held, base, applied, dropped, queue, inbox, cursor,
                       ackedPos, pendingAck, flushing, outbox>>
        /\ sdk' = "ready"
    BY <1>14 DEF WaitEnds, gwVars, histVars
  <2>2. Settled \subseteq Settled' /\ Reached \subseteq Reached'
    BY <2>1, ReachedGrows
  <2> QED BY <1>1, <2>1, <2>2, HeldKept, ComingKept, ResumeKept DEF DeliveryInv
<1>15. CASE SdkProcesses
  <2>1. /\ UNCHANGED <<base, dropped, sdk, queue, inbox, cursor, ackedPos,
                       pendingAck, flushing, outbox>>
        /\ held # NoFrame /\ held' = NoFrame /\ applied' = applied \cup {held.pos}
    BY <1>15 DEF SdkProcesses, gwVars
  <2>2. held.t = "sync" /\ 0..(held.pos - 1) \subseteq Settled
    BY <1>1, <2>1 DEF HeldInv
  <2>3. Settled' = Settled \cup {held.pos}
    BY <2>1 DEF Settled
  <2>4. Reached' = Reached
    BY <2>1, <2>2, <2>3, PosOfControl DEF Reached, PosOf
  <2>5. HeldInv'
    BY <1>1, <2>1, <2>2, <2>3 DEF HeldInv
  <2> QED BY <1>1, <2>1, <2>4, <2>5, ComingKept, ResumeKept DEF DeliveryInv
<1>16. CASE PersistTimerFires
  <2>1. UNCHANGED <<held, base, applied, dropped, sdk, queue, inbox, cursor,
                    ackedPos, pendingAck, flushing, outbox>>
    BY <1>16 DEF PersistTimerFires, gwVars, histVars, sdkVars
  <2> QED BY <1>1, <2>1, ReachedGrows, HeldKept, ComingKept, ResumeKept DEF DeliveryInv
<1>17. CASE PersistTimerReturns
  <2>1. UNCHANGED <<held, base, applied, dropped, sdk, queue, inbox, cursor,
                    ackedPos, pendingAck, flushing, outbox>>
    BY <1>17 DEF PersistTimerReturns, gwVars, histVars, sdkVars
  <2> QED BY <1>1, <2>1, ReachedGrows, HeldKept, ComingKept, ResumeKept DEF DeliveryInv
<1>18. CASE CrashAndRestart
  <2>1. /\ pendingAck' = NoFrame /\ flushing' = NoFrame /\ held' = NoFrame
        /\ queue' = <<>> /\ inbox' = <<>> /\ outbox' = <<>> /\ applied' = {}
        /\ cursor' = NoStream /\ ackedPos' \in {0, posFile} /\ base' = ackedPos'
        /\ sdk' = "boot"
    BY <1>18 DEF CrashAndRestart, LoadPersistedPos
  <2>2. 0..ackedPos' \subseteq Reached' /\ 0..NoFrame.pos \subseteq Reached'
    <3>1. ackedPos' \in Nat
      BY <1>1, <2>1 DEF TypeOK, StoreType
    <3>2. 0..base' \subseteq Reached'
      BY DEF Reached, Settled
    <3> QED BY <2>1, <3>1, <3>2, PosOfControl
  <2>3. HeldInv'
    BY <2>1 DEF HeldInv
  <2>4. ResumeInv'
    BY <2>1, <2>2, StartsInEmpty DEF ResumeInv
  <2>5. cursor' = NoStream'
    BY <2>1 DEF NoStream
  <2>6. ComingInv'
    BY <2>1, <2>5, InOrderEmpty DEF ComingInv
  <2> QED BY <2>3, <2>4, <2>6 DEF DeliveryInv
<1>19. CASE GatewayReceives
  <2> DEFINE f == Head(outbox)
  <2>1. /\ UNCHANGED <<held, base, applied, dropped, sdk, queue, ackedPos,
                       pendingAck, flushing>>
        /\ outbox # <<>> /\ outbox' = Tail(outbox)
        /\ inbox' \in {inbox, Append(inbox, Control("auth_ok"))}
        /\ cursor' = IF f.t = "sync_start" THEN f.pos ELSE cursor
    BY <1>19 DEF GatewayReceives, histVars, sdkVars
  <2>2. Settled \subseteq Settled' /\ Reached \subseteq Reached'
    BY <2>1, ReachedGrows
  <2>3. StartsIn(outbox, Reached')
    BY <1>1, <2>2, StartsInMono DEF ResumeInv
  <2>4. /\ StartsIn(outbox', Reached')
        /\ f.t = "sync_start" => 0..f.pos \subseteq Reached'
    BY <1>2, <2>1, <2>3, StartsInTail
  <2>5. ComingInv'
    BY <1>1, <2>1, <2>2, <2>4, ControlSent, PosOfControl, FrameTypes
  <2> QED BY <1>1, <2>1, <2>2, <2>4, <2>5, HeldKept, ResumeKept DEF DeliveryInv
<1>20. CASE GatewayPushes
  <2> DEFINE p == cursor + 1
             k == p \in KeyPos /\ p > released
             f == SyncFrame(p, k)
  <2>1. /\ UNCHANGED <<held, base, applied, dropped, sdk, queue, ackedPos,
                       pendingAck, flushing, outbox>>
        /\ cursor' = p /\ inbox' = Append(inbox, f)
    BY <1>20 DEF GatewayPushes, histVars, sdkVars
  <2>2. cursor # NoStream /\ cursor \in Nat /\ p \in 0..MaxPos /\ p - 1 = cursor
    BY <1>1, <1>20, SyncAssumption DEF GatewayPushes, NoStream, TypeOK, GatewayType
  <2>3. f \in InFrames /\ f.t = "sync" /\ f.pos = p /\ PosOf(f) = {p}
    BY <2>2, FrameTypes DEF SyncFrame, PosOf
  <2> HIDE DEF f
  <2>4. Settled \subseteq Settled' /\ Reached' = Reached
    BY <2>1, ReachedGrows DEF Reached, Settled, PosOf
  <2>5. 0..cursor \subseteq Reached \cup PosIn(queue) \cup PosIn(inbox)
    BY <1>1, <2>2 DEF ComingInv
  <2>6. PosIn(inbox') = PosIn(inbox) \cup {p}
    BY <1>2, <2>1, <2>3, PosInAppend
  <2>7. InOrder(inbox', Reached \cup PosIn(queue))
    <3>1. 0..(f.pos - 1) \subseteq Reached \cup PosIn(queue) \cup PosIn(inbox)
      BY <2>2, <2>3, <2>5
    <3> QED BY <1>1, <1>2, <2>1, <2>3, <3>1, InOrderAppend DEF ComingInv
  <2>8. 0..p \subseteq 0..cursor \cup {p}
    BY <2>2
  <2>9. 0..cursor' \subseteq Reached' \cup PosIn(queue') \cup PosIn(inbox')
    BY <2>1, <2>4, <2>5, <2>6, <2>8
  <2>10. InOrder(queue', Reached') /\ InOrder(inbox', Reached' \cup PosIn(queue'))
    BY <1>1, <2>1, <2>4, <2>7 DEF ComingInv
  <2>11. ComingInv'
    BY <2>9, <2>10 DEF ComingInv
  <2> QED BY <1>1, <2>1, <2>4, <2>11, HeldKept, ResumeKept DEF DeliveryInv
<1>21. CASE GatewayReauths
  <2>1. /\ UNCHANGED <<held, base, applied, dropped, sdk, queue, cursor, ackedPos,
                       pendingAck, flushing, outbox>>
        /\ inbox' = Append(inbox, Control("reauth"))
    BY <1>21 DEF GatewayReauths, histVars, sdkVars, gwVars
  <2>2. Settled \subseteq Settled' /\ Reached \subseteq Reached'
    BY <2>1, ReachedGrows
  <2>3. ComingInv'
    BY <1>1, <2>1, <2>2, ControlSent, PosOfControl, FrameTypes
  <2> QED BY <1>1, <2>1, <2>2, <2>3, HeldKept, ResumeKept DEF DeliveryInv
<1>22. CASE UNCHANGED vars
  <2>1. UNCHANGED <<held, base, applied, dropped, sdk, queue, inbox, cursor,
                    ackedPos, pendingAck, flushing, outbox>>
    BY <1>22 DEF vars
  <2> QED BY <1>1, <2>1, ReachedGrows, HeldKept, ComingKept, ResumeKept DEF DeliveryInv
<1> QED
  BY <1>3, <1>4, <1>5, <1>6, <1>7, <1>8, <1>9, <1>10, <1>11, <1>12, <1>13, <1>14,
     <1>15, <1>16, <1>17, <1>18, <1>19, <1>20, <1>21, <1>22
  DEF Next

-----------------------------------------------------------------------------
(* Lemmas about Leaves *)

\* Leaves is what the model's BodyAfter computes.
LEMMA LeavesIsBodyAfter ==
    ASSUME NEW s \in Seq(OutFrames), NEW g, NEW b, Leaves(s, g, b)
    PROVE  BodyAfter(s, g) = b
<1> DEFINE sent == {i \in 1..Len(s) : s[i].t \in {"sync_start", "sync_update"}}
<1>1. CASE g = b /\ \A i \in 1..Len(s) : ~IsBody(s[i])
  <2>1. sent = {}
    BY <1>1 DEF IsBody
  <2> QED BY <1>1, <2>1 DEF BodyAfter
<1>2. ASSUME NEW i \in 1..Len(s), IsBody(s[i]), s[i].body = b,
             \A j \in 1..Len(s) : j > i => ~IsBody(s[j])
      PROVE  BodyAfter(s, g) = b
  <2>1. i \in sent
    BY <1>2 DEF IsBody
  <2>2. \A j \in sent : j <= i
    BY <1>2 DEF IsBody
  <2>3. \A m \in sent : (\A j \in sent : j <= m) => m = i
    <3>1. sent \subseteq Int /\ i \in Int
      OBVIOUS
    <3> HIDE DEF sent
    <3> QED BY <2>1, <2>2, <3>1
  <2>4. BodyAfter(s, g) = s[CHOOSE m \in sent : \A j \in sent : j <= m].body
    BY <2>1 DEF BodyAfter
  <2> HIDE DEF sent
  <2>5. (CHOOSE m \in sent : \A j \in sent : j <= m) = i
    BY <2>1, <2>2, <2>3
  <2> QED BY <1>2, <2>4, <2>5
<1> QED BY <1>1, <1>2 DEF Leaves

LEMMA LeavesEmpty == ASSUME NEW g PROVE Leaves(<<>>, g, g)
BY EmptySeq DEF Leaves

LEMMA LeavesOne ==
    ASSUME NEW type, NEW p, NEW b, NEW g
    PROVE  IF type \in {"sync_start", "sync_update"}
           THEN Leaves(<<OutFrame(type, p, b)>>, g, b)
           ELSE Leaves(<<OutFrame(type, p, b)>>, g, g)
<1> DEFINE s == <<OutFrame(type, p, b)>>
<1>1. Len(s) = 1 /\ s[1] = OutFrame(type, p, b) /\ 1 \in 1..Len(s)
  OBVIOUS
<1>2. s[1].t = type /\ s[1].body = b
  BY <1>1 DEF OutFrame
<1> HIDE DEF s
<1>3. \A j \in 1..Len(s) : j = 1
  BY <1>1
<1>4. CASE type \in {"sync_start", "sync_update"}
  BY <1>1, <1>2, <1>3, <1>4 DEF Leaves, IsBody, s
<1>5. CASE type \notin {"sync_start", "sync_update"}
  BY <1>1, <1>2, <1>3, <1>5 DEF Leaves, IsBody, s
<1> QED BY <1>4, <1>5

LEMMA LeavesConcat ==
    ASSUME NEW s \in Seq(OutFrames), NEW u \in Seq(OutFrames), NEW g, NEW m, NEW b,
           Leaves(s, g, m), Leaves(u, m, b)
    PROVE  Leaves(s \o u, g, b)
<1> DEFINE w == s \o u
<1>1. /\ Len(w) = Len(s) + Len(u) /\ Len(s) \in Nat /\ Len(u) \in Nat
      /\ \A i \in 1..Len(s) : i \in 1..Len(w) /\ w[i] = s[i]
      /\ \A i \in 1..Len(u) : Len(s) + i \in 1..Len(w) /\ w[Len(s) + i] = u[i]
  BY ConcatProperties, LenProperties
<1>2. \A j \in 1..Len(w) : j \in 1..Len(s) \/ j - Len(s) \in 1..Len(u)
  BY <1>1
<1>3. \A j \in 1..Len(w) : j - Len(s) \in 1..Len(u) => w[j] = u[j - Len(s)]
  BY <1>1
<1> HIDE DEF w
<1>4. CASE m = b /\ \A i \in 1..Len(u) : ~IsBody(u[i])
  <2>1. CASE g = m /\ \A i \in 1..Len(s) : ~IsBody(s[i])
    <3>1. \A j \in 1..Len(w) : ~IsBody(w[j])
      BY <1>1, <1>2, <1>3, <1>4, <2>1
    <3> QED BY <1>4, <2>1, <3>1 DEF Leaves, w
  <2>2. ASSUME NEW i \in 1..Len(s), IsBody(s[i]), s[i].body = m,
               \A j \in 1..Len(s) : j > i => ~IsBody(s[j])
        PROVE  Leaves(w, g, b)
    <3>1. i \in 1..Len(w) /\ IsBody(w[i]) /\ w[i].body = b
      BY <1>1, <1>4, <2>2
    <3>2. \A j \in 1..Len(w) : j > i => ~IsBody(w[j])
      BY <1>1, <1>2, <1>3, <1>4, <2>2
    <3> QED BY <3>1, <3>2 DEF Leaves
  <2> QED BY <2>1, <2>2 DEF Leaves, w
<1>5. ASSUME NEW i \in 1..Len(u), IsBody(u[i]), u[i].body = b,
             \A j \in 1..Len(u) : j > i => ~IsBody(u[j])
      PROVE  Leaves(w, g, b)
  <2>1. /\ Len(s) + i \in 1..Len(w)
        /\ IsBody(w[Len(s) + i]) /\ w[Len(s) + i].body = b
    BY <1>1, <1>5
  <2>2. \A j \in 1..Len(w) : j > Len(s) + i => ~IsBody(w[j])
    <3> SUFFICES ASSUME NEW j \in 1..Len(w), j > Len(s) + i
                 PROVE  ~IsBody(w[j])
      OBVIOUS
    <3>1. j - Len(s) \in 1..Len(u) /\ j - Len(s) > i
      BY <1>1
    <3> QED BY <1>3, <1>5, <3>1
  <2> QED BY <2>1, <2>2 DEF Leaves
<1> QED BY <1>4, <1>5 DEF Leaves, w

\* A body frame sent last is what counts, whatever was on the wire.
LEMMA LeavesOverwritten ==
    ASSUME NEW s \in Seq(OutFrames), NEW f \in OutFrames, IsBody(f), NEW g
    PROVE  Leaves(s \o <<f>>, g, f.body)
<1> DEFINE w == s \o <<f>>
<1>1. <<f>> \in Seq(OutFrames) /\ Len(<<f>>) = 1 /\ <<f>>[1] = f
  OBVIOUS
<1>2. /\ Len(w) = Len(s) + 1 /\ Len(s) \in Nat /\ w[Len(s) + 1] = f
      /\ Len(s) + 1 \in 1..Len(w)
  BY <1>1, ConcatProperties, LenProperties
<1> HIDE DEF w
<1>3. \A j \in 1..Len(w) : ~(j > Len(s) + 1)
  BY <1>2
<1> QED BY <1>2, <1>3 DEF Leaves, w

\* The gateway reads one frame.
LEMMA LeavesTail ==
    ASSUME NEW s \in Seq(OutFrames), s # <<>>, NEW g, NEW b, Leaves(s, g, b)
    PROVE  Leaves(Tail(s), IF IsBody(Head(s)) THEN Head(s).body ELSE g, b)
<1> DEFINE u == Tail(s)
<1>1. /\ Len(u) = Len(s) - 1 /\ Len(s) \in Nat \ {0}
      /\ Head(s) = s[1] /\ 1 \in 1..Len(s)
      /\ \A i \in 1..Len(u) : u[i] = s[i + 1] /\ i + 1 \in 1..Len(s)
  BY HeadTailProperties, LenProperties, EmptySeq
<1> HIDE DEF u
<1>2. CASE g = b /\ \A i \in 1..Len(s) : ~IsBody(s[i])
  <2>1. ~IsBody(Head(s)) /\ \A i \in 1..Len(u) : ~IsBody(u[i])
    BY <1>1, <1>2
  <2> QED BY <1>2, <2>1 DEF Leaves, u
<1>3. ASSUME NEW i \in 1..Len(s), IsBody(s[i]), s[i].body = b,
             \A j \in 1..Len(s) : j > i => ~IsBody(s[j])
      PROVE  Leaves(u, IF IsBody(Head(s)) THEN Head(s).body ELSE g, b)
  <2>1. CASE i = 1
    <3>1. \A j \in 1..Len(u) : ~IsBody(u[j])
      BY <1>1, <1>3, <2>1
    <3> QED BY <1>1, <1>3, <2>1, <3>1 DEF Leaves
  <2>2. CASE i # 1
    <3>1. i - 1 \in 1..Len(u) /\ u[i - 1] = s[i]
      BY <1>1, <2>2
    <3>2. \A j \in 1..Len(u) : j > i - 1 => ~IsBody(u[j])
      BY <1>1, <1>3, <2>2
    <3> QED BY <1>3, <3>1, <3>2 DEF Leaves
  <2> QED BY <2>1, <2>2
<1> QED BY <1>2, <1>3 DEF Leaves, u

\* What slidingSyncRequest sends for body b leaves the gateway with b, provided
\* it had the body asked for last.
LEMMA LeavesBody ==
    ASSUME NEW b \in Bodies, NEW p \in 0..MaxPos
    PROVE  /\ Leaves(BodyFrames(b, p), lastBody, b)
           /\ Leaves(<<OutFrame("sync_ack", p, NoBody)>> \o BodyFrames(b, p), lastBody, b)
<1>1. Leaves(BodyFrames(b, p), lastBody, b)
  <2>1. CASE lastBody = NoBody
    BY <2>1, LeavesOne DEF BodyFrames
  <2>2. CASE lastBody # NoBody /\ b # lastBody
    BY <2>2, LeavesOne DEF BodyFrames
  <2>3. CASE lastBody # NoBody /\ b = lastBody
    BY <2>3, LeavesEmpty DEF BodyFrames
  <2> QED BY <2>1, <2>2, <2>3
<1>2. Leaves(<<OutFrame("sync_ack", p, NoBody)>>, lastBody, lastBody)
  BY LeavesOne
<1>3. <<OutFrame("sync_ack", p, NoBody)>> \in Seq(OutFrames) /\ BodyFrames(b, p) \in Seq(OutFrames)
  BY OutTypes, BodyFramesType
<1> QED BY <1>1, <1>2, <1>3, LeavesConcat

-----------------------------------------------------------------------------
(* The subscription: every step keeps the invariant *)

LEMMA WireInit == Init => WireInv
BY LeavesEmpty DEF Init, WireInv

LEMMA WireKept ==
    ASSUME WireInv, connected' = connected, link' = link \/ {link, link'} \subseteq {"down", "connecting"},
           UNCHANGED <<lastBody, gwBody, outbox>>,
           inbox' = inbox \/ link = "open", cursor' = cursor \/ link = "open"
    PROVE  WireInv'
BY DEF WireInv, NoStream

\* A request whose body is b, while the plugin believes it is connected, and
\* also while it does not.
LEMMA WireAsked ==
    ASSUME TypeOK, WireInv, UNCHANGED <<link, connected, inbox, cursor, gwBody>>,
           NEW b \in Bodies, lastBody' = b,
           NEW s \in Seq(OutFrames), Send(s), Leaves(s, lastBody, b)
    PROVE  WireInv'
<1>1. lastBody' # NoBody
  BY SyncAssumption
<1>2. link # "open" => outbox' = outbox
  BY DEF Send
<1>3. connected' => Leaves(outbox', gwBody', lastBody')
  <2> SUFFICES ASSUME connected PROVE Leaves(outbox', gwBody', lastBody')
    OBVIOUS
  <2>1. Leaves(outbox, gwBody, lastBody) /\ outbox' = outbox \o s
    BY DEF WireInv, Send
  <2>2. outbox \in Seq(OutFrames)
    BY DEF TypeOK, SocketType
  <2> QED BY <2>1, <2>2, LeavesConcat
<1> QED BY <1>1, <1>2, <1>3 DEF WireInv, NoStream

LEMMA WireStep == IInv /\ WireInv /\ [Next]_vars => WireInv'
<1> SUFFICES ASSUME IInv, WireInv, [Next]_vars
             PROVE  WireInv'
  OBVIOUS
<1>1. TypeOK
  BY DEF IInv
<1>2. /\ outbox \in Seq(OutFrames) /\ ackedPos \in 0..MaxPos
      /\ lastBody \in Bodies \cup {NoBody}
      /\ pendingAck.pos \in 0..MaxPos /\ flushing.pos \in 0..MaxPos
  BY <1>1, PosOfType DEF TypeOK, SocketType, TransportType
<1>3. CASE OpenSocket
  BY <1>3, WireKept DEF OpenSocket, gwVars
<1>4. CASE SocketOpens
  <2>1. /\ link = "connecting" /\ link' = "open"
        /\ outbox' = <<OutFrame("auth", 0, NoBody)>>
        /\ UNCHANGED <<connected, inbox, lastBody, cursor, gwBody>>
    BY <1>4 DEF SocketOpens, gwVars
  <2>2. outbox = <<>> /\ ~connected
    BY <2>1 DEF WireInv
  <2>3. lastBody = NoBody => gwBody = NoBody
    BY <2>2, EmptySeq DEF WireInv, Leaves
  <2>4. Leaves(outbox', gwBody, gwBody)
    BY <2>1, LeavesOne
  <2> QED BY <2>1, <2>2, <2>3, <2>4 DEF WireInv
<1>5. CASE SocketCloses
  <2>1. /\ link' = "down" /\ ~connected' /\ inbox' = <<>> /\ outbox' = <<>>
        /\ cursor' = NoStream' /\ gwBody' = NoBody
    BY <1>5 DEF SocketCloses, NoStream
  <2> QED BY <2>1, LeavesEmpty DEF WireInv
<1>6. CASE ReceiveAuthOk
  <2> DEFINE f == OutFrame("sync_start", ackedPos, lastBody)
  <2>1. /\ inbox # <<>> /\ Send(IF lastBody = NoBody THEN <<>> ELSE <<f>>)
        /\ UNCHANGED <<link, lastBody, cursor, gwBody>>
    BY <1>6 DEF ReceiveAuthOk, gwVars
  <2>2. link = "open"
    BY <2>1 DEF WireInv
  <2>3. Leaves(outbox', gwBody', lastBody')
    <3>1. CASE lastBody = NoBody
      <4>1. outbox' = outbox \o <<>>
        BY <2>1, <2>2, <3>1 DEF Send
      <4>2. Leaves(outbox \o <<>>, gwBody, NoBody)
        BY <1>2, <3>1, LeavesEmpty, LeavesConcat, EmptySeq DEF WireInv
      <4> QED BY <2>1, <3>1, <4>1, <4>2
    <3>2. CASE lastBody # NoBody
      <4>1. outbox' = outbox \o <<f>>
        BY <2>1, <2>2, <3>2 DEF Send
      <4>2. f \in OutFrames
        BY <1>2 DEF OutFrame, OutFrames
      <4>3. Leaves(outbox', gwBody, lastBody)
        BY <1>2, <4>1, <4>2, LeavesOverwritten DEF OutFrame, IsBody
      <4> QED BY <2>1, <4>3
    <3> QED BY <3>1, <3>2
  <2> QED BY <2>1, <2>2, <2>3 DEF WireInv
<1>7. CASE ReceiveReauth
  <2> DEFINE s == <<OutFrame("auth", 0, NoBody)>>
  <2>1. /\ inbox # <<>> /\ Send(s)
        /\ UNCHANGED <<link, connected, lastBody, cursor, gwBody>>
    BY <1>7 DEF ReceiveReauth, gwVars, socketVars
  <2>2. link = "open" /\ outbox' = outbox \o s
    BY <2>1 DEF WireInv, Send
  <2>3. s \in Seq(OutFrames)
    BY SyncAssumption, OutTypes, 0 \in 0..MaxPos
  <2>4. \A b : Leaves(outbox, gwBody, b) => Leaves(outbox', gwBody, b)
    BY <1>2, <2>2, <2>3, LeavesOne, LeavesConcat
  <2> QED BY <2>1, <2>2, <2>4 DEF WireInv
<1>8. CASE ReceiveSyncWaiting
  <2>1. link = "open"
    BY <1>8 DEF ReceiveSyncWaiting, WireInv
  <2> QED BY <1>8, <2>1, WireKept DEF ReceiveSyncWaiting, gwVars, socketVars
<1>9. CASE ReceiveSyncBuffered
  <2>1. link = "open"
    BY <1>9 DEF ReceiveSyncBuffered, WireInv
  <2> QED BY <1>9, <2>1, WireKept DEF ReceiveSyncBuffered, gwVars, socketVars
<1>10. CASE RequestWithoutAck
  <2>1. PICK b \in Bodies : lastBody' = b /\ Send(BodyFrames(b, ackedPos))
    BY <1>10 DEF RequestWithoutAck
  <2>2. BodyFrames(b, ackedPos) \in Seq(OutFrames) /\ Leaves(BodyFrames(b, ackedPos), lastBody, b)
    BY <1>2, BodyFramesType, LeavesBody
  <2>3. UNCHANGED <<link, connected, inbox, cursor, gwBody>>
    BY <1>10 DEF RequestWithoutAck, gwVars, socketVars
  <2> QED BY <1>1, <2>1, <2>2, <2>3, WireAsked
<1>11. CASE RequestWithAck
  <2> DEFINE s(b) == <<OutFrame("sync_ack", pendingAck.pos, NoBody)>> \o BodyFrames(b, pendingAck.pos)
  <2>1. PICK b \in Bodies : lastBody' = b /\ Send(s(b))
    BY <1>11 DEF RequestWithAck
  <2>2. s(b) \in Seq(OutFrames) /\ Leaves(s(b), lastBody, b)
    BY <1>2, BodyFramesType, LeavesBody
  <2>3. UNCHANGED <<link, connected, inbox, cursor, gwBody>>
    BY <1>11 DEF RequestWithAck, gwVars, socketVars
  <2> HIDE DEF s
  <2> QED BY <1>1, <2>1, <2>2, <2>3, WireAsked
<1>12. CASE RequestWithFlush
  BY <1>12, WireKept DEF RequestWithFlush, gwVars, socketVars
<1>13. CASE FlushReturns
  <2> DEFINE s(b) == <<OutFrame("sync_ack", flushing.pos, NoBody)>> \o BodyFrames(b, flushing.pos)
  <2>1. PICK b \in Bodies : lastBody' = b /\ Send(s(b))
    BY <1>13 DEF FlushReturns
  <2>2. s(b) \in Seq(OutFrames) /\ Leaves(s(b), lastBody, b)
    BY <1>2, BodyFramesType, LeavesBody
  <2>3. UNCHANGED <<link, connected, inbox, cursor, gwBody>>
    BY <1>13 DEF FlushReturns, gwVars, socketVars
  <2> HIDE DEF s
  <2> QED BY <1>1, <2>1, <2>2, <2>3, WireAsked
<1>14. CASE WaitEnds
  BY <1>14, WireKept DEF WaitEnds, gwVars, socketVars
<1>15. CASE SdkProcesses
  BY <1>15, WireKept DEF SdkProcesses, gwVars, socketVars
<1>16. CASE PersistTimerFires
  BY <1>16, WireKept DEF PersistTimerFires, gwVars, socketVars
<1>17. CASE PersistTimerReturns
  BY <1>17, WireKept DEF PersistTimerReturns, gwVars, socketVars
<1>18. CASE CrashAndRestart
  <2>1. /\ link' = "down" /\ ~connected' /\ inbox' = <<>> /\ outbox' = <<>>
        /\ cursor' = NoStream' /\ gwBody' = NoBody
    BY <1>18 DEF CrashAndRestart, NoStream
  <2> QED BY <2>1, LeavesEmpty DEF WireInv
<1>19. CASE GatewayReceives
  <2> DEFINE f == Head(outbox)
  <2>1. /\ outbox # <<>> /\ outbox' = Tail(outbox)
        /\ gwBody' = IF IsBody(f) THEN f.body ELSE gwBody
        /\ UNCHANGED <<link, connected, lastBody>>
    BY <1>19 DEF GatewayReceives, socketVars, IsBody
  <2>2. link = "open"
    BY <2>1 DEF WireInv
  <2>3. \A b : Leaves(outbox, gwBody, b) => Leaves(outbox', gwBody', b)
    BY <1>2, <2>1, LeavesTail
  <2> QED BY <2>1, <2>2, <2>3 DEF WireInv
<1>20. CASE GatewayPushes
  <2>1. link = "open"
    BY <1>1, <1>20, SyncAssumption
    DEF GatewayPushes, WireInv, NoStream, TypeOK, GatewayType
  <2> QED BY <1>20, <2>1, WireKept DEF GatewayPushes, socketVars
<1>21. CASE GatewayReauths
  <2>1. link = "open"
    BY <1>21 DEF GatewayReauths, WireInv
  <2> QED BY <1>21, <2>1, WireKept DEF GatewayReauths, gwVars, socketVars
<1>22. CASE UNCHANGED vars
  BY <1>22, WireKept DEF vars
<1> QED
  BY <1>3, <1>4, <1>5, <1>6, <1>7, <1>8, <1>9, <1>10, <1>11, <1>12, <1>13, <1>14,
     <1>15, <1>16, <1>17, <1>18, <1>19, <1>20, <1>21, <1>22
  DEF Next

-----------------------------------------------------------------------------
(* The theorems *)

LEMMA StreamInductive == Spec => [](DeliveryInv /\ WireInv)
<1>1. Init => DeliveryInv /\ WireInv
  BY DeliveryInit, WireInit
<1>2. IInv /\ (DeliveryInv /\ WireInv) /\ [Next]_vars => (DeliveryInv /\ WireInv)'
  BY DeliveryStep, WireStep
<1> QED BY Inductive, <1>1, <1>2, PTL DEF Spec

\* Whatever is lost, resumed, re-sent or queued, and however often, the SDK is
\* handed the frames of the stream in order: before a frame it has been handed
\* every earlier one since this process's resume point, except those the full
\* queue dropped.
THEOREM NothingSkipped == Spec => []NoSkippedDelta
<1>1. TypeOK /\ DeliveryInv => NoSkippedDelta
  <2> SUFFICES ASSUME TypeOK, DeliveryInv, NEW p \in applied
               PROVE  (base + 1)..(p - 1) \subseteq applied \cup dropped
    BY DEF NoSkippedDelta
  <2>1. 0..(p - 1) \subseteq 0..base \cup applied \cup dropped
    BY DEF DeliveryInv, HeldInv, Settled
  <2>2. base \in Nat /\ p \in Nat
    BY SyncAssumption DEF TypeOK, HistoryType
  <2> QED BY <2>1, <2>2
<1> QED BY TypeCorrect, StreamInductive, <1>1, PTL

\* While the plugin believes it is connected, the gateway syncs with the
\* subscription asked for last or will once it has read what is on the wire,
\* although sync_update frames written while reconnecting are lost.
THEOREM SubscriptionKept == Spec => []SubscriptionInSync
<1>1. TypeOK /\ WireInv => SubscriptionInSync
  BY LeavesIsBodyAfter DEF TypeOK, SocketType, WireInv, SubscriptionInSync, BodyOnWire
<1> QED BY TypeCorrect, StreamInductive, <1>1, PTL
=============================================================================
