----------------------- MODULE GatewayConnectionProofs -----------------------
(***************************************************************************)
(* Proofs about GatewayConnection, for any set of callers and any number   *)
(* of losses and reauth frames:                                            *)
(*   - TypeCorrect: Spec => []TypeOK                                       *)
(*   - OwnAnswers: Spec => []AnswersMatch                                  *)
(*   - NoCallForgotten: Spec => []WaitingIsPending                         *)
(*   - OverIsFinal: Spec => NoReconnectWhenOver                            *)
(***************************************************************************)
EXTENDS GatewayConnection, SequenceTheorems, TLAPS

-----------------------------------------------------------------------------
(* The inductive invariant *)

\* The frames of either direction.
Requests == [t : {"req"}, id : Nat, caller : Callers]
Answers  == [t : {"resp"}, id : Nat, to : Callers]
Controls == [t : {"auth_ok", "auth_error", "reauth"}]
Auths    == [t : {"auth"}]

\* The id was given out, and to this caller if a call still waits for it.
Known(id, c) == id \in 1..reqCounter /\ (id \in DOMAIN pending => pending[id] = c)

KnownRequests == {r \in Requests : Known(r.id, r.caller)}
KnownAnswers  == {r \in Answers : Known(r.id, r.to)}

\* Whatever is under way speaks of ids as pending does.
FramesInv ==
    /\ outbox \in Seq(Auths \cup KnownRequests)
    /\ served \subseteq KnownRequests
    /\ inbox \in Seq(Controls \cup KnownAnswers)

\* One id per waiting call.
CallsInv ==
    /\ reqCounter \in Nat
    /\ pending \in [DOMAIN pending -> Callers]
    /\ \A i, j \in DOMAIN pending : pending[i] = pending[j] => i = j

\* The flags agree with the socket: a reconnect is scheduled only without one,
\* and an end, by either side, sets `closed`.
LinkInv ==
    /\ connected => link \in {"open", "closing"}
    /\ inbox # <<>> => link = "open"
    /\ retryTimer => link = "down"
    /\ connect = "none" => link = "none"
    /\ DOMAIN pending # {} => connected
    /\ over => closed

IInv == TypeOK /\ FramesInv /\ CallsInv /\ LinkInv /\ WaitingIsPending /\ AnswersMatch

-----------------------------------------------------------------------------
(* What the parts of the invariant say *)

LEMMA Flags ==
    ASSUME TypeOK
    PROVE  /\ hasWs \in BOOLEAN /\ connected \in BOOLEAN /\ closed \in BOOLEAN
           /\ retryTimer \in BOOLEAN /\ over \in BOOLEAN
BY DEF TypeOK

\* The flags of the next state have their types, each on its own.
LEMMA FlagsBack ==
    ASSUME /\ hasWs' \in BOOLEAN /\ connected' \in BOOLEAN /\ closed' \in BOOLEAN
           /\ retryTimer' \in BOOLEAN /\ over' \in BOOLEAN
    PROVE  {hasWs', connected', closed', retryTimer', over'} \subseteq BOOLEAN
OBVIOUS

LEMMA SeqGrows ==
    ASSUME NEW S, NEW T, S \subseteq T, NEW s \in Seq(S)
    PROVE  s \in Seq(T)
OBVIOUS

LEMMA HeadTail ==
    ASSUME NEW S, NEW s \in Seq(S), s # <<>>
    PROVE  Head(s) \in S /\ Tail(s) \in Seq(S)
OBVIOUS

LEMMA NoPendingEmpty ==
    /\ NoPending \in [{} -> Callers] /\ DOMAIN NoPending = {}
    /\ \A f \in [{} -> Callers] : f = NoPending
BY DEF NoPending

-----------------------------------------------------------------------------
(* Calls and the pending map *)

\* The ids given out so far keep their meaning.
PendingKept ==
    /\ reqCounter' \in Nat /\ reqCounter <= reqCounter'
    /\ \A id \in 1..reqCounter :
           id \in DOMAIN pending' => id \in DOMAIN pending /\ pending'[id] = pending[id]

CallsPart == CallsInv /\ DOMAIN pending \subseteq 1..reqCounter

LEMMA CallsStep ==
    ASSUME TypeOK, CallsInv, WaitingIsPending, Next
    PROVE  CallsPart' /\ PendingKept
<1> USE DEF TypeOK, CallsInv, CallsPart, PendingKept, calls
<1>1. ASSUME UNCHANGED <<reqCounter, pending>> PROVE CallsPart' /\ PendingKept
  <2>1. reqCounter' = reqCounter /\ pending' = pending
    BY <1>1
  <2>2. CallsInv'
    BY <2>1
  <2>3. (DOMAIN pending \subseteq 1..reqCounter)'
    BY <2>1
  <2>4. PendingKept
    BY <2>1
  <2> QED BY <2>2, <2>3, <2>4
<1>2. ASSUME UNCHANGED reqCounter, FailInFlight PROVE CallsPart' /\ PendingKept
  BY <1>2, NoPendingEmpty DEF FailInFlight
<1>3. ASSUME UNCHANGED reqCounter,
             NEW id \in DOMAIN pending,
             pending' = [i \in DOMAIN pending \ {id} |-> pending[i]]
      PROVE  CallsPart' /\ PendingKept
  <2>1. DOMAIN pending' = DOMAIN pending \ {id} /\ reqCounter' = reqCounter
    BY <1>3
  <2>2. \A i \in DOMAIN pending' : pending'[i] = pending[i]
    BY <1>3
  <2>3. pending' \in [DOMAIN pending' -> Callers]
    BY <1>3
  <2> QED BY <2>1, <2>2, <2>3
<1>4. ASSUME NEW c \in Callers, Request(c) PROVE CallsPart' /\ PendingKept
  <2>1. CASE connected /\ hasWs
    <3>1. /\ req[c] = "idle" /\ reqCounter' = reqCounter + 1
          /\ pending' = [i \in DOMAIN pending \cup {NextId} |->
                            IF i = NextId THEN c ELSE pending[i]]
      BY <1>4, <2>1 DEF Request
    <3>2. /\ DOMAIN pending' = DOMAIN pending \cup {reqCounter'}
          /\ pending'[reqCounter'] = c
          /\ \A i \in DOMAIN pending : pending'[i] = pending[i]
      BY <3>1 DEF NextId
    <3>3. pending' \in [DOMAIN pending' -> Callers]
      BY <3>1
    <3>4. \A i \in DOMAIN pending : pending[i] # c
      BY <3>1 DEF WaitingIsPending
    <3> QED BY <3>1, <3>2, <3>3, <3>4
  <2>2. CASE ~(connected /\ hasWs)
    BY <1>1, <1>4, <2>2 DEF Request
  <2> QED BY <2>1, <2>2
<1>5. CASE Connect \/ RetryFires \/ SocketOpens
  BY <1>1, <1>5 DEF Connect, RetryFires, SocketOpens
<1>6. CASE SocketCloses \/ Dispose
  BY <1>2, <1>6 DEF SocketCloses, Dispose
<1>7. CASE ReceiveAuthOk \/ ReceiveAuthError \/ ReceiveReauth
  BY <1>1, <1>7 DEF ReceiveAuthOk, ReceiveAuthError, ReceiveReauth
<1>8. CASE ReceiveResp
  BY <1>1, <1>3, <1>8 DEF ReceiveResp
<1>9. CASE RequestTimesOut
  BY <1>3, <1>9 DEF RequestTimesOut
<1>10. CASE GatewayReads \/ GatewayAnswers \/ GatewayReauths
  BY <1>1, <1>10 DEF GatewayReads, GatewayAnswers, GatewayReauths
<1> QED
  BY <1>4, <1>5, <1>6, <1>7, <1>8, <1>9, <1>10 DEF Next

LEMMA KnownGrows ==
    ASSUME CallsInv, PendingKept
    PROVE  /\ KnownRequests \subseteq KnownRequests'
           /\ KnownAnswers \subseteq KnownAnswers'
BY DEF CallsInv, PendingKept, KnownRequests, KnownAnswers, Known, Requests, Answers

-----------------------------------------------------------------------------
(* The frames under way *)

LEMMA FramesKept ==
    ASSUME FramesInv, KnownRequests \subseteq KnownRequests',
           KnownAnswers \subseteq KnownAnswers'
    PROVE  /\ outbox \in Seq(Auths \cup KnownRequests')
           /\ served \subseteq KnownRequests'
           /\ inbox \in Seq(Controls \cup KnownAnswers')
BY SeqGrows DEF FramesInv

LEMMA FramesStep ==
    ASSUME TypeOK, CallsInv, WaitingIsPending, FramesInv, Next
    PROVE  FramesInv'
<1>1. /\ KnownRequests \subseteq KnownRequests'
      /\ KnownAnswers \subseteq KnownAnswers'
  BY CallsStep, KnownGrows
<1> DEFINE Out == Auths \cup KnownRequests'
           In  == Controls \cup KnownAnswers'
<1>2. outbox \in Seq(Out) /\ served \subseteq KnownRequests' /\ inbox \in Seq(In)
  BY <1>1, FramesKept
<1>3. Auths' = Auths /\ Controls' = Controls
  BY DEF Auths, Controls
<1>4. SUFFICES outbox' \in Seq(Out) /\ served' \subseteq KnownRequests' /\ inbox' \in Seq(In)
  BY <1>3 DEF FramesInv
<1>5. <<>> \in Seq(Out) /\ <<>> \in Seq(In)
  OBVIOUS
<1>6. Frame("auth") \in Out /\ <<Frame("auth")>> \in Seq(Out)
  BY DEF Frame, Auths
<1>7. \A type \in {"auth_ok", "auth_error", "reauth"} : Frame(type) \in In
  BY DEF Frame, Controls
<1>8. inbox # <<>> => Tail(inbox) \in Seq(In)
  BY <1>2, HeadTail
<1> HIDE DEF Out, In
<1>9. CASE Connect \/ RetryFires \/ SocketOpens
  BY <1>2, <1>5, <1>6, <1>9 DEF Connect, RetryFires, SocketOpens
<1>10. CASE SocketCloses \/ Dispose \/ ReceiveAuthError
  BY <1>2, <1>5, <1>10 DEF SocketCloses, Dispose, ReceiveAuthError, CloseSocket
<1>11. CASE ReceiveAuthOk \/ ReceiveResp
  BY <1>2, <1>8, <1>11 DEF ReceiveAuthOk, ReceiveResp, Receive
<1>12. CASE ReceiveReauth
  <2>1. Append(outbox, Frame("auth")) \in Seq(Out)
    BY <1>2, <1>6, AppendProperties
  <2> QED BY <1>2, <1>8, <1>12, <2>1 DEF ReceiveReauth, Receive, SafeSend
<1>13. ASSUME NEW c \in Callers, Request(c)
       PROVE outbox' \in Seq(Out) /\ UNCHANGED <<served, inbox>>
  <2>1. CASE connected /\ hasWs
    <3>1. PICK id \in Nat : id = NextId
      BY DEF NextId, CallsInv
    <3>2. Req(id, c) \in Out
      <4>1. Req(id, c) \in Requests /\ Known(id, c)'
        BY <1>13, <2>1, <3>1 DEF Req, Requests, Request, NextId, Known, CallsInv
      <4>2. Req(id, c) \in KnownRequests'
        BY <4>1 DEF KnownRequests, Req, Requests
      <4> QED BY <4>2 DEF Out
    <3>3. Append(outbox, Req(NextId, c)) \in Seq(Out)
      BY <1>2, <3>1, <3>2, AppendProperties
    <3> QED BY <1>2, <1>13, <2>1, <3>3 DEF Request, SafeSend
  <2>2. CASE ~(connected /\ hasWs)
    BY <1>2, <1>13, <2>2 DEF Request
  <2> QED BY <2>1, <2>2
<1>14. CASE RequestTimesOut
  BY <1>2, <1>14 DEF RequestTimesOut, socket
<1>15. CASE GatewayReads
  <2>1. Head(outbox) \in Out /\ Tail(outbox) \in Seq(Out)
    BY <1>2, <1>15, HeadTail DEF GatewayReads
  <2>2. CASE Head(outbox).t = "auth"
    <3>1. PICK type \in {"auth_ok", "auth_error"} : inbox' = Append(inbox, Frame(type))
      BY <1>15, <2>2 DEF GatewayReads
    <3>2. inbox' \in Seq(In)
      BY <1>2, <1>7, <3>1, AppendProperties
    <3> QED BY <1>2, <1>15, <2>1, <2>2, <3>2 DEF GatewayReads
  <2>3. CASE Head(outbox).t # "auth"
    <3>1. Head(outbox) \in KnownRequests'
      BY <2>1, <2>3 DEF Out, Auths
    <3> QED BY <1>2, <1>15, <2>1, <2>3, <3>1 DEF GatewayReads
  <2> QED BY <2>2, <2>3
<1>16. CASE GatewayAnswers
  <2>1. PICK r \in served : served' = served \ {r} /\ inbox' = Append(inbox, Resp(r.id, r.caller))
    BY <1>16 DEF GatewayAnswers
  <2>2. Resp(r.id, r.caller) \in In
    <3>1. r \in Requests /\ Known(r.id, r.caller)'
      BY <1>2 DEF KnownRequests, Requests
    <3>2. Resp(r.id, r.caller) \in KnownAnswers'
      BY <3>1 DEF KnownAnswers, Answers, Requests, Resp
    <3> QED BY <3>2 DEF In
  <2> QED BY <1>2, <1>16, <2>1, <2>2, AppendProperties DEF GatewayAnswers
<1>17. CASE GatewayReauths
  BY <1>2, <1>7, <1>17, AppendProperties DEF GatewayReauths
<1> QED
  BY <1>2, <1>9, <1>10, <1>11, <1>12, <1>13, <1>14, <1>15, <1>16, <1>17 DEF Next

-----------------------------------------------------------------------------
(* The socket and the flags *)

LEMMA LinkStep ==
    ASSUME TypeOK, CallsInv, LinkInv, Next
    PROVE  LinkInv'
<1> USE DEF LinkInv
<1>1. DOMAIN NoPending = {}
  BY NoPendingEmpty
<1>2. CASE Connect
  BY <1>2 DEF Connect, OpenSocketFor, calls
<1>3. CASE RetryFires
  BY <1>3 DEF RetryFires, OpenSocketFor, calls
<1>4. CASE SocketOpens
  BY <1>4 DEF SocketOpens, auth, calls
<1>5. CASE SocketCloses
  BY <1>1, <1>5 DEF SocketCloses, FailInFlight, ScheduleRetry
<1>6. CASE Dispose
  BY <1>1, <1>6 DEF Dispose, FailInFlight, CloseSocket
<1>7. CASE ReceiveAuthOk
  BY <1>7 DEF ReceiveAuthOk, Receive, SettleAuth, calls
<1>8. CASE ReceiveAuthError
  BY <1>8 DEF ReceiveAuthError, CloseSocket, SettleAuth, calls
<1>9. CASE ReceiveReauth
  BY <1>9 DEF ReceiveReauth, Receive, auth, calls
<1>10. CASE ReceiveResp
  BY <1>10 DEF ReceiveResp, Receive, auth
<1>11. ASSUME NEW c \in Callers, Request(c) PROVE LinkInv'
  BY <1>11 DEF Request, auth
<1>12. CASE RequestTimesOut
  BY <1>12 DEF RequestTimesOut, socket, auth
<1>13. CASE GatewayReads \/ GatewayAnswers \/ GatewayReauths
  BY <1>13 DEF GatewayReads, GatewayAnswers, GatewayReauths, auth, calls
<1> QED
  BY <1>2, <1>3, <1>4, <1>5, <1>6, <1>7, <1>8, <1>9, <1>10, <1>11, <1>12, <1>13 DEF Next

-----------------------------------------------------------------------------
(* Calls that wait *)

\* Each call is in the map exactly while it waits.
Waits == \A c \in Callers : req[c] = "waiting" <=> \E id \in DOMAIN pending : pending[id] = c

LEMMA SettleOne ==
    ASSUME TypeOK, CallsInv, Waits, NEW id \in DOMAIN pending,
           NEW outcome \in {"rejected", "answered"},
           req' = [req EXCEPT ![pending[id]] = outcome],
           pending' = [i \in DOMAIN pending \ {id} |-> pending[i]]
    PROVE  Waits'
<1>1. req' = [c \in Callers |-> IF c = pending[id] THEN outcome ELSE req[c]]
  BY DEF TypeOK
<1>2. /\ DOMAIN pending' = DOMAIN pending \ {id}
      /\ \A i \in DOMAIN pending' : pending'[i] = pending[i] /\ pending[i] # pending[id]
  BY DEF CallsInv
<1>3. ASSUME NEW c \in Callers
      PROVE  req'[c] = "waiting" <=> \E i \in DOMAIN pending' : pending'[i] = c
  BY <1>1, <1>2, <1>3 DEF Waits
<1> QED BY <1>3 DEF Waits

LEMMA SettleAll ==
    ASSUME TypeOK, FailInFlight
    PROVE  Waits'
BY NoPendingEmpty DEF FailInFlight, Waits, TypeOK

LEMMA AddCall ==
    ASSUME TypeOK, CallsInv, Waits, NEW c \in Callers, Request(c), connected /\ hasWs
    PROVE  Waits'
<1>1. /\ req' = [d \in Callers |-> IF d = c THEN "waiting" ELSE req[d]]
      /\ pending' = [i \in DOMAIN pending \cup {NextId} |->
                        IF i = NextId THEN c ELSE pending[i]]
  BY DEF Request, TypeOK
<1>2. /\ DOMAIN pending' = DOMAIN pending \cup {NextId}
      /\ pending'[NextId] = c
      /\ \A i \in DOMAIN pending : pending'[i] = pending[i]
  BY <1>1 DEF NextId, TypeOK, CallsInv
<1>3. ASSUME NEW d \in Callers
      PROVE  req'[d] = "waiting" <=> \E i \in DOMAIN pending' : pending'[i] = d
  BY <1>1, <1>2, <1>3 DEF Waits
<1> QED BY <1>3 DEF Waits

LEMMA WaitsStep ==
    ASSUME TypeOK, CallsInv, Waits, Next
    PROVE  Waits'
<1>1. ASSUME UNCHANGED <<req, pending>> PROVE Waits'
  BY <1>1 DEF Waits
<1>2. CASE Connect \/ RetryFires \/ SocketOpens
  BY <1>1, <1>2 DEF Connect, RetryFires, SocketOpens, calls
<1>3. CASE SocketCloses \/ Dispose
  BY <1>3, SettleAll DEF SocketCloses, Dispose
<1>4. CASE ReceiveAuthOk \/ ReceiveAuthError \/ ReceiveReauth
  BY <1>1, <1>4 DEF ReceiveAuthOk, ReceiveAuthError, ReceiveReauth, calls
<1>5. CASE ReceiveResp
  BY <1>1, <1>5, SettleOne DEF ReceiveResp
<1>6. ASSUME NEW c \in Callers, Request(c) PROVE Waits'
  <2>1. CASE connected /\ hasWs
    BY <1>6, <2>1, AddCall
  <2>2. CASE ~(connected /\ hasWs)
    BY <1>6, <2>2 DEF Request, Waits, TypeOK
  <2> QED BY <2>1, <2>2
<1>7. CASE RequestTimesOut
  BY <1>7, SettleOne DEF RequestTimesOut
<1>8. CASE GatewayReads \/ GatewayAnswers \/ GatewayReauths
  BY <1>1, <1>8 DEF GatewayReads, GatewayAnswers, GatewayReauths, calls
<1> QED
  BY <1>2, <1>3, <1>4, <1>5, <1>6, <1>7, <1>8 DEF Next

\* WaitingIsPending is what the calls and the flags say together.
LEMMA WaitingParts ==
    ASSUME CallsInv, LinkInv
    PROVE  WaitingIsPending <=> Waits
<1>1. pending # NoPending => DOMAIN pending # {}
  BY NoPendingEmpty DEF CallsInv
<1> QED BY <1>1 DEF WaitingIsPending, Waits, LinkInv

-----------------------------------------------------------------------------
(* Answers *)

\* A call that is answered gets the answer of its own request: the head of
\* inbox carries an id that means the same to the pending map.
LEMMA AnswersStep ==
    ASSUME TypeOK, FramesInv, CallsInv, AnswersMatch, got \subseteq Callers \X Callers, Next
    PROVE  AnswersMatch' /\ (got \subseteq Callers \X Callers)'
<1>1. ASSUME UNCHANGED got PROVE AnswersMatch' /\ (got \subseteq Callers \X Callers)'
  BY <1>1 DEF AnswersMatch
<1>2. CASE ReceiveResp
  <2>1. Head(inbox) \in KnownAnswers
    BY <1>2, HeadTail DEF ReceiveResp, Receive, FramesInv, Controls
  <2>2. Head(inbox).id \in DOMAIN pending =>
            pending[Head(inbox).id] = Head(inbox).to /\ Head(inbox).to \in Callers
    BY <2>1 DEF KnownAnswers, Known, Answers
  <2> QED BY <1>1, <1>2, <2>2 DEF ReceiveResp, AnswersMatch
<1>3. CASE Connect \/ RetryFires \/ SocketOpens \/ SocketCloses \/ Dispose
  BY <1>1, <1>3 DEF Connect, RetryFires, SocketOpens, SocketCloses, Dispose, calls
<1>4. CASE ReceiveAuthOk \/ ReceiveAuthError \/ ReceiveReauth \/ RequestTimesOut
  BY <1>1, <1>4 DEF ReceiveAuthOk, ReceiveAuthError, ReceiveReauth, RequestTimesOut, calls
<1>5. CASE (\E c \in Callers : Request(c)) \/ GatewayReads \/ GatewayAnswers \/ GatewayReauths
  BY <1>1, <1>5 DEF Request, GatewayReads, GatewayAnswers, GatewayReauths, calls
<1> QED
  BY <1>2, <1>3, <1>4, <1>5 DEF Next

-----------------------------------------------------------------------------
(* Type correctness *)

ReqTypes == [Callers -> {"idle", "waiting", "rejected", "answered"}]

FlagTypes ==
    /\ link \in {"none", "connecting", "open", "closing", "down"}
    /\ hasWs \in BOOLEAN /\ connected \in BOOLEAN /\ closed \in BOOLEAN
    /\ retryTimer \in BOOLEAN /\ over \in BOOLEAN
    /\ authSettle \in {"connect", "retry", "none"}
    /\ connect \in {"none", "pending", "resolved", "rejected"}

LEMMA FlagTypesStep ==
    ASSUME FlagTypes, Next
    PROVE  FlagTypes'
<1> USE DEF FlagTypes
<1>1. CASE Connect
  BY <1>1 DEF Connect, OpenSocketFor
<1>2. CASE RetryFires
  BY <1>2 DEF RetryFires, OpenSocketFor
<1>3. CASE SocketOpens
  BY <1>3 DEF SocketOpens, auth
<1>4. CASE SocketCloses
  BY <1>4 DEF SocketCloses, ScheduleRetry
<1>5. CASE Dispose
  BY <1>5 DEF Dispose, CloseSocket
<1>6. CASE ReceiveAuthOk
  BY <1>6 DEF ReceiveAuthOk, SettleAuth
<1>7. CASE ReceiveAuthError
  BY <1>7 DEF ReceiveAuthError, CloseSocket, SettleAuth
<1>8. CASE ReceiveReauth \/ ReceiveResp
  BY <1>8 DEF ReceiveReauth, ReceiveResp, auth
<1>9. ASSUME NEW c \in Callers, Request(c) PROVE FlagTypes'
  <2>1. UNCHANGED <<link, hasWs, auth, over>>
    BY <1>9 DEF Request
  <2> QED BY <2>1 DEF auth
<1>10. CASE RequestTimesOut
  BY <1>10 DEF RequestTimesOut, socket, auth
<1>11. CASE GatewayReads \/ GatewayAnswers \/ GatewayReauths
  BY <1>11 DEF GatewayReads, GatewayAnswers, GatewayReauths, auth
<1> QED
  BY <1>1, <1>2, <1>3, <1>4, <1>5, <1>6, <1>7, <1>8, <1>9, <1>10, <1>11 DEF Next

LEMMA ReqTypeStep ==
    ASSUME req \in ReqTypes, CallsInv, Next
    PROVE  req' \in ReqTypes
<1> USE DEF ReqTypes
<1>1. CASE SocketCloses \/ Dispose
  BY <1>1 DEF SocketCloses, Dispose, FailInFlight
<1>2. CASE ReceiveResp
  BY <1>2 DEF ReceiveResp, CallsInv
<1>3. CASE RequestTimesOut
  BY <1>3 DEF RequestTimesOut, CallsInv
<1>4. CASE \E c \in Callers : Request(c)
  BY <1>4 DEF Request
<1>5. CASE Connect \/ RetryFires \/ SocketOpens \/ ReceiveAuthOk
  BY <1>5 DEF Connect, RetryFires, SocketOpens, ReceiveAuthOk, calls
<1>6. CASE \/ ReceiveAuthError \/ ReceiveReauth
           \/ GatewayReads \/ GatewayAnswers \/ GatewayReauths
  BY <1>6 DEF ReceiveAuthError, ReceiveReauth, GatewayReads, GatewayAnswers,
       GatewayReauths, calls
<1> QED
  BY <1>1, <1>2, <1>3, <1>4, <1>5, <1>6 DEF Next

\* TypeOK from its parts, the types of the frames from FramesInv.
Parts ==
    /\ FlagTypes /\ FramesInv /\ CallsPart
    /\ req \in ReqTypes /\ got \subseteq Callers \X Callers

LEMMA TypeParts ==
    ASSUME Parts
    PROVE  TypeOK
<1>1. \A i \in DOMAIN inbox : inbox[i].t \in {"auth_ok", "auth_error", "reauth", "resp"}
  <2>1. \A f \in Controls \cup KnownAnswers : f.t \in {"auth_ok", "auth_error", "reauth", "resp"}
    BY DEF Controls, KnownAnswers, Answers
  <2>2. inbox \in Seq(Controls \cup KnownAnswers)
    BY DEF Parts, FramesInv
  <2> QED BY <2>1, <2>2, \A i \in DOMAIN inbox : inbox[i] \in Controls \cup KnownAnswers
<1>2. \A i \in DOMAIN outbox : outbox[i].t \in {"auth", "req"}
  <2>1. \A f \in Auths \cup KnownRequests : f.t \in {"auth", "req"}
    BY DEF Auths, KnownRequests, Requests
  <2>2. outbox \in Seq(Auths \cup KnownRequests)
    BY DEF Parts, FramesInv
  <2> QED BY <2>1, <2>2, \A i \in DOMAIN outbox : outbox[i] \in Auths \cup KnownRequests
<1>3. {hasWs, connected, closed, retryTimer, over} \subseteq BOOLEAN
  BY DEF Parts, FlagTypes
<1> QED
  BY <1>1, <1>2, <1>3 DEF TypeOK, Parts, FlagTypes, CallsPart, CallsInv, ReqTypes

LEMMA TypeGivesParts ==
    ASSUME TypeOK
    PROVE  /\ FlagTypes /\ req \in ReqTypes
           /\ got \subseteq Callers \X Callers
BY DEF TypeOK, FlagTypes, ReqTypes

-----------------------------------------------------------------------------
(* The invariant holds *)

LEMMA IInvInit == Init => IInv
<1> SUFFICES ASSUME Init PROVE IInv
  OBVIOUS
<1>1. CallsPart
  BY NoPendingEmpty DEF Init, CallsPart, CallsInv
<1>2. FramesInv
  BY DEF Init, FramesInv
<1>3. LinkInv /\ AnswersMatch
  BY NoPendingEmpty DEF Init, LinkInv, AnswersMatch
<1>4. Waits
  BY NoPendingEmpty DEF Init, Waits
<1>5. FlagTypes /\ req \in ReqTypes /\ got \subseteq Callers \X Callers
  BY DEF Init, FlagTypes, ReqTypes
<1>6. TypeOK
  BY <1>1, <1>2, <1>5, TypeParts DEF Parts
<1> QED
  BY <1>1, <1>2, <1>3, <1>4, <1>6, WaitingParts DEF IInv, CallsPart

LEMMA IInvStep == IInv /\ [Next]_vars => IInv'
<1>1. ASSUME IInv, Next PROVE IInv'
  <2>1. TypeOK /\ FramesInv /\ CallsInv /\ LinkInv /\ WaitingIsPending /\ AnswersMatch
    BY <1>1 DEF IInv
  <2>2. FramesInv' /\ LinkInv' /\ CallsPart'
    BY <1>1, <2>1, FramesStep, LinkStep, CallsStep
  <2>3. FlagTypes' /\ req' \in ReqTypes
    BY <1>1, <2>1, TypeGivesParts, FlagTypesStep, ReqTypeStep
  <2>4. AnswersMatch' /\ (got \subseteq Callers \X Callers)'
    BY <1>1, <2>1, TypeGivesParts, AnswersStep
  <2>5. Parts' 
    BY <2>2, <2>3, <2>4 DEF Parts, ReqTypes
  <2>6. TypeOK'
    BY <2>5, TypeParts, PTL
  <2>7. Waits'
    BY <1>1, <2>1, WaitingParts, WaitsStep
  <2>8. CallsInv' /\ LinkInv' => (WaitingIsPending' <=> Waits')
    BY WaitingParts, PTL
  <2> QED BY <2>2, <2>4, <2>6, <2>7, <2>8 DEF IInv, CallsPart
<1>2. ASSUME IInv, UNCHANGED vars PROVE IInv'
  BY <1>2 DEF vars, socket, auth, calls, bounds, IInv, TypeOK, FramesInv, CallsInv,
       LinkInv, WaitingIsPending, AnswersMatch, KnownRequests, KnownAnswers, Known,
       Auths, Requests, Answers, Controls
<1> QED BY <1>1, <1>2

LEMMA Inductive == Spec => []IInv
  BY IInvInit, IInvStep, PTL DEF Spec

\* Every variable keeps its type: only frames of the protocol are under way,
\* and the ids in the pending map are ids that were given out.
THEOREM TypeCorrect == Spec => []TypeOK
<1>1. IInv => TypeOK
  BY DEF IInv
<1> QED BY Inductive, <1>1, PTL

\* Every answer a call receives is the gateway's answer to that very call
\* (gateway-transport.ts, onMessage "resp"), however answers are delayed and
\* reordered and however often the socket is lost.
THEOREM OwnAnswers == Spec => []AnswersMatch
<1>1. IInv => AnswersMatch
  BY DEF IInv
<1> QED BY Inductive, <1>1, PTL

\* A call waits exactly while the pending map holds it, with its timer, and
\* the map is empty once the connection is gone (failInFlight): no call is
\* left waiting without anyone to settle it.
THEOREM NoCallForgotten == Spec => []WaitingIsPending
<1>1. IInv => WaitingIsPending
  BY DEF IInv
<1> QED BY Inductive, <1>1, PTL

\* After dispose() or an auth_error no socket is opened again: neither by
\* connect() nor by a reconnect timer armed before.
THEOREM OverIsFinal == Spec => NoReconnectWhenOver
<1>1. IInv /\ [Next]_vars => [over => ~(link # "connecting" /\ link' = "connecting")]_vars
  <2>1. ASSUME IInv, Next, over, link # "connecting" PROVE link' # "connecting"
    <3>1. closed
      BY <2>1 DEF IInv, LinkInv
    <3>2. CASE Connect \/ RetryFires
      BY <2>1, <3>1, <3>2 DEF Connect, RetryFires
    <3>3. CASE SocketOpens \/ SocketCloses \/ Dispose \/ ReceiveAuthError
      BY <2>1, <3>3 DEF SocketOpens, SocketCloses, Dispose, ReceiveAuthError, CloseSocket
    <3>4. CASE ReceiveAuthOk \/ ReceiveReauth \/ ReceiveResp
      BY <2>1, <3>4 DEF ReceiveAuthOk, ReceiveReauth, ReceiveResp
    <3>5. CASE (\E c \in Callers : Request(c)) \/ RequestTimesOut
      BY <2>1, <3>5 DEF Request, RequestTimesOut, socket
    <3>6. CASE GatewayReads \/ GatewayAnswers \/ GatewayReauths
      BY <2>1, <3>6 DEF GatewayReads, GatewayAnswers, GatewayReauths
    <3> QED BY <2>1, <3>2, <3>3, <3>4, <3>5, <3>6 DEF Next
  <2> QED BY <2>1
<1> QED BY Inductive, <1>1, PTL DEF Spec, NoReconnectWhenOver
=============================================================================
