-------------------------- MODULE GatewayConnection --------------------------
(***************************************************************************)
(* The connection of src/src/matrix/gateway-transport.ts and the requests   *)
(* tunnelled through it: connect() and the auth handshake, reconnects after *)
(* a lost socket, the end by auth_error or dispose(), and the req / resp    *)
(* pairs that carry every call of the Matrix SDK, with their timeouts.      *)
(* (GatewaySync models the sync stream over the same socket.)               *)
(*                                                                         *)
(* The gateway, the network and the callers are external.                   *)
(***************************************************************************)
EXTENDS Naturals, Sequences, FiniteSets, SequencesExt

CONSTANTS
    Callers,     \* calls of fetch(), one request each
    MaxDrops,    \* bound: socket losses
    MaxReauths,  \* bound: reauth frames
    TokenMayDie, \* may the gateway come to reject the token?
    MayDispose   \* may the owner dispose of the transport?

ASSUME ConnectionAssumption ==
    /\ MaxDrops \in Nat /\ MaxReauths \in Nat
    /\ TokenMayDie \in BOOLEAN /\ MayDispose \in BOOLEAN

VARIABLES
    link,        \* the WebSocket: "none", "connecting", "open", "closing", "down"
    inbox,       \* frames on their way to the plugin
    outbox,      \* frames on their way to the gateway
    hasWs,       \* this.ws is set
    connected, closed,
    retryTimer,  \* is reconnectTimer armed?
    authSettle,  \* whose promise the next auth answer settles: "connect", "retry", "none"
    connect,     \* the promise of connect(): "none", "pending", "resolved", "rejected"
    reqCounter,
    pending,     \* id -> caller, each with its timer armed
    req,         \* per caller: "idle", "waiting", "rejected", "answered"
    got,         \* the answers received: <<caller, the caller it was meant for>>
    served,      \* external: requests the gateway is working on
    over,        \* history: dispose() was called or the token was rejected
    drops, reauths

socket == <<link, inbox, outbox, hasWs>>
auth   == <<connected, closed, retryTimer, authSettle, connect>>
calls  == <<reqCounter, pending, req, got>>
bounds == <<drops, reauths>>
vars   == <<socket, auth, calls, served, over, bounds>>

Frame(type)  == [t |-> type]
Req(id, c)   == [t |-> "req", id |-> id, caller |-> c]
Resp(id, c)  == [t |-> "resp", id |-> id, to |-> c]
NoPending    == [id \in {} |-> 0]
Settled(c)   == req[c] \in {"answered", "rejected"}

Init ==
    /\ link = "none" /\ inbox = <<>> /\ outbox = <<>> /\ hasWs = FALSE
    /\ connected = FALSE /\ closed = FALSE /\ retryTimer = FALSE
    /\ authSettle = "none" /\ connect = "none"
    /\ reqCounter = 0 /\ pending = NoPending
    /\ req = [c \in Callers |-> "idle"] /\ got = {}
    /\ served = {} /\ over = FALSE /\ drops = 0 /\ reauths = 0

-----------------------------------------------------------------------------
(* Opening and losing the socket *)

\* safeSend: this.ws must be set, and a socket that is not open drops the frame.
SafeSend(f) == outbox' = IF hasWs /\ link = "open" THEN Append(outbox, f) ELSE outbox

\* openSocket: the next auth answer settles the promise of `caller`, and of
\* nobody before it.
OpenSocketFor(caller) ==
    /\ link' = "connecting" /\ hasWs' = TRUE
    /\ authSettle' = caller

Connect ==
    /\ connect = "none" /\ ~closed
    /\ connect' = "pending"
    /\ OpenSocketFor("connect")
    /\ UNCHANGED <<inbox, outbox, connected, closed, retryTimer, calls, served,
                   over, bounds>>

\* The reconnect timer.
RetryFires ==
    /\ retryTimer
    /\ retryTimer' = FALSE
    /\ IF closed THEN UNCHANGED <<link, hasWs, authSettle>> ELSE OpenSocketFor("retry")
    /\ UNCHANGED <<inbox, outbox, connected, closed, connect, calls, served,
                   over, bounds>>

\* The "open" listener: authFrame is the first frame.
SocketOpens ==
    /\ link = "connecting"
    /\ link' = "open"
    /\ outbox' = IF hasWs THEN <<Frame("auth")>> ELSE <<>>
    /\ UNCHANGED <<inbox, hasWs, auth, calls, served, over, bounds>>

\* Mutant of FailInFlight: the requests are dropped with their timers.
FailInFlightSilently ==
    /\ pending' = NoPending
    /\ UNCHANGED req

\* failInFlight: every waiting request is rejected and its timer cleared.
FailInFlight ==
    /\ pending' = NoPending
    /\ req' = [c \in Callers |-> IF req[c] = "waiting" THEN "rejected" ELSE req[c]]

\* Mutant of ScheduleRetry: only a connection that was up is retried.
ScheduleRetryOnceConnected == retryTimer' = (retryTimer \/ (connected /\ ~closed))

\* onClose schedules a reconnect (after the backoff) unless closed.
ScheduleRetry == retryTimer' = (retryTimer \/ ~closed)

\* onClose: the network dropped the socket, or close() completed.
SocketCloses ==
    /\ \/ link \in {"connecting", "open"} /\ drops < MaxDrops /\ drops' = drops + 1
       \/ link = "closing" /\ UNCHANGED drops
    /\ link' = "down" /\ inbox' = <<>> /\ outbox' = <<>> /\ served' = {}
    /\ connected' = FALSE
    /\ FailInFlight
    /\ ScheduleRetry
    /\ UNCHANGED <<hasWs, closed, authSettle, connect, reqCounter, got, over, reauths>>

\* ws.close(): no frame is delivered any more; the close event will follow.
CloseSocket ==
    /\ link' = IF link \in {"connecting", "open"} THEN "closing" ELSE link
    /\ inbox' = <<>> /\ outbox' = <<>>

\* Mutant of Dispose: the transport is not marked closed.
DisposeReopens ==
    /\ MayDispose /\ connect = "resolved" /\ ~over
    /\ over' = TRUE
    /\ retryTimer' = FALSE
    /\ FailInFlight
    /\ CloseSocket
    /\ hasWs' = FALSE /\ connected' = FALSE
    /\ UNCHANGED <<closed, authSettle, connect, reqCounter, got, served, bounds>>

\* dispose(), by the owner of the transport: it has one once connect() resolved.
Dispose ==
    /\ MayDispose /\ connect = "resolved" /\ ~over
    /\ over' = TRUE
    /\ closed' = TRUE /\ retryTimer' = FALSE
    /\ FailInFlight
    /\ CloseSocket
    /\ hasWs' = FALSE /\ connected' = FALSE
    /\ UNCHANGED <<authSettle, connect, reqCounter, got, served, bounds>>

-----------------------------------------------------------------------------
(* onMessage *)

Receive(type) == inbox # <<>> /\ Head(inbox).t = type /\ inbox' = Tail(inbox)

\* authSettle.resolve() / reject(): only connect()'s own attempt settles it.
SettleAuth(outcome) ==
    /\ connect' = IF authSettle = "connect" THEN outcome ELSE connect
    /\ authSettle' = "none"

ReceiveAuthOk ==
    /\ Receive("auth_ok")
    /\ connected' = TRUE
    /\ SettleAuth("resolved")
    /\ UNCHANGED <<link, outbox, hasWs, closed, retryTimer, calls, served, over,
                   bounds>>

\* A dead token: no reconnect, and the socket is closed.
ReceiveAuthError ==
    /\ inbox # <<>> /\ Head(inbox).t = "auth_error"
    /\ SettleAuth("rejected")
    /\ closed' = TRUE /\ over' = TRUE
    /\ CloseSocket
    /\ UNCHANGED <<hasWs, connected, retryTimer, calls, served, bounds>>

ReceiveReauth ==
    /\ Receive("reauth")
    /\ SafeSend(Frame("auth"))
    /\ UNCHANGED <<link, hasWs, auth, calls, served, over, bounds>>

\* "resp": settle the request of this id; a late answer finds nothing.
ReceiveResp ==
    /\ Receive("resp")
    /\ LET id == Head(inbox).id IN
       IF id \in DOMAIN pending
       THEN /\ req' = [req EXCEPT ![pending[id]] = "answered"]
            /\ got' = got \cup {<<pending[id], Head(inbox).to>>}
            /\ pending' = [i \in DOMAIN pending \ {id} |-> pending[i]]
       ELSE UNCHANGED <<req, got, pending>>
    /\ UNCHANGED <<link, outbox, hasWs, auth, reqCounter, served, over, bounds>>

-----------------------------------------------------------------------------
(* request() *)

\* Mutant of NextId: the id is taken from the number of pending requests.
NextIdByCount == Cardinality(DOMAIN pending) + 1

\* Mutant of NextId: the counter is read before it is incremented.
NextIdBefore == reqCounter

NextId == reqCounter + 1

Request(c) ==
    /\ req[c] = "idle" /\ connect = "resolved"
    /\ IF connected /\ hasWs
       THEN /\ req' = [req EXCEPT ![c] = "waiting"]
            /\ reqCounter' = reqCounter + 1
            /\ pending' = [i \in DOMAIN pending \cup {NextId} |->
                              IF i = NextId THEN c ELSE pending[i]]
            /\ SafeSend(Req(NextId, c))
       ELSE /\ req' = [req EXCEPT ![c] = "rejected"]
            /\ UNCHANGED <<reqCounter, pending, outbox>>
    /\ UNCHANGED <<link, inbox, hasWs, auth, got, served, over, bounds>>

RequestTimesOut ==
    \E id \in DOMAIN pending :
        /\ req' = [req EXCEPT ![pending[id]] = "rejected"]
        /\ pending' = [i \in DOMAIN pending \ {id} |-> pending[i]]
        /\ UNCHANGED <<socket, auth, reqCounter, got, served, over, bounds>>

-----------------------------------------------------------------------------
(* External: the gateway *)

GatewayReads ==
    /\ link = "open" /\ outbox # <<>>
    /\ outbox' = Tail(outbox)
    /\ IF Head(outbox).t = "auth"
       THEN /\ \E type \in {"auth_ok"} \cup (IF TokenMayDie THEN {"auth_error"} ELSE {}) :
                   inbox' = Append(inbox, Frame(type))
            /\ UNCHANGED served
       ELSE served' = served \cup {Head(outbox)} /\ UNCHANGED inbox
    /\ UNCHANGED <<link, hasWs, auth, calls, over, bounds>>

\* Requests are answered in any order, or never.
GatewayAnswers ==
    /\ link = "open"
    /\ \E r \in served :
           /\ served' = served \ {r}
           /\ inbox' = Append(inbox, Resp(r.id, r.caller))
    /\ UNCHANGED <<link, outbox, hasWs, auth, calls, over, bounds>>

GatewayReauths ==
    /\ link = "open" /\ connected /\ reauths < MaxReauths
    /\ reauths' = reauths + 1
    /\ inbox' = Append(inbox, Frame("reauth"))
    /\ UNCHANGED <<link, outbox, hasWs, auth, calls, served, over, drops>>

-----------------------------------------------------------------------------
Next ==
    \/ Connect \/ RetryFires \/ SocketOpens \/ SocketCloses \/ Dispose
    \/ ReceiveAuthOk \/ ReceiveAuthError \/ ReceiveReauth \/ ReceiveResp
    \/ \E c \in Callers : Request(c)
    \/ RequestTimesOut
    \/ GatewayReads \/ GatewayAnswers \/ GatewayReauths

Spec == Init /\ [][Next]_vars

\* Timers fire, socket events are delivered and the gateway reads what it is
\* sent.  It owes no answer to a request, and nobody owes a call.
Fairness ==
    /\ WF_vars(Connect) /\ WF_vars(RetryFires) /\ WF_vars(SocketOpens)
    /\ WF_vars(SocketCloses /\ link = "closing")
    /\ WF_vars(ReceiveAuthOk \/ ReceiveAuthError \/ ReceiveReauth \/ ReceiveResp)
    /\ WF_vars(RequestTimesOut)
    /\ WF_vars(GatewayReads)

FairSpec == Spec /\ Fairness

-----------------------------------------------------------------------------
(* Properties *)

TypeOK ==
    /\ link \in {"none", "connecting", "open", "closing", "down"}
    /\ \A i \in DOMAIN inbox :
           inbox[i].t \in {"auth_ok", "auth_error", "reauth", "resp"}
    /\ \A i \in DOMAIN outbox : outbox[i].t \in {"auth", "req"}
    /\ {hasWs, connected, closed, retryTimer, over} \subseteq BOOLEAN
    /\ authSettle \in {"connect", "retry", "none"}
    /\ connect \in {"none", "pending", "resolved", "rejected"}
    /\ DOMAIN pending \subseteq 1..reqCounter
    /\ \A id \in DOMAIN pending : pending[id] \in Callers
    /\ req \in [Callers -> {"idle", "waiting", "rejected", "answered"}]
    /\ got \subseteq Callers \X Callers

\* A call is answered with the gateway's answer to that call, although answers
\* come in any order, late ones come after their timeout, and calls go on after
\* a reconnect.
AnswersMatch == \A a \in got : a[1] = a[2]

\* A call waits exactly while it is in the pending map, where its answer, its
\* timeout or the loss of the connection will find it, and none is left
\* waiting on a connection that is gone.
WaitingIsPending ==
    /\ \A c \in Callers :
         req[c] = "waiting" <=> \E id \in DOMAIN pending : pending[id] = c
    /\ pending # NoPending => connected /\ link \in {"open", "closing"}

\* Once the owner disposed of the transport, or the gateway rejected the token,
\* no socket is opened again.
NoReconnectWhenOver == [][over => ~(link # "connecting" /\ link' = "connecting")]_vars

\* Every call is settled: by its answer, its timeout, or the connection's end.
CallsSettle == \A c \in Callers : req[c] = "waiting" ~> Settled(c)

\* However often the socket is lost, the transport comes back, unless it is over.
ComesBack == <>[](connected \/ over)

=============================================================================
