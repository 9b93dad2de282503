-------------------------- MODULE ClientHandleProofs --------------------------
(***************************************************************************)
(* Proofs about ClientHandle, for any number of lives, events, ends of the *)
(* process and clock errors that are not negative:                         *)
(*   - TypeCorrect: Spec => []TypeOK                                       *)
(*   - NoTransportLeft: Spec => []OpenTransportsExplained                  *)
(*   - OutboundHasClient: Spec => []RegisteredIsUp                         *)
(*   - NoEventTwice: Spec => []AtMostOnce                                  *)
(***************************************************************************)
EXTENDS ClientHandle, TLAPS

-----------------------------------------------------------------------------
(* The inductive invariant *)

\* One life at a time is under way: the last one.
OneLife ==
    \A l \in Lives :
        /\ ~Settled(l) => l = life
        /\ l > life => phase[l] = "none"

\* How far the handle of a life is, by the phase of the life.
HandleInv ==
    \A l \in Lives :
        /\ phase[l] \in {"none", "create"} => l \notin open
        /\ phase[l] = "crypto" => l \in open
        /\ phase[l] \in {"none", "create", "hung", "crypto", "sync"} =>
               stop[l] = "no" /\ l \notin timer /\ l \notin heeds
        /\ phase[l] \in {"sync", "rooms", "wait", "stop"} =>
               l \in syncing \/ stop[l] = "done"
        /\ phase[l] = "stop" => stop[l] = "save"

\* stop() is called on an abort only, and the abort listener is there while the
\* signal has not fired: a life that waits will hear of it.
StopInv ==
    \A l \in Lives :
        /\ stop[l] # "no" => l \notin timer /\ l \in aborted
        /\ stop[l] = "save" => phase[l] \in {"rooms", "stop", "ended"}
        /\ stop[l] = "done" => phase[l] \in {"rooms", "ended", "gone"} /\ l \notin open
        /\ phase[l] = "wait" => l \notin aborted
        /\ phase[l] \in {"rooms", "wait"} /\ l \notin aborted => l \in heeds

\* A life that settles unregisters its handle.
RegistryInv ==
    registry # None => phase[registry] \in {"sync", "rooms", "wait", "stop"}

\* A start takes one step of the clock.
ClockInv ==
    /\ now <= MaxTime + life
    /\ life \in Lives /\ phase[life] = "create" => now < MaxTime + life

\* Events that are with a handler, or on the way to one.
Touched(e) == times[e] > 0 \/ e \in noticed \/ \E l \in Lives : e \in pend[l]

\* Unless lives overlapped: one client syncs at most; at the time a handle is
\* built all touched events are older; and what a client may still put on its
\* timeline nobody has touched.
NoOverlapInv ==
    /\ syncing \subseteq {life}
    /\ life \in Lives /\ phase[life] \in {"create", "hung", "crypto"} => syncing = {}
    /\ life \in Lives /\ phase[life] = "crypto" => \A e \in Events : Touched(e) => ts[e] < now
    /\ \A l \in syncing, e \in Events :
           ts[e] # None /\ IsLive(l, e) /\ e \notin seen[l] => ~Touched(e)

\* An event is with one client, or with its handler once.
OnceInv ==
    \A e \in Events :
        /\ times[e] <= 1 /\ ~(times[e] > 0 /\ e \in noticed)
        /\ \A l \in Lives : e \in pend[l] =>
               /\ times[e] = 0 /\ e \notin noticed
               /\ \A m \in Lives : e \in pend[m] => m = l

\* Only what was sent can be touched.
SentInv == \A e \in Events : Touched(e) => ts[e] # None

IInv ==
    /\ TypeOK /\ OneLife /\ HandleInv /\ StopInv /\ RegistryInv /\ ClockInv
    /\ OpenTransportsExplained
    /\ SentInv
    /\ overlap \/ (NoOverlapInv /\ OnceInv)

-----------------------------------------------------------------------------
(* Phases of the lives *)

\* The call of startAccount that begins is the next one, and its life is new.
Begins ==
    /\ life \in Nat /\ life' = life + 1 /\ life' \in Lives
    /\ phase' = [l \in Lives |-> IF l = life' THEN "create" ELSE phase[l]]
    /\ \A l \in Lives : Settled(l) /\ (l >= life' => phase[l] = "none")
    /\ UNCHANGED <<aborted, handle, registry, event, env, outcome, failed>>

LEMMA StartFacts ==
    ASSUME TypeOK, OneLife, StartAccount
    PROVE  Begins
<1>1. life \in Nat /\ life' = life + 1 /\ life' \in Lives
  BY HandleAssumption DEF StartAccount, TypeOK, Lives
<1>2. phase' = [l \in Lives |-> IF l = life' THEN "create" ELSE phase[l]]
  BY DEF StartAccount, TypeOK
<1>3. ASSUME NEW l \in Lives PROVE Settled(l) /\ (l >= life' => phase[l] = "none")
  BY <1>1 DEF StartAccount, OneLife, Lives
<1>4. UNCHANGED <<aborted, handle, registry, event, env, outcome, failed>>
  BY DEF StartAccount
<1> QED BY <1>1, <1>2, <1>3, <1>4 DEF Begins

LEMMA OneLifeStep ==
    ASSUME TypeOK, OneLife, Next
    PROVE  OneLife'
<1> USE DEF OneLife, Settled, TypeOK, host, handle, event, env, outcome, history
<1>1. CASE StartAccount
  <2>1. Begins
    BY <1>1, StartFacts
  <2> QED BY <2>1 DEF Begins, Settled, Lives
<1>2. ASSUME NEW l \in Lives,
             \/ CreateConnects(l) \/ ConnectHangs(l) \/ CryptoFails(l)
             \/ HandleStarts(l)
      PROVE  OneLife'
  BY <1>2 DEF CreateConnects, ConnectHangs, CryptoFails, HandleStarts
<1>3. ASSUME NEW l \in Lives, InitialSync(l) \/ RoomsDone(l) PROVE OneLife'
  BY <1>3 DEF InitialSync, RoomsDone, BeginStop, Unregister
<1>4. ASSUME NEW l \in Lives, Abort(l) PROVE OneLife'
  BY <1>4 DEF Abort, BeginStop, Unregister
<1>5. ASSUME NEW l \in Lives, StopReturns(l) PROVE OneLife'
  BY <1>5 DEF StopReturns, Unregister
<1>6. CASE ProcessExits
  BY <1>6 DEF ProcessExits
<1>7. CASE Tick \/ TokenDies
  BY <1>7 DEF Tick, TokenDies
<1>8. ASSUME NEW l \in Lives, NEW e \in Events, TimelineEvent(l, e) \/ Decrypted(l, e)
      PROVE  OneLife'
  BY <1>8 DEF TimelineEvent, Decrypted, Deliver, Inbound, Command
<1>9. ASSUME NEW e \in Events, UserSends(e) PROVE OneLife'
  BY <1>9 DEF UserSends
<1> QED BY <1>1, <1>2, <1>3, <1>4, <1>5, <1>6, <1>7, <1>8, <1>9 DEF Next

LEMMA HandleStep ==
    ASSUME TypeOK, OneLife, HandleInv, StopInv, Next
    PROVE  HandleInv'
<1> USE DEF HandleInv, StopInv, TypeOK, host, handle, event, env, outcome, history
<1>1. CASE StartAccount
  <2>1. Begins
    BY <1>1, StartFacts
  <2> QED BY <2>1 DEF Begins, Settled, Lives
<1>2. ASSUME NEW l \in Lives, CreateConnects(l) PROVE HandleInv'
  BY <1>2 DEF CreateConnects
<1>3. ASSUME NEW l \in Lives, ConnectHangs(l) \/ CryptoFails(l) PROVE HandleInv'
  BY <1>3 DEF ConnectHangs, CryptoFails
<1>4. ASSUME NEW l \in Lives, HandleStarts(l) PROVE HandleInv'
  BY <1>4 DEF HandleStarts
<1>5. ASSUME NEW l \in Lives, InitialSync(l) PROVE HandleInv'
  BY <1>5 DEF InitialSync
<1>6. ASSUME NEW l \in Lives, RoomsDone(l) PROVE HandleInv'
  BY <1>6 DEF RoomsDone, BeginStop, Unregister
<1>7. ASSUME NEW l \in Lives, Abort(l) PROVE HandleInv'
  BY <1>7 DEF Abort, BeginStop, Unregister
<1>8. ASSUME NEW l \in Lives, StopReturns(l) PROVE HandleInv'
  BY <1>8 DEF StopReturns, Unregister
<1>9. CASE ProcessExits
  BY <1>9 DEF ProcessExits
<1>10. CASE Tick \/ TokenDies
  BY <1>10 DEF Tick, TokenDies
<1>11. ASSUME NEW l \in Lives, NEW e \in Events, TimelineEvent(l, e) \/ Decrypted(l, e)
       PROVE  HandleInv'
  BY <1>11 DEF TimelineEvent, Decrypted, Deliver, Inbound, Command
<1>12. ASSUME NEW e \in Events, UserSends(e) PROVE HandleInv'
  BY <1>12 DEF UserSends
<1> QED BY <1>1, <1>2, <1>3, <1>4, <1>5, <1>6, <1>7, <1>8, <1>9, <1>10, <1>11, <1>12 DEF
     Next

LEMMA StopStep ==
    ASSUME TypeOK, OneLife, HandleInv, StopInv, Next
    PROVE  StopInv'
<1> USE DEF HandleInv, StopInv, TypeOK, host, handle, event, env, outcome, history
<1>1. CASE StartAccount
  <2>1. Begins
    BY <1>1, StartFacts
  <2> QED BY <2>1 DEF Begins, Settled, Lives
<1>2. ASSUME NEW l \in Lives, CreateConnects(l) PROVE StopInv'
  BY <1>2 DEF CreateConnects
<1>3. ASSUME NEW l \in Lives, ConnectHangs(l) \/ CryptoFails(l) PROVE StopInv'
  BY <1>3 DEF ConnectHangs, CryptoFails
<1>4. ASSUME NEW l \in Lives, HandleStarts(l) PROVE StopInv'
  BY <1>4 DEF HandleStarts
<1>5. ASSUME NEW l \in Lives, InitialSync(l) PROVE StopInv'
  BY <1>5 DEF InitialSync
<1>6. ASSUME NEW l \in Lives, RoomsDone(l) PROVE StopInv'
  BY <1>6 DEF RoomsDone, BeginStop, Unregister
<1>7. ASSUME NEW l \in Lives, Abort(l) PROVE StopInv'
  BY <1>7 DEF Abort, BeginStop, Unregister
<1>8. ASSUME NEW l \in Lives, StopReturns(l) PROVE StopInv'
  BY <1>8 DEF StopReturns, Unregister
<1>9. CASE ProcessExits
  BY <1>9 DEF ProcessExits
<1>10. CASE Tick \/ TokenDies
  BY <1>10 DEF Tick, TokenDies
<1>11. ASSUME NEW l \in Lives, NEW e \in Events, TimelineEvent(l, e) \/ Decrypted(l, e)
       PROVE  StopInv'
  BY <1>11 DEF TimelineEvent, Decrypted, Deliver, Inbound, Command
<1>12. ASSUME NEW e \in Events, UserSends(e) PROVE StopInv'
  BY <1>12 DEF UserSends
<1> QED BY <1>1, <1>2, <1>3, <1>4, <1>5, <1>6, <1>7, <1>8, <1>9, <1>10, <1>11, <1>12 DEF
     Next

LEMMA RegistryStep ==
    ASSUME TypeOK, OneLife, RegistryInv, Next
    PROVE  RegistryInv'
<1> USE DEF RegistryInv, OneLife, Settled, TypeOK, host, handle, event, env, outcome,
     history
<1>1. CASE StartAccount
  <2>1. Begins
    BY <1>1, StartFacts
  <2> QED BY <2>1 DEF Begins, Settled, Lives
<1>2. ASSUME NEW l \in Lives, CreateConnects(l) \/ ConnectHangs(l) \/ CryptoFails(l)
      PROVE  RegistryInv'
  BY <1>2 DEF CreateConnects, ConnectHangs, CryptoFails
<1>3. ASSUME NEW l \in Lives, HandleStarts(l) PROVE RegistryInv'
  BY <1>3 DEF HandleStarts
<1>4. ASSUME NEW l \in Lives, InitialSync(l) PROVE RegistryInv'
  BY <1>4 DEF InitialSync
<1>5. ASSUME NEW l \in Lives, RoomsDone(l) PROVE RegistryInv'
  BY <1>5 DEF RoomsDone, BeginStop, Unregister
<1>6. ASSUME NEW l \in Lives, Abort(l) PROVE RegistryInv'
  BY <1>6 DEF Abort, BeginStop, Unregister
<1>7. ASSUME NEW l \in Lives, StopReturns(l) PROVE RegistryInv'
  BY <1>7 DEF StopReturns, Unregister
<1>8. CASE ProcessExits
  BY <1>8 DEF ProcessExits
<1>9. CASE Tick \/ TokenDies
  BY <1>9 DEF Tick, TokenDies
<1>10. ASSUME NEW l \in Lives, NEW e \in Events, TimelineEvent(l, e) \/ Decrypted(l, e)
       PROVE  RegistryInv'
  BY <1>10 DEF TimelineEvent, Decrypted, Deliver, Inbound, Command
<1>11. ASSUME NEW e \in Events, UserSends(e) PROVE RegistryInv'
  BY <1>11 DEF UserSends
<1> QED BY <1>1, <1>2, <1>3, <1>4, <1>5, <1>6, <1>7, <1>8, <1>9, <1>10, <1>11 DEF Next

LEMMA ClockStep ==
    ASSUME TypeOK, OneLife, ClockInv, Next
    PROVE  ClockInv'
<1> USE DEF ClockInv, TypeOK, host, handle, event, env, outcome, history
<1>1. CASE StartAccount
  <2>1. Begins
    BY <1>1, StartFacts
  <2>2. now' = now /\ now \in Nat /\ life \in Nat /\ life' = life + 1
    BY <2>1 DEF Begins
  <2>3. now <= MaxTime + life /\ MaxTime \in Nat
    BY HandleAssumption
  <2>4. now' < MaxTime + life' /\ now' <= MaxTime + life'
    BY <2>2, <2>3
  <2> QED BY <2>4
<1>2. ASSUME NEW l \in Lives, CreateConnects(l) PROVE ClockInv'
  <2>1. l = life /\ life' = life /\ now' = now + 1
    BY <1>2 DEF CreateConnects, OneLife, Settled
  <2>2. now < MaxTime + life /\ now \in Nat /\ life \in Nat /\ MaxTime \in Nat
    BY <1>2, <2>1, HandleAssumption DEF CreateConnects, Lives
  <2>3. now' <= MaxTime + life'
    BY <2>1, <2>2
  <2>4. phase'[l] # "create"
    BY <1>2 DEF CreateConnects
  <2> QED BY <2>1, <2>3, <2>4
<1>3. CASE Tick
  <2>1. /\ now' = now + 1 /\ now < MaxTime /\ now \in Nat /\ MaxTime \in Nat
        /\ life' = life /\ life \in Nat /\ phase' = phase
    BY <1>3, HandleAssumption DEF Tick
  <2>2. now' <= MaxTime + life /\ (life \in Lives => now' < MaxTime + life)
    BY <2>1 DEF Lives
  <2> QED BY <2>1, <2>2
<1>4. ASSUME UNCHANGED <<now, life>>, life \in Lives /\ phase'[life] = "create" => phase[life] = "create"
      PROVE  ClockInv'
  BY <1>4
<1>5. ASSUME NEW l \in Lives, ConnectHangs(l) \/ CryptoFails(l) \/ HandleStarts(l)
      PROVE  ClockInv'
  BY <1>5, <1>4 DEF ConnectHangs, CryptoFails, HandleStarts
<1>6. ASSUME NEW l \in Lives, InitialSync(l) \/ RoomsDone(l) PROVE ClockInv'
  BY <1>6, <1>4 DEF InitialSync, RoomsDone, BeginStop, Unregister
<1>7. ASSUME NEW l \in Lives, Abort(l) \/ StopReturns(l) PROVE ClockInv'
  BY <1>7, <1>4 DEF Abort, BeginStop, Unregister, StopReturns
<1>8. CASE ProcessExits \/ TokenDies
  BY <1>8, <1>4 DEF ProcessExits, TokenDies
<1>9. ASSUME NEW l \in Lives, NEW e \in Events, TimelineEvent(l, e) \/ Decrypted(l, e)
      PROVE  ClockInv'
  BY <1>9, <1>4 DEF TimelineEvent, Decrypted, Deliver, Inbound, Command
<1>10. ASSUME NEW e \in Events, UserSends(e) PROVE ClockInv'
  BY <1>10, <1>4 DEF UserSends
<1> QED BY <1>1, <1>2, <1>3, <1>4, <1>5, <1>6, <1>7, <1>8, <1>9, <1>10 DEF Next

LEMMA OpenStep ==
    ASSUME TypeOK, OneLife, HandleInv, StopInv, OpenTransportsExplained, Next
    PROVE  OpenTransportsExplained'
<1> USE DEF OpenTransportsExplained, HandleInv, StopInv, Settled, TypeOK, host, handle,
     event, env, outcome, history
<1>1. CASE StartAccount
  <2>1. Begins
    BY <1>1, StartFacts
  <2> QED BY <2>1 DEF Begins, Settled, Lives
<1>2. ASSUME NEW l \in Lives, CreateConnects(l) PROVE OpenTransportsExplained'
  BY <1>2 DEF CreateConnects
<1>3. ASSUME NEW l \in Lives, ConnectHangs(l) \/ CryptoFails(l)
      PROVE  OpenTransportsExplained'
  BY <1>3 DEF ConnectHangs, CryptoFails
<1>4. ASSUME NEW l \in Lives, HandleStarts(l) PROVE OpenTransportsExplained'
  BY <1>4 DEF HandleStarts
<1>5. ASSUME NEW l \in Lives, InitialSync(l) PROVE OpenTransportsExplained'
  BY <1>5 DEF InitialSync
<1>6. ASSUME NEW l \in Lives, RoomsDone(l) PROVE OpenTransportsExplained'
  BY <1>6 DEF RoomsDone, BeginStop, Unregister
<1>7. ASSUME NEW l \in Lives, Abort(l) PROVE OpenTransportsExplained'
  BY <1>7 DEF Abort, BeginStop, Unregister
<1>8. ASSUME NEW l \in Lives, StopReturns(l) PROVE OpenTransportsExplained'
  BY <1>8 DEF StopReturns, Unregister
<1>9. CASE ProcessExits
  BY <1>9 DEF ProcessExits
<1>10. CASE Tick \/ TokenDies
  BY <1>10 DEF Tick, TokenDies
<1>11. ASSUME NEW l \in Lives, NEW e \in Events, TimelineEvent(l, e) \/ Decrypted(l, e)
       PROVE  OpenTransportsExplained'
  BY <1>11 DEF TimelineEvent, Decrypted, Deliver, Inbound, Command
<1>12. ASSUME NEW e \in Events, UserSends(e) PROVE OpenTransportsExplained'
  BY <1>12 DEF UserSends
<1> QED BY <1>1, <1>2, <1>3, <1>4, <1>5, <1>6, <1>7, <1>8, <1>9, <1>10, <1>11, <1>12 DEF
     Next

-----------------------------------------------------------------------------
(* Handles and the registry *)

\* What RegisteredIsUp says, by the phase of the life that registered.
LEMMA RegisteredParts ==
    ASSUME TypeOK, OneLife, HandleInv, StopInv, RegistryInv
    PROVE  RegisteredIsUp
BY DEF TypeOK, OneLife, HandleInv, StopInv, RegistryInv, RegisteredIsUp, Settled, None

-----------------------------------------------------------------------------
(* Events *)

\* A live event that a syncing client has not put on its timeline yet.
Coming(e) == \E l \in syncing : ts[e] # None /\ IsLive(l, e) /\ e \notin seen[l]

\* An event becomes touched on the timeline of a syncing client only; times
\* stay, and the clock does not run backwards.
TouchFacts ==
    /\ \A e \in Events : Touched(e)' => Touched(e) \/ Coming(e)
    /\ \A e \in Events : ts[e] # None => ts'[e] = ts[e]
    /\ now \in Nat /\ now' \in Nat /\ now <= now'

LEMMA TouchStep ==
    ASSUME TypeOK, Next
    PROVE  TouchFacts
<1> USE DEF TouchFacts, Touched, TypeOK, host, handle, event, env, outcome, history
<1>1. CASE StartAccount
  BY <1>1 DEF StartAccount
<1>2. ASSUME NEW l \in Lives, CreateConnects(l) PROVE TouchFacts
  BY <1>2 DEF CreateConnects
<1>3. ASSUME NEW l \in Lives, ConnectHangs(l) \/ CryptoFails(l) \/ HandleStarts(l)
      PROVE  TouchFacts
  BY <1>3 DEF ConnectHangs, CryptoFails, HandleStarts
<1>4. ASSUME NEW l \in Lives, InitialSync(l) \/ RoomsDone(l) PROVE TouchFacts
  BY <1>4 DEF InitialSync, RoomsDone, BeginStop, Unregister
<1>5. ASSUME NEW l \in Lives, Abort(l) \/ StopReturns(l) PROVE TouchFacts
  BY <1>5 DEF Abort, BeginStop, Unregister, StopReturns
<1>6. CASE ProcessExits
  BY <1>6 DEF ProcessExits
<1>7. CASE Tick \/ TokenDies
  BY <1>7 DEF Tick, TokenDies
<1>8. ASSUME NEW l \in Lives, NEW e \in Events, TimelineEvent(l, e) PROVE TouchFacts
  BY <1>8 DEF TimelineEvent, Coming
<1>9. ASSUME NEW l \in Lives, NEW e \in Events, Decrypted(l, e) PROVE TouchFacts
  BY <1>9 DEF Decrypted, Deliver, Inbound, Command
<1>10. ASSUME NEW e \in Events, UserSends(e) PROVE TouchFacts
  BY <1>10 DEF UserSends
<1> QED BY <1>1, <1>2, <1>3, <1>4, <1>5, <1>6, <1>7, <1>8, <1>9, <1>10 DEF Next

LEMMA SentStep ==
    ASSUME TypeOK, SentInv, Next
    PROVE  SentInv'
BY TouchStep DEF TouchFacts, SentInv, Coming

-----------------------------------------------------------------------------
(* Lives that do not overlap *)

\* One client at most syncs, and none while the next one is being made.
OneClient ==
    /\ syncing \subseteq {life}
    /\ life \in Lives /\ phase[life] \in {"create", "hung", "crypto"} => syncing = {}

\* When a handle is about to be built every touched event is in the past.
OldInv ==
    life \in Lives /\ phase[life] = "crypto" => \A e \in Events : Touched(e) => ts[e] < now

\* What is still to come to a client nobody has touched.
ComingInv == \A e \in Events : Coming(e) => ~Touched(e)

LEMMA NoOverlapParts == NoOverlapInv <=> OneClient /\ OldInv /\ ComingInv
BY DEF NoOverlapInv, OneClient, OldInv, ComingInv, Coming

LEMMA OneClientStep ==
    ASSUME TypeOK, OneLife, OneClient, ~overlap', Next
    PROVE  OneClient'
<1> USE DEF OneClient, OneLife, Settled, TypeOK, host, handle, event, env, outcome,
     history
<1>1. CASE StartAccount
  <2>1. syncing = {}
    BY <1>1 DEF StartAccount, TypeOK
  <2>2. syncing' = {}
    BY <1>1, <2>1, StartFacts DEF Begins, handle
  <2> QED BY <2>2
<1>2. ASSUME NEW l \in Lives, CreateConnects(l) \/ ConnectHangs(l) \/ CryptoFails(l)
      PROVE  OneClient'
  BY <1>2 DEF CreateConnects, ConnectHangs, CryptoFails
<1>3. ASSUME NEW l \in Lives, HandleStarts(l) PROVE OneClient'
  BY <1>3 DEF HandleStarts
<1>4. ASSUME NEW l \in Lives, InitialSync(l) \/ RoomsDone(l) PROVE OneClient'
  BY <1>4 DEF InitialSync, RoomsDone, BeginStop, Unregister
<1>5. ASSUME NEW l \in Lives, Abort(l) \/ StopReturns(l) PROVE OneClient'
  BY <1>5 DEF Abort, BeginStop, Unregister, StopReturns
<1>6. CASE ProcessExits
  BY <1>6 DEF ProcessExits
<1>7. CASE Tick \/ TokenDies
  BY <1>7 DEF Tick, TokenDies
<1>8. ASSUME NEW l \in Lives, NEW e \in Events, TimelineEvent(l, e) \/ Decrypted(l, e)
      PROVE  OneClient'
  BY <1>8 DEF TimelineEvent, Decrypted, Deliver, Inbound, Command
<1>9. ASSUME NEW e \in Events, UserSends(e) PROVE OneClient'
  BY <1>9 DEF UserSends
<1> QED BY <1>1, <1>2, <1>3, <1>4, <1>5, <1>6, <1>7, <1>8, <1>9 DEF Next

LEMMA OldStep ==
    ASSUME TypeOK, OneLife, SentInv, OneClient, OldInv, ~overlap', Next
    PROVE  OldInv'
<1>1. TouchFacts
  BY TouchStep
<1>2. SUFFICES ASSUME life' \in Lives, phase'[life'] = "crypto", NEW e \in Events, Touched(e)'
               PROVE  ts'[e] < now'
  BY DEF OldInv
<1>3. ASSUME NEW l \in Lives, CreateConnects(l) PROVE ts'[e] < now'
  <2>1. Touched(e) /\ ts' = ts /\ now' = now + 1
    BY <1>2, <1>3 DEF CreateConnects, Touched, outcome, event
  <2> QED BY <2>1 DEF TypeOK
<1>4. CASE \A l \in Lives : ~CreateConnects(l)
  <2>1. life \in Lives /\ phase[life] = "crypto"
    <3> USE <1>2 DEF TypeOK
    <3>1. CASE StartAccount
      BY <3>1, StartFacts DEF Begins
    <3>2. CASE ProcessExits \/ Tick \/ TokenDies \/ \E d \in Events : UserSends(d)
      BY <3>2 DEF ProcessExits, Tick, TokenDies, UserSends, host
    <3>3. ASSUME NEW l \in Lives, \/ ConnectHangs(l) \/ CryptoFails(l)
                                  \/ HandleStarts(l) \/ InitialSync(l)
          PROVE  life \in Lives /\ phase[life] = "crypto"
      BY <3>3 DEF ConnectHangs, CryptoFails, HandleStarts, InitialSync, host
    <3>4. ASSUME NEW l \in Lives, RoomsDone(l) \/ Abort(l) \/ StopReturns(l)
          PROVE  life \in Lives /\ phase[life] = "crypto"
      BY <3>4 DEF RoomsDone, Abort, StopReturns, host
    <3>5. ASSUME NEW l \in Lives, NEW d \in Events, TimelineEvent(l, d) \/ Decrypted(l, d)
          PROVE  life \in Lives /\ phase[life] = "crypto"
      BY <3>5 DEF TimelineEvent, Decrypted, host
    <3> QED BY <1>4, <3>1, <3>2, <3>3, <3>4, <3>5 DEF Next
  <2>2. Touched(e)
    BY <1>1, <1>2, <2>1 DEF TouchFacts, OneClient, Coming
  <2>3. ts[e] < now /\ ts'[e] = ts[e]
    BY <1>1, <2>1, <2>2 DEF OldInv, SentInv, TouchFacts
  <2>4. ts[e] \in Nat
    BY DEF TypeOK
  <2> QED BY <1>1, <2>3, <2>4 DEF TouchFacts
<1> QED BY <1>3, <1>4

LEMMA ComingStep ==
    ASSUME TypeOK, OneLife, SentInv, OneClient, OldInv, ComingInv, Next
    PROVE  ComingInv'
<1> USE DEF ComingInv, Coming, IsLive, Touched, TypeOK, host, handle, event, env,
     outcome, history
<1>1. CASE StartAccount
  BY <1>1 DEF StartAccount
<1>2. ASSUME NEW l \in Lives, CreateConnects(l) \/ ConnectHangs(l) \/ CryptoFails(l)
      PROVE  ComingInv'
  BY <1>2 DEF CreateConnects, ConnectHangs, CryptoFails
<1>3. ASSUME NEW l \in Lives, HandleStarts(l)
      PROVE  ComingInv'
  <2>1. l = life /\ syncing = {}
    BY <1>3 DEF HandleStarts, OneLife, OneClient, Settled
  <2>2. SUFFICES ASSUME NEW e \in Events, Coming(e)' PROVE ~Touched(e)'
    BY DEF ComingInv
  <2>3. Touched(e)' <=> Touched(e)
    BY <1>3 DEF HandleStarts, Touched, outcome, event
  <2>4. bootTs'[l] = now + skew /\ ts' = ts /\ syncing' = {l}
    BY <1>3, <2>1 DEF HandleStarts, event, TypeOK
  <2>5. ts[e] >= now + skew
    BY <2>2, <2>4 DEF Coming, IsLive
  <2>6. ~(ts[e] < now)
    BY <2>5, HandleAssumption DEF TypeOK
  <2> QED BY <1>3, <2>1, <2>3, <2>6 DEF OldInv, HandleStarts
<1>4. ASSUME NEW l \in Lives, InitialSync(l) \/ RoomsDone(l) \/ Abort(l)
      PROVE  ComingInv'
  BY <1>4 DEF InitialSync, RoomsDone, BeginStop, Unregister, Abort
<1>5. ASSUME NEW l \in Lives, StopReturns(l) PROVE ComingInv'
  BY <1>5 DEF StopReturns, Unregister
<1>6. CASE ProcessExits
  BY <1>6 DEF ProcessExits
<1>7. CASE Tick \/ TokenDies
  BY <1>7 DEF Tick, TokenDies
<1>8. ASSUME NEW l \in Lives, NEW e \in Events, TimelineEvent(l, e)
      PROVE  ComingInv'
  <2>1. l = life
    BY <1>8 DEF TimelineEvent, OneClient
  <2>2. ASSUME NEW d \in Events, Coming(d)' PROVE d # e /\ Coming(d)
    BY <1>8, <2>1, <2>2 DEF TimelineEvent, Coming, IsLive, OneClient, TypeOK
  <2>3. ASSUME NEW d \in Events, d # e, Touched(d)' PROVE Touched(d)
    BY <1>8, <2>3 DEF TimelineEvent, Touched, TypeOK
  <2> QED BY <2>2, <2>3 DEF ComingInv
<1>9. ASSUME NEW l \in Lives, NEW e \in Events, Decrypted(l, e) PROVE ComingInv'
  BY <1>9 DEF Decrypted, Deliver, Inbound, Command
<1>10. ASSUME NEW e \in Events, UserSends(e)
      PROVE  ComingInv'
  <2>1. \A d \in Events : Touched(d)' <=> Touched(d)
    BY <1>10 DEF UserSends, Touched
  <2>2. ~Touched(e)
    BY <1>10 DEF UserSends, SentInv
  <2>3. \A d \in Events \ {e} : Coming(d)' => Coming(d)
    BY <1>10 DEF UserSends, Coming, IsLive
  <2> QED BY <2>1, <2>2, <2>3 DEF ComingInv
<1> QED BY <1>1, <1>2, <1>3, <1>4, <1>5, <1>6, <1>7, <1>8, <1>9, <1>10 DEF Next

LEMMA OnceStep ==
    ASSUME TypeOK, OneClient, ComingInv, OnceInv, Next
    PROVE  OnceInv'
<1> USE DEF OnceInv, TypeOK, host, handle, event, env, outcome, history
<1>1. CASE StartAccount
  BY <1>1 DEF StartAccount
<1>2. ASSUME NEW l \in Lives,
             \/ CreateConnects(l) \/ ConnectHangs(l) \/ CryptoFails(l)
             \/ HandleStarts(l)
      PROVE  OnceInv'
  BY <1>2 DEF CreateConnects, ConnectHangs, CryptoFails, HandleStarts
<1>3. ASSUME NEW l \in Lives, InitialSync(l) \/ RoomsDone(l) \/ Abort(l) PROVE OnceInv'
  BY <1>3 DEF InitialSync, RoomsDone, BeginStop, Unregister, Abort
<1>4. ASSUME NEW l \in Lives, StopReturns(l) PROVE OnceInv'
  BY <1>4 DEF StopReturns, Unregister
<1>5. CASE ProcessExits
  BY <1>5 DEF ProcessExits
<1>6. CASE Tick \/ TokenDies
  BY <1>6 DEF Tick, TokenDies
<1>7. ASSUME NEW l \in Lives, NEW e \in Events, TimelineEvent(l, e) PROVE OnceInv'
  BY <1>7 DEF TimelineEvent, ComingInv, Coming, Touched
<1>8. ASSUME NEW l \in Lives, NEW e \in Events, Decrypted(l, e) PROVE OnceInv'
  BY <1>8 DEF Decrypted, Deliver, Inbound, Command
<1>9. ASSUME NEW e \in Events, UserSends(e) PROVE OnceInv'
  BY <1>9 DEF UserSends
<1> QED BY <1>1, <1>2, <1>3, <1>4, <1>5, <1>6, <1>7, <1>8, <1>9 DEF Next

-----------------------------------------------------------------------------
(* Type correctness *)

LifeTypes ==
    /\ life \in 0..MaxLives /\ aborted \subseteq Lives /\ blocked \subseteq Lives
    /\ phase \in [Lives -> Phases]
    /\ stop \in [Lives -> {"no", "save", "done"}]
    /\ bootTs \in [Lives -> Nat]
    /\ registry \in Lives \cup {None}
    /\ heeds \subseteq Lives /\ failed \subseteq Lives

HandleTypes == open \subseteq Lives /\ syncing \subseteq open /\ timer \subseteq syncing

EventTypes ==
    /\ now \in Nat \ {0}
    /\ ts \in [Events -> 0..now] /\ late \subseteq Events /\ command \subseteq Events
    /\ seen \in [Lives -> SUBSET Events] /\ pend \in [Lives -> SUBSET Events]
    /\ times \in [Events -> Nat] /\ noticed \subseteq Events

EnvTypes ==
    /\ skew \in ClockErrors /\ dead \in BOOLEAN /\ overlap \in BOOLEAN
    /\ exits \in 0..MaxExits

LEMMA TypeParts ==
    /\ TypeOK => LifeTypes /\ HandleTypes /\ EventTypes /\ EnvTypes
    /\ LifeTypes /\ HandleTypes /\ EventTypes /\ EnvTypes /\ ClockInv => TypeOK
<1>1. TypeOK => LifeTypes /\ HandleTypes /\ EnvTypes
  BY DEF TypeOK, LifeTypes, HandleTypes, EnvTypes
<1>2. TypeOK => EventTypes
  BY HandleAssumption DEF TypeOK, EventTypes
<1>3. LifeTypes /\ EventTypes /\ ClockInv => now \in 1..(MaxTime + MaxLives)
  BY HandleAssumption DEF LifeTypes, EventTypes, ClockInv
<1> QED
  BY <1>1, <1>2, <1>3 DEF TypeOK, LifeTypes, HandleTypes, EventTypes, EnvTypes

LEMMA LifeTypesStep ==
    ASSUME TypeOK, OneLife, LifeTypes, EventTypes, EnvTypes, Next
    PROVE  LifeTypes'
<1> USE DEF LifeTypes, Phases, host, handle, event, env, outcome, history
<1>1. CASE StartAccount
  <2>1. life' \in 0..MaxLives /\ phase' \in [Lives -> Phases]
    BY <1>1, StartFacts, HandleAssumption DEF Begins, Phases, Lives
  <2>2. blocked' \subseteq Lives
    BY <1>1, StartFacts DEF Begins, StartAccount
  <2> QED BY <1>1, <2>1, <2>2 DEF StartAccount
<1>2. ASSUME NEW l \in Lives, CreateConnects(l) PROVE LifeTypes'
  BY <1>2 DEF CreateConnects
<1>3. ASSUME NEW l \in Lives, ConnectHangs(l) \/ CryptoFails(l) PROVE LifeTypes'
  BY <1>3 DEF ConnectHangs, CryptoFails
<1>4. ASSUME NEW l \in Lives, HandleStarts(l)
      PROVE  LifeTypes'
  <2>1. now + skew \in Nat
    BY HandleAssumption DEF EventTypes, EnvTypes
  <2> QED BY <1>4, <2>1 DEF HandleStarts
<1>5. ASSUME NEW l \in Lives, InitialSync(l) PROVE LifeTypes'
  BY <1>5 DEF InitialSync
<1>6. ASSUME NEW l \in Lives, RoomsDone(l) PROVE LifeTypes'
  BY <1>6 DEF RoomsDone, BeginStop, Unregister
<1>7. ASSUME NEW l \in Lives, Abort(l) PROVE LifeTypes'
  BY <1>7 DEF Abort, BeginStop, Unregister
<1>8. ASSUME NEW l \in Lives, StopReturns(l) PROVE LifeTypes'
  BY <1>8 DEF StopReturns, Unregister
<1>9. CASE ProcessExits
  BY <1>9 DEF ProcessExits
<1>10. CASE Tick \/ TokenDies
  BY <1>10 DEF Tick, TokenDies
<1>11. ASSUME NEW l \in Lives, NEW e \in Events, TimelineEvent(l, e) PROVE LifeTypes'
  BY <1>11 DEF TimelineEvent
<1>12. ASSUME NEW l \in Lives, NEW e \in Events, Decrypted(l, e) PROVE LifeTypes'
  BY <1>12 DEF Decrypted, Deliver, Inbound, Command
<1>13. ASSUME NEW e \in Events, UserSends(e) PROVE LifeTypes'
  BY <1>13 DEF UserSends
<1> QED BY <1>1, <1>2, <1>3, <1>4, <1>5, <1>6, <1>7, <1>8, <1>9, <1>10, <1>11, <1>12,
     <1>13 DEF Next

LEMMA HandleTypesStep ==
    ASSUME TypeOK, HandleInv, StopInv, HandleTypes, Next
    PROVE  HandleTypes'
<1> USE DEF HandleTypes, TypeOK, host, handle, event, env, outcome, history
<1>1. CASE StartAccount
  BY <1>1 DEF StartAccount
<1>2. ASSUME NEW l \in Lives, CreateConnects(l) PROVE HandleTypes'
  BY <1>2 DEF CreateConnects
<1>3. ASSUME NEW l \in Lives, ConnectHangs(l) \/ CryptoFails(l) PROVE HandleTypes'
  BY <1>3 DEF ConnectHangs, CryptoFails
<1>4. ASSUME NEW l \in Lives, HandleStarts(l) PROVE HandleTypes'
  BY <1>4 DEF HandleStarts, HandleInv
<1>5. ASSUME NEW l \in Lives, InitialSync(l) PROVE HandleTypes'
  BY <1>5 DEF InitialSync, HandleInv, StopInv
<1>6. ASSUME NEW l \in Lives, RoomsDone(l) PROVE HandleTypes'
  BY <1>6 DEF RoomsDone, BeginStop, Unregister
<1>7. ASSUME NEW l \in Lives, Abort(l) PROVE HandleTypes'
  BY <1>7 DEF Abort, BeginStop, Unregister
<1>8. ASSUME NEW l \in Lives, StopReturns(l) PROVE HandleTypes'
  BY <1>8 DEF StopReturns, Unregister, StopInv
<1>9. CASE ProcessExits
  BY <1>9 DEF ProcessExits
<1>10. CASE Tick \/ TokenDies
  BY <1>10 DEF Tick, TokenDies
<1>11. ASSUME NEW l \in Lives, NEW e \in Events, TimelineEvent(l, e) PROVE HandleTypes'
  BY <1>11 DEF TimelineEvent
<1>12. ASSUME NEW l \in Lives, NEW e \in Events, Decrypted(l, e) PROVE HandleTypes'
  BY <1>12 DEF Decrypted, Deliver, Inbound, Command
<1>13. ASSUME NEW e \in Events, UserSends(e) PROVE HandleTypes'
  BY <1>13 DEF UserSends
<1> QED BY <1>1, <1>2, <1>3, <1>4, <1>5, <1>6, <1>7, <1>8, <1>9, <1>10, <1>11, <1>12,
     <1>13 DEF Next

LEMMA EventTypesStep ==
    ASSUME EventTypes, Next
    PROVE  EventTypes'
<1> USE DEF EventTypes, host, handle, event, env, outcome, history
<1>1. CASE StartAccount
  BY <1>1 DEF StartAccount
<1>2. ASSUME NEW l \in Lives, CreateConnects(l) PROVE EventTypes'
  BY <1>2 DEF CreateConnects
<1>3. ASSUME NEW l \in Lives, ConnectHangs(l) \/ CryptoFails(l) PROVE EventTypes'
  BY <1>3 DEF ConnectHangs, CryptoFails
<1>4. ASSUME NEW l \in Lives, HandleStarts(l) PROVE EventTypes'
  BY <1>4 DEF HandleStarts
<1>5. ASSUME NEW l \in Lives, InitialSync(l) PROVE EventTypes'
  BY <1>5 DEF InitialSync
<1>6. ASSUME NEW l \in Lives, RoomsDone(l) PROVE EventTypes'
  BY <1>6 DEF RoomsDone, BeginStop, Unregister
<1>7. ASSUME NEW l \in Lives, Abort(l) PROVE EventTypes'
  BY <1>7 DEF Abort, BeginStop, Unregister
<1>8. ASSUME NEW l \in Lives, StopReturns(l) PROVE EventTypes'
  BY <1>8 DEF StopReturns, Unregister
<1>9. CASE ProcessExits
  BY <1>9 DEF ProcessExits
<1>10. CASE Tick \/ TokenDies
  BY <1>10 DEF Tick, TokenDies
<1>11. ASSUME NEW l \in Lives, NEW e \in Events, TimelineEvent(l, e) PROVE EventTypes'
  BY <1>11 DEF TimelineEvent
<1>12. ASSUME NEW l \in Lives, NEW e \in Events, Decrypted(l, e) PROVE EventTypes'
  BY <1>12 DEF Decrypted, Deliver, Inbound, Command
<1>13. ASSUME NEW e \in Events, UserSends(e) PROVE EventTypes'
  BY <1>13 DEF UserSends
<1> QED BY <1>1, <1>2, <1>3, <1>4, <1>5, <1>6, <1>7, <1>8, <1>9, <1>10, <1>11, <1>12,
     <1>13 DEF Next

LEMMA EnvTypesStep ==
    ASSUME EnvTypes, Next
    PROVE  EnvTypes'
<1> USE DEF EnvTypes, host, handle, event, env, outcome, history
<1>1. CASE StartAccount
  BY <1>1 DEF StartAccount
<1>2. ASSUME NEW l \in Lives, CreateConnects(l) PROVE EnvTypes'
  BY <1>2 DEF CreateConnects
<1>3. ASSUME NEW l \in Lives, ConnectHangs(l) \/ CryptoFails(l) PROVE EnvTypes'
  BY <1>3 DEF ConnectHangs, CryptoFails
<1>4. ASSUME NEW l \in Lives, HandleStarts(l) PROVE EnvTypes'
  BY <1>4 DEF HandleStarts
<1>5. ASSUME NEW l \in Lives, InitialSync(l) PROVE EnvTypes'
  BY <1>5 DEF InitialSync
<1>6. ASSUME NEW l \in Lives, RoomsDone(l) PROVE EnvTypes'
  BY <1>6 DEF RoomsDone, BeginStop, Unregister
<1>7. ASSUME NEW l \in Lives, Abort(l) PROVE EnvTypes'
  BY <1>7 DEF Abort, BeginStop, Unregister
<1>8. ASSUME NEW l \in Lives, StopReturns(l) PROVE EnvTypes'
  BY <1>8 DEF StopReturns, Unregister
<1>9. CASE ProcessExits
  BY <1>9, HandleAssumption DEF ProcessExits
<1>10. CASE Tick \/ TokenDies
  BY <1>10 DEF Tick, TokenDies
<1>11. ASSUME NEW l \in Lives, NEW e \in Events, TimelineEvent(l, e) PROVE EnvTypes'
  BY <1>11 DEF TimelineEvent
<1>12. ASSUME NEW l \in Lives, NEW e \in Events, Decrypted(l, e) PROVE EnvTypes'
  BY <1>12 DEF Decrypted, Deliver, Inbound, Command
<1>13. ASSUME NEW e \in Events, UserSends(e) PROVE EnvTypes'
  BY <1>13 DEF UserSends
<1> QED BY <1>1, <1>2, <1>3, <1>4, <1>5, <1>6, <1>7, <1>8, <1>9, <1>10, <1>11, <1>12,
     <1>13 DEF Next

-----------------------------------------------------------------------------
(* The invariant holds *)

LEMMA IInvInit == Init => IInv
<1> SUFFICES ASSUME Init PROVE IInv
  OBVIOUS
<1>1. LifeTypes /\ HandleTypes /\ EventTypes /\ EnvTypes
  <2>1. 0 \in 0..MaxLives /\ 0 \in 0..MaxExits
    BY HandleAssumption
  <2>2. LifeTypes /\ HandleTypes
    BY <2>1 DEF Init, LifeTypes, HandleTypes, Phases
  <2>3. EventTypes
    BY DEF Init, EventTypes, None
  <2>4. EnvTypes
    BY <2>1 DEF Init, EnvTypes
  <2> QED BY <2>2, <2>3, <2>4
<1>2. OneLife /\ HandleInv /\ StopInv /\ RegistryInv
  BY DEF Init, OneLife, HandleInv, StopInv, RegistryInv, Settled
<1>3. ClockInv
  BY HandleAssumption DEF Init, ClockInv, Lives
<1>4. OpenTransportsExplained /\ SentInv /\ NoOverlapInv /\ OnceInv
  BY DEF Init, OpenTransportsExplained, SentInv, NoOverlapInv, OnceInv, Touched
<1>5. TypeOK
  BY <1>1, <1>3, TypeParts
<1> QED BY <1>2, <1>3, <1>4, <1>5 DEF IInv

LEMMA TypeStep ==
    ASSUME TypeOK, OneLife, HandleInv, StopInv, ClockInv, Next
    PROVE  TypeOK'
<1>1. LifeTypes' /\ HandleTypes' /\ EventTypes' /\ EnvTypes' /\ ClockInv'
  BY TypeParts, LifeTypesStep, HandleTypesStep, EventTypesStep, EnvTypesStep, ClockStep
<1>2. (LifeTypes /\ HandleTypes /\ EventTypes /\ EnvTypes /\ ClockInv)' => TypeOK'
  BY TypeParts, PTL
<1> QED BY <1>1, <1>2

LEMMA EventsStep ==
    ASSUME TypeOK, OneLife, SentInv, overlap \/ (NoOverlapInv /\ OnceInv), Next
    PROVE  (overlap \/ (NoOverlapInv /\ OnceInv))'
<1>1. CASE overlap'
  BY <1>1
<1>2. CASE ~overlap'
  <2>1. ~overlap
    <3>1. overlap' \in {overlap, overlap \/ syncing # {}}
      <4> USE DEF history
      <4>1. CASE StartAccount
        BY <4>1 DEF StartAccount
      <4>2. CASE ProcessExits \/ Tick \/ TokenDies \/ \E e \in Events : UserSends(e)
        BY <4>2 DEF ProcessExits, Tick, TokenDies, UserSends
      <4>3. ASSUME NEW l \in Lives, \/ CreateConnects(l) \/ ConnectHangs(l) \/ CryptoFails(l)
                                    \/ HandleStarts(l) \/ InitialSync(l)
            PROVE  overlap' = overlap
        BY <4>3 DEF CreateConnects, ConnectHangs, CryptoFails, HandleStarts, InitialSync
      <4>4. ASSUME NEW l \in Lives, RoomsDone(l) \/ Abort(l) \/ StopReturns(l)
            PROVE  overlap' = overlap
        BY <4>4 DEF RoomsDone, Abort, StopReturns
      <4>5. ASSUME NEW l \in Lives, NEW e \in Events, TimelineEvent(l, e) \/ Decrypted(l, e)
            PROVE  overlap' = overlap
        BY <4>5 DEF TimelineEvent, Decrypted
      <4> QED BY <4>1, <4>2, <4>3, <4>4, <4>5 DEF Next
    <3> QED BY <1>2, <3>1
  <2>2. OneClient /\ OldInv /\ ComingInv /\ OnceInv
    BY <2>1, NoOverlapParts
  <2>3. OneClient' /\ OldInv' /\ ComingInv' /\ OnceInv'
    BY <1>2, <2>2, OneClientStep, OldStep, ComingStep, OnceStep
  <2>4. (OneClient /\ OldInv /\ ComingInv)' => NoOverlapInv'
    BY NoOverlapParts, PTL
  <2> QED BY <2>3, <2>4
<1> QED BY <1>1, <1>2

LEMMA IInvStep == IInv /\ [Next]_vars => IInv'
<1>1. ASSUME IInv, Next PROVE IInv'
  <2>1. TypeOK' /\ OneLife' /\ HandleInv' /\ StopInv'
    BY <1>1, TypeStep, OneLifeStep, HandleStep, StopStep DEF IInv
  <2>2. RegistryInv' /\ ClockInv' /\ OpenTransportsExplained' /\ SentInv'
    BY <1>1, RegistryStep, ClockStep, OpenStep, SentStep DEF IInv
  <2>3. (overlap \/ (NoOverlapInv /\ OnceInv))'
    BY <1>1, EventsStep DEF IInv
  <2> QED BY <2>1, <2>2, <2>3 DEF IInv
<1>2. ASSUME IInv, UNCHANGED vars PROVE IInv'
  <2> USE <1>2 DEF vars, IInv
  <2>1. TypeOK' /\ OneLife' /\ HandleInv' /\ StopInv' /\ RegistryInv' /\ ClockInv'
    BY DEF TypeOK, OneLife, HandleInv, StopInv, RegistryInv, ClockInv, Settled
  <2>2. OpenTransportsExplained' /\ SentInv'
    BY DEF OpenTransportsExplained, SentInv, Touched, Settled
  <2>3. (overlap \/ (NoOverlapInv /\ OnceInv))'
    BY DEF NoOverlapInv, OnceInv, Touched, IsLive
  <2> QED BY <2>1, <2>2, <2>3
<1> QED BY <1>1, <1>2

LEMMA Inductive == Spec => []IInv
BY IInvInit, IInvStep, PTL DEF Spec

\* Every variable keeps its type: a persist timer runs only for a client that
\* syncs, and a client syncs only over an open transport (client.ts, stop()).
THEOREM TypeCorrect == Spec => []TypeOK
<1>1. IInv => TypeOK
  BY DEF IInv
<1> QED BY Inductive, <1>1, PTL

\* Whatever order aborts, failures and exits come in, a connected transport
\* belongs to a startAccount under way, to a stop() that is saving, or to a
\* create() that threw (client.ts, create).
THEOREM NoTransportLeft == Spec => []OpenTransportsExplained
<1>1. IInv => OpenTransportsExplained
  BY DEF IInv
<1> QED BY Inductive, <1>1, PTL

\* The handle that outbound sends use is the last life's, and its client
\* syncs, unless an abort came while the rooms were being ensured.
THEOREM OutboundHasClient == Spec => []RegisteredIsUp
<1>1. IInv => RegisteredIsUp
  BY RegisteredParts DEF IInv
<1> QED BY Inductive, <1>1, PTL

\* No event reaches its handler twice, over any number of restarts of the
\* account and the process (client.ts, handleTimelineEvent), if no life was
\* started while an older client was still syncing.
THEOREM NoEventTwice == Spec => []AtMostOnce
<1>1. IInv => AtMostOnce
  BY DEF IInv, TypeOK, OnceInv, AtMostOnce
<1> QED BY Inductive, <1>1, PTL
=============================================================================
