-------------------------- MODULE PluginRoomsProofs --------------------------
(***************************************************************************)
(* Proofs about PluginRooms, for any number of rooms, handlers, restarts   *)
(* and faults:                                                             *)
(*   - TypeCorrect: Spec => []TypeOK                                       *)
(*   - PairLinked: Spec => []SavedPairLinked                               *)
(*   - AnswersHold: Spec => []AnswersKept                                  *)
(*   - RoomsPaidFor: Spec => []OneOfEachButForMishaps                      *)
(***************************************************************************)
EXTENDS PluginRooms, FiniteSetTheorems, TLAPS

-----------------------------------------------------------------------------
(* The inductive invariant *)

\* The two kinds of room a plugin needs one of; also the fields of a pair.
Owned == {"space", "control"}

\* ensurePluginRooms has its rooms one after the other, and both from the
\* first state event on.
StepInv ==
    /\ pc \in {"control", "child", "parent", "save"} => cur.space \in OfKind("space")
    /\ pc \in {"child", "parent", "save"} => cur.control \in OfKind("control")

\* A handler works for a space, one that creates a session has a session room
\* as soon as it has one, and one that archives has some room.
CommandInv ==
    \A h \in Handlers :
        /\ cmd[h].op # "idle" => cmd[h].space \in OfKind("space")
        /\ cmd[h].op \in {"child", "parent"} => cmd[h].room \in OfKind("session")
        /\ cmd[h].op = "archive" => cmd[h].room \in Ids \ OfKind("none")

\* Only a space lists rooms, and what it lists was created as a session or a
\* control room.
ListInv ==
    /\ child \subseteq OfKind("space") \X (OfKind("control") \cup OfKind("session"))
    /\ archived \subseteq OfKind("control") \cup OfKind("session")

\* No room is listed by two spaces.
SoleInv == \A s, t, r \in Ids : <<s, r>> \in child /\ <<t, r>> \in child => s = t

\* What ensurePluginRooms is about to save is linked as far as it has got, and
\* what it is about to link is listed nowhere.
PairInv ==
    /\ pc = "child" => cur.control \notin archived /\ \A s \in Ids : <<s, cur.control>> \notin child
    /\ pc = "parent" => <<cur.space, cur.control>> \in child \/ cur.control \in archived
    /\ pc = "save" => Linked(cur) \/ cur.control \in orphaned \cup archived

\* A session whose first state event is not sent yet is known to its handler
\* only; one whose second is not sent yet is listed, unless a handler has
\* archived it since.
SessionInv ==
    \A h \in Handlers :
        /\ cmd[h].op = "child" =>
               /\ cmd[h].room \notin archived
               /\ \A s \in Ids : <<s, cmd[h].room>> \notin child
               /\ \A g \in Handlers \ {h} :
                      cmd[g].op \in {"child", "parent"} => cmd[g].room # cmd[h].room
        /\ cmd[h].op = "parent" /\ cmd[h].room \notin archived =>
               <<cmd[h].space, cmd[h].room>> \in child

\* The room of kind k that rooms.json names, or will when the running
\* ensurePluginRooms has saved its ids.
Kept(k) ==
    IF pc \in {"child", "parent", "save"} \/ (pc = "control" /\ k = "space")
    THEN cur[k] ELSE stored[k]

Members(k) == joined \cap OfKind(k)

\* The kept room is one the bot is in, but the room list lacks it: it will be
\* replaced.
Hidden(k) ==
    /\ pc = "space" \/ (pc = "control" /\ k = "control")
    /\ stored[k] \in joined \ view

\* The other room of the pair is one the bot was removed from, so linking will
\* be refused and a new room of kind k will not be saved.
Doomed(k) ==
    \/ k = "space" /\ pc \in {"child", "parent"} /\ cur.control \notin joined
    \/ k = "control" /\ pc = "space" /\ stored.space \in view \ joined
    \/ k = "control" /\ pc \in {"control", "child"} /\ cur.space \notin joined

Hiding(k) == IF Hidden(k) THEN 1 ELSE 0
Dooming(k) == IF Doomed(k) THEN 1 ELSE 0
Extra(k) == Cardinality(Members(k) \ {Kept(k)})

\* Every room beyond the kept one is paid for by a mishap, and so is already
\* each one that is going to be.
Paid(k) == Extra(k) + Hiding(k) + Dooming(k) <= mishaps
BillInv == \A k \in Owned : Paid(k)

IInv ==
    /\ TypeOK /\ StepInv /\ CommandInv /\ ListInv /\ SoleInv
    /\ PairInv /\ SavedPairLinked
    /\ SessionInv /\ AnswersKept
    /\ BillInv

-----------------------------------------------------------------------------
(* Kinds and types *)

LEMMA IdFacts == None \notin Ids /\ IsFiniteSet(Ids)
<1>1. IsFiniteSet(1..MaxRooms)
  BY RoomsAssumption, FS_Interval
<1> QED BY <1>1 DEF None, Ids

\* A room is what it was created as, for ever.
KindsKept ==
    /\ kind' \in [Ids -> Kinds]
    /\ \A r \in Ids : kind[r] # "none" => kind'[r] = kind[r]

LEMMA KindStep ==
    ASSUME TypeOK, Next
    PROVE  KindsKept
<1> USE DEF KindsKept, TypeOK, Kinds, OfKind, server, history, counters
<1>1. CASE Start \/ StartBlocked
  BY <1>1 DEF Start, Mishap, StartBlocked
<1>2. CASE ReuseSpace \/ ReuseControl \/ SaveRooms
  BY <1>2 DEF ReuseSpace, ReuseControl, SaveRooms
<1>3. CASE CreateSpace
  BY <1>3 DEF CreateSpace, CreateRoom, FreshRoom
<1>4. CASE CreateControl
  BY <1>4 DEF CreateControl, CreateRoom, FreshRoom
<1>5. CASE LinkControl
  BY <1>5 DEF LinkControl, SetChild, SetParent, Refused
<1>6. CASE EnsureFails
  BY <1>6 DEF EnsureFails, CreateRoom, FreshRoom, CallFails, SetChild, SetParent,
       Refused, Mishap
<1>7. CASE Crash
  BY <1>7 DEF Crash, Mishap, Quiet
<1>8. CASE BotRemoved
  BY <1>8 DEF BotRemoved, Mishap
<1>9. CASE SyncShows
  BY <1>9 DEF SyncShows
<1>10. ASSUME NEW h \in Handlers, SessionNew(h) PROVE KindsKept
  BY <1>10 DEF SessionNew, Accepts, IsControlRoom
<1>11. ASSUME NEW h \in Handlers, SessionArchive(h) PROVE KindsKept
  BY <1>11 DEF SessionArchive, Accepts, IsControlRoom
<1>12. ASSUME NEW h \in Handlers, HandlerCreates(h) PROVE KindsKept
  BY <1>12 DEF HandlerCreates, CreateRoom, FreshRoom
<1>13. ASSUME NEW h \in Handlers, HandlerLinks(h) PROVE KindsKept
  BY <1>13 DEF HandlerLinks, SetChild, SetParent, Refused
<1>14. ASSUME NEW h \in Handlers, HandlerArchives(h) PROVE KindsKept
  BY <1>14 DEF HandlerArchives, DropChild, Removed, Refused
<1>15. ASSUME NEW h \in Handlers, HandlerFails(h) PROVE KindsKept
  BY <1>15 DEF HandlerFails, CreateRoom, FreshRoom, CallFails, SetChild, SetParent,
       DropChild, Removed, Refused, Mishap
<1> QED BY <1>1, <1>2, <1>3, <1>4, <1>5, <1>6, <1>7, <1>8, <1>9, <1>10, <1>11, <1>12,
     <1>13, <1>14, <1>15 DEF Next, Ensure, Handle

LEMMA KindsGrow ==
    ASSUME TypeOK, KindsKept, NEW k \in Kinds \ {"none"}
    PROVE  OfKind(k) \subseteq OfKind(k)'
BY DEF KindsKept, OfKind, Kinds, TypeOK

LEMMA CountersStep ==
    ASSUME TypeOK, Next
    PROVE  (mishaps \in 0..MaxMishaps /\ restarts \in 0..MaxRestarts)'
<1> USE DEF TypeOK, server, history, counters
<1>1. CASE Start \/ StartBlocked
  BY <1>1, RoomsAssumption DEF Start, Mishap, StartBlocked
<1>2. CASE ReuseSpace \/ ReuseControl \/ SaveRooms
  BY <1>2, RoomsAssumption DEF ReuseSpace, ReuseControl, SaveRooms
<1>3. CASE CreateSpace
  BY <1>3, RoomsAssumption DEF CreateSpace, CreateRoom, FreshRoom
<1>4. CASE CreateControl
  BY <1>4, RoomsAssumption DEF CreateControl, CreateRoom, FreshRoom
<1>5. CASE LinkControl
  BY <1>5, RoomsAssumption DEF LinkControl, SetChild, SetParent, Refused
<1>6. CASE EnsureFails
  BY <1>6, RoomsAssumption DEF EnsureFails, CreateRoom, FreshRoom, CallFails, SetChild,
       SetParent, Refused, Mishap
<1>7. CASE Crash
  BY <1>7, RoomsAssumption DEF Crash, Mishap, Quiet
<1>8. CASE BotRemoved
  BY <1>8, RoomsAssumption DEF BotRemoved, Mishap
<1>9. CASE SyncShows
  BY <1>9, RoomsAssumption DEF SyncShows
<1>10. ASSUME NEW h \in Handlers, SessionNew(h)
       PROVE  (mishaps \in 0..MaxMishaps /\ restarts \in 0..MaxRestarts)'
  BY <1>10, RoomsAssumption DEF SessionNew, Accepts, IsControlRoom
<1>11. ASSUME NEW h \in Handlers, SessionArchive(h)
       PROVE  (mishaps \in 0..MaxMishaps /\ restarts \in 0..MaxRestarts)'
  BY <1>11, RoomsAssumption DEF SessionArchive, Accepts, IsControlRoom
<1>12. ASSUME NEW h \in Handlers, HandlerCreates(h)
       PROVE  (mishaps \in 0..MaxMishaps /\ restarts \in 0..MaxRestarts)'
  BY <1>12, RoomsAssumption DEF HandlerCreates, CreateRoom, FreshRoom
<1>13. ASSUME NEW h \in Handlers, HandlerLinks(h)
       PROVE  (mishaps \in 0..MaxMishaps /\ restarts \in 0..MaxRestarts)'
  BY <1>13, RoomsAssumption DEF HandlerLinks, SetChild, SetParent, Refused
<1>14. ASSUME NEW h \in Handlers, HandlerArchives(h)
       PROVE  (mishaps \in 0..MaxMishaps /\ restarts \in 0..MaxRestarts)'
  BY <1>14, RoomsAssumption DEF HandlerArchives, DropChild, Removed, Refused
<1>15. ASSUME NEW h \in Handlers, HandlerFails(h)
       PROVE  (mishaps \in 0..MaxMishaps /\ restarts \in 0..MaxRestarts)'
  BY <1>15, RoomsAssumption DEF HandlerFails, CreateRoom, FreshRoom, CallFails,
       SetChild, SetParent, DropChild, Removed, Refused, Mishap
<1> QED BY <1>1, <1>2, <1>3, <1>4, <1>5, <1>6, <1>7, <1>8, <1>9, <1>10, <1>11, <1>12,
     <1>13, <1>14, <1>15 DEF Next, Ensure, Handle

\* A handler whose room was created goes on with it.
LEMMA CreatesFacts ==
    ASSUME TypeOK, NEW h \in Handlers, HandlerCreates(h)
    PROVE  /\ cmd[h].op = "create"
           /\ \E r \in Ids :
                  /\ CreateRoom(r, "session")
                  /\ cmd' = [cmd EXCEPT ![h] = [op |-> "child", space |-> cmd[h].space,
                                                 room |-> r]]
           /\ UNCHANGED <<stored, view, pc, cur, mem, history, counters>>
<1>1. ASSUME NEW r
      PROVE  [[cmd[h] EXCEPT !.op = "child"] EXCEPT !.room = r]
                 = [op |-> "child", space |-> cmd[h].space, room |-> r]
  <2>1. PICK o \in Steps, s \in Ids \cup {None}, q \in Ids \cup {None} :
            cmd[h] = [op |-> o, space |-> s, room |-> q]
    BY DEF TypeOK
  <2>2. [cmd[h] EXCEPT !.op = "child"] = [op |-> "child", space |-> s, room |-> q]
    BY <2>1
  <2>3. [[op |-> "child", space |-> s, room |-> q] EXCEPT !.room = r]
            = [op |-> "child", space |-> s, room |-> r]
    OBVIOUS
  <2> QED BY <2>1, <2>2, <2>3
<1> QED BY <1>1, Zenon DEF HandlerCreates

\* The sets and the step of ensurePluginRooms are of their types.
SetsOK ==
    /\ joined \subseteq Ids /\ view \subseteq Ids
    /\ child \subseteq Ids \X Ids /\ parent \subseteq Ids \X Ids
    /\ pc \in {"down", "space", "control", "child", "parent", "save", "up"}
    /\ acked \subseteq Ids /\ archived \subseteq Ids /\ orphaned \subseteq Ids

PairsOK == stored \in Pairs /\ cur \in Pairs /\ mem \in Pairs

CommandsOK ==
    /\ \A h \in Handlers : cmd[h].op \in {"child", "parent"} => kind[cmd[h].room] = "session"
    /\ cmd \in [Handlers -> [op : Steps, space : Ids \cup {None}, room : Ids \cup {None}]]

LEMMA SetsStep ==
    ASSUME TypeOK, StepInv, CommandInv, Next
    PROVE  SetsOK'
<1> USE DEF SetsOK, IsJoined, StepInv, CommandInv, TypeOK, Pairs, OfKind, server,
     history, counters
<1>1. CASE Start
  <2>1. view' \subseteq joined
    BY <1>1 DEF Start
  <2> QED BY <1>1, <2>1 DEF Start, Mishap
<1>2. CASE StartBlocked
  BY <1>2, IdFacts DEF StartBlocked
<1>3. CASE ReuseSpace \/ ReuseControl \/ SaveRooms
  BY <1>3, IdFacts DEF ReuseSpace, ReuseControl, SaveRooms
<1>4. CASE CreateSpace
  BY <1>4, IdFacts DEF CreateSpace, CreateRoom, FreshRoom
<1>5. CASE CreateControl
  BY <1>5, IdFacts DEF CreateControl, CreateRoom, FreshRoom
<1>6. CASE LinkControl
  BY <1>6, IdFacts DEF LinkControl, SetChild, SetParent, Refused
<1>7. CASE EnsureFails
  BY <1>7, IdFacts DEF EnsureFails, CreateRoom, FreshRoom, CallFails, SetChild,
       SetParent, Refused, Mishap
<1>8. CASE Crash
  BY <1>8, IdFacts DEF Crash, Mishap, Quiet
<1>9. CASE BotRemoved
  BY <1>9, IdFacts DEF BotRemoved, Mishap
<1>10. CASE SyncShows
  BY <1>10, IdFacts DEF SyncShows
<1>11. ASSUME NEW h \in Handlers, SessionNew(h) PROVE SetsOK'
  BY <1>11, IdFacts DEF SessionNew, Accepts, IsControlRoom
<1>12. ASSUME NEW h \in Handlers, SessionArchive(h) PROVE SetsOK'
  BY <1>12, IdFacts DEF SessionArchive, Accepts, IsControlRoom
<1>13. ASSUME NEW h \in Handlers, HandlerCreates(h) PROVE SetsOK'
  BY <1>13, CreatesFacts, IdFacts DEF CreateRoom, FreshRoom
<1>14. ASSUME NEW h \in Handlers, HandlerLinks(h) PROVE SetsOK'
  BY <1>14, IdFacts DEF HandlerLinks, SetChild, SetParent, Refused
<1>15. ASSUME NEW h \in Handlers, HandlerArchives(h) PROVE SetsOK'
  BY <1>15, IdFacts DEF HandlerArchives, DropChild, Removed, Refused
<1>16. ASSUME NEW h \in Handlers, HandlerFails(h) PROVE SetsOK'
  BY <1>16, IdFacts DEF HandlerFails, CreateRoom, FreshRoom, CallFails, SetChild,
       SetParent, DropChild, Removed, Refused, Mishap
<1> QED BY <1>1, <1>2, <1>3, <1>4, <1>5, <1>6, <1>7, <1>8, <1>9, <1>10, <1>11, <1>12,
     <1>13, <1>14, <1>15, <1>16 DEF Next, Ensure, Handle

LEMMA PairsStep ==
    ASSUME TypeOK, KindsKept, Next
    PROVE  PairsOK'
<1> USE DEF PairsOK, KindsKept, TypeOK, Pairs, OfKind, NoRooms, server, history,
     counters
<1>1. CASE Start \/ StartBlocked
  BY <1>1, IdFacts DEF Start, Mishap, StartBlocked
<1>2. CASE ReuseSpace \/ ReuseControl \/ SaveRooms
  BY <1>2, IdFacts DEF ReuseSpace, ReuseControl, SaveRooms
<1>3. CASE CreateSpace
  BY <1>3, IdFacts DEF CreateSpace, CreateRoom, FreshRoom
<1>4. CASE CreateControl
  BY <1>4, IdFacts DEF CreateControl, CreateRoom, FreshRoom
<1>5. CASE LinkControl
  BY <1>5, IdFacts DEF LinkControl, SetChild, SetParent, Refused
<1>6. CASE EnsureFails
  BY <1>6, IdFacts DEF EnsureFails, CreateRoom, FreshRoom, CallFails, SetChild,
       SetParent, Refused, Mishap
<1>7. CASE Crash
  BY <1>7, IdFacts DEF Crash, Mishap, Quiet
<1>8. CASE BotRemoved
  BY <1>8, IdFacts DEF BotRemoved, Mishap
<1>9. CASE SyncShows
  BY <1>9, IdFacts DEF SyncShows
<1>10. ASSUME NEW h \in Handlers, SessionNew(h) PROVE PairsOK'
  BY <1>10, IdFacts DEF SessionNew, Accepts, IsControlRoom
<1>11. ASSUME NEW h \in Handlers, SessionArchive(h) PROVE PairsOK'
  BY <1>11, IdFacts DEF SessionArchive, Accepts, IsControlRoom
<1>12. ASSUME NEW h \in Handlers, HandlerCreates(h) PROVE PairsOK'
  BY <1>12, CreatesFacts, IdFacts DEF CreateRoom, FreshRoom
<1>13. ASSUME NEW h \in Handlers, HandlerLinks(h) PROVE PairsOK'
  BY <1>13, IdFacts DEF HandlerLinks, SetChild, SetParent, Refused
<1>14. ASSUME NEW h \in Handlers, HandlerArchives(h) PROVE PairsOK'
  BY <1>14, IdFacts DEF HandlerArchives, DropChild, Removed, Refused
<1>15. ASSUME NEW h \in Handlers, HandlerFails(h) PROVE PairsOK'
  BY <1>15, IdFacts DEF HandlerFails, CreateRoom, FreshRoom, CallFails, SetChild,
       SetParent, DropChild, Removed, Refused, Mishap
<1> QED BY <1>1, <1>2, <1>3, <1>4, <1>5, <1>6, <1>7, <1>8, <1>9, <1>10, <1>11, <1>12,
     <1>13, <1>14, <1>15 DEF Next, Ensure, Handle

LEMMA CommandsStep ==
    ASSUME TypeOK, KindsKept, CommandInv, Next
    PROVE  CommandsOK'
<1> USE DEF CommandsOK, KindsKept, CommandInv, TypeOK, Pairs, OfKind, Idle, Steps,
     server, history, counters
<1>1. CASE Start \/ StartBlocked
  BY <1>1, IdFacts DEF Start, Mishap, StartBlocked
<1>2. CASE ReuseSpace \/ ReuseControl \/ SaveRooms
  BY <1>2, IdFacts DEF ReuseSpace, ReuseControl, SaveRooms
<1>3. CASE CreateSpace
  BY <1>3, IdFacts DEF CreateSpace, CreateRoom, FreshRoom
<1>4. CASE CreateControl
  BY <1>4, IdFacts DEF CreateControl, CreateRoom, FreshRoom
<1>5. CASE LinkControl
  BY <1>5, IdFacts DEF LinkControl, SetChild, SetParent, Refused
<1>6. CASE EnsureFails
  BY <1>6, IdFacts DEF EnsureFails, CreateRoom, FreshRoom, CallFails, SetChild,
       SetParent, Refused, Mishap
<1>7. CASE Crash
  BY <1>7, IdFacts DEF Crash, Mishap, Quiet
<1>8. CASE BotRemoved
  BY <1>8, IdFacts DEF BotRemoved, Mishap
<1>9. CASE SyncShows
  BY <1>9, IdFacts DEF SyncShows
<1>10. ASSUME NEW h \in Handlers, SessionNew(h) PROVE CommandsOK'
  BY <1>10, IdFacts DEF SessionNew, Accepts, IsControlRoom
<1>11. ASSUME NEW h \in Handlers, SessionArchive(h) PROVE CommandsOK'
  BY <1>11, IdFacts DEF SessionArchive, Accepts, IsControlRoom
<1>12. ASSUME NEW h \in Handlers, HandlerCreates(h) PROVE CommandsOK'
  BY <1>12, CreatesFacts, IdFacts DEF CreateRoom, FreshRoom
<1>13. ASSUME NEW h \in Handlers, HandlerLinks(h) PROVE CommandsOK'
  BY <1>13, IdFacts DEF HandlerLinks, SetChild, SetParent, Refused
<1>14. ASSUME NEW h \in Handlers, HandlerArchives(h) PROVE CommandsOK'
  BY <1>14, IdFacts DEF HandlerArchives, DropChild, Removed, Refused
<1>15. ASSUME NEW h \in Handlers, HandlerFails(h) PROVE CommandsOK'
  BY <1>15, IdFacts DEF HandlerFails, CreateRoom, FreshRoom, CallFails, SetChild,
       SetParent, DropChild, Removed, Refused, Mishap
<1> QED BY <1>1, <1>2, <1>3, <1>4, <1>5, <1>6, <1>7, <1>8, <1>9, <1>10, <1>11, <1>12,
     <1>13, <1>14, <1>15 DEF Next, Ensure, Handle

LEMMA StepInvStep ==
    ASSUME TypeOK, KindsKept, StepInv, Next
    PROVE  StepInv'
<1> USE DEF StepInv, KindsKept, TypeOK, Pairs, OfKind, IsJoined, server, history,
     counters
<1>1. CASE Start \/ StartBlocked
  BY <1>1, IdFacts DEF Start, Mishap, StartBlocked
<1>2. CASE ReuseSpace \/ ReuseControl \/ SaveRooms
  BY <1>2, IdFacts DEF ReuseSpace, ReuseControl, SaveRooms
<1>3. CASE CreateSpace
  BY <1>3, IdFacts DEF CreateSpace, CreateRoom, FreshRoom
<1>4. CASE CreateControl
  BY <1>4, IdFacts DEF CreateControl, CreateRoom, FreshRoom
<1>5. CASE LinkControl
  BY <1>5, IdFacts DEF LinkControl, SetChild, SetParent, Refused
<1>6. CASE EnsureFails
  BY <1>6, IdFacts DEF EnsureFails, CreateRoom, FreshRoom, CallFails, SetChild,
       SetParent, Refused, Mishap
<1>7. CASE Crash
  BY <1>7, IdFacts DEF Crash, Mishap, Quiet
<1>8. CASE BotRemoved
  BY <1>8, IdFacts DEF BotRemoved, Mishap
<1>9. CASE SyncShows
  BY <1>9, IdFacts DEF SyncShows
<1>10. ASSUME NEW h \in Handlers, SessionNew(h) PROVE StepInv'
  BY <1>10, IdFacts DEF SessionNew, Accepts, IsControlRoom
<1>11. ASSUME NEW h \in Handlers, SessionArchive(h) PROVE StepInv'
  BY <1>11, IdFacts DEF SessionArchive, Accepts, IsControlRoom
<1>12. ASSUME NEW h \in Handlers, HandlerCreates(h) PROVE StepInv'
  BY <1>12, CreatesFacts, IdFacts DEF CreateRoom, FreshRoom
<1>13. ASSUME NEW h \in Handlers, HandlerLinks(h) PROVE StepInv'
  BY <1>13, IdFacts DEF HandlerLinks, SetChild, SetParent, Refused
<1>14. ASSUME NEW h \in Handlers, HandlerArchives(h) PROVE StepInv'
  BY <1>14, IdFacts DEF HandlerArchives, DropChild, Removed, Refused
<1>15. ASSUME NEW h \in Handlers, HandlerFails(h) PROVE StepInv'
  BY <1>15, IdFacts DEF HandlerFails, CreateRoom, FreshRoom, CallFails, SetChild,
       SetParent, DropChild, Removed, Refused, Mishap
<1> QED BY <1>1, <1>2, <1>3, <1>4, <1>5, <1>6, <1>7, <1>8, <1>9, <1>10, <1>11, <1>12,
     <1>13, <1>14, <1>15 DEF Next, Ensure, Handle

LEMMA CommandStep ==
    ASSUME TypeOK, KindsKept, CommandInv, Next
    PROVE  CommandInv'
<1> USE DEF CommandInv, KindsKept, TypeOK, Pairs, OfKind, Idle, Steps, server, history,
     counters
<1>1. CASE Start \/ StartBlocked
  BY <1>1, IdFacts DEF Start, Mishap, StartBlocked
<1>2. CASE ReuseSpace \/ ReuseControl \/ SaveRooms
  BY <1>2, IdFacts DEF ReuseSpace, ReuseControl, SaveRooms
<1>3. CASE CreateSpace
  BY <1>3, IdFacts DEF CreateSpace, CreateRoom, FreshRoom
<1>4. CASE CreateControl
  BY <1>4, IdFacts DEF CreateControl, CreateRoom, FreshRoom
<1>5. CASE LinkControl
  BY <1>5, IdFacts DEF LinkControl, SetChild, SetParent, Refused
<1>6. CASE EnsureFails
  BY <1>6, IdFacts DEF EnsureFails, CreateRoom, FreshRoom, CallFails, SetChild,
       SetParent, Refused, Mishap
<1>7. CASE Crash
  BY <1>7, IdFacts DEF Crash, Mishap, Quiet
<1>8. CASE BotRemoved
  BY <1>8, IdFacts DEF BotRemoved, Mishap
<1>9. CASE SyncShows
  BY <1>9, IdFacts DEF SyncShows
<1>10. ASSUME NEW h \in Handlers, SessionNew(h) PROVE CommandInv'
  BY <1>10, IdFacts DEF SessionNew, Accepts, IsControlRoom
<1>11. ASSUME NEW h \in Handlers, SessionArchive(h) PROVE CommandInv'
  BY <1>11, IdFacts DEF SessionArchive, Accepts, IsControlRoom
<1>12. ASSUME NEW h \in Handlers, HandlerCreates(h) PROVE CommandInv'
  BY <1>12, CreatesFacts, IdFacts DEF CreateRoom, FreshRoom
<1>13. ASSUME NEW h \in Handlers, HandlerLinks(h) PROVE CommandInv'
  BY <1>13, IdFacts DEF HandlerLinks, SetChild, SetParent, Refused
<1>14. ASSUME NEW h \in Handlers, HandlerArchives(h) PROVE CommandInv'
  BY <1>14, IdFacts DEF HandlerArchives, DropChild, Removed, Refused
<1>15. ASSUME NEW h \in Handlers, HandlerFails(h) PROVE CommandInv'
  BY <1>15, IdFacts DEF HandlerFails, CreateRoom, FreshRoom, CallFails, SetChild,
       SetParent, DropChild, Removed, Refused, Mishap
<1> QED BY <1>1, <1>2, <1>3, <1>4, <1>5, <1>6, <1>7, <1>8, <1>9, <1>10, <1>11, <1>12,
     <1>13, <1>14, <1>15 DEF Next, Ensure, Handle

LEMMA ListStep ==
    ASSUME TypeOK, KindsKept, StepInv, CommandInv, ListInv, Next
    PROVE  ListInv'
<1> USE DEF ListInv, KindsKept, StepInv, CommandInv, TypeOK, OfKind, server, history,
     counters
<1>1. CASE Start \/ StartBlocked
  BY <1>1, IdFacts DEF Start, Mishap, StartBlocked
<1>2. CASE ReuseSpace \/ ReuseControl \/ SaveRooms
  BY <1>2, IdFacts DEF ReuseSpace, ReuseControl, SaveRooms
<1>3. CASE CreateSpace
  BY <1>3, IdFacts DEF CreateSpace, CreateRoom, FreshRoom
<1>4. CASE CreateControl
  BY <1>4, IdFacts DEF CreateControl, CreateRoom, FreshRoom
<1>5. CASE LinkControl
  BY <1>5, IdFacts DEF LinkControl, SetChild, SetParent, Refused
<1>6. CASE EnsureFails
  BY <1>6, IdFacts DEF EnsureFails, CreateRoom, FreshRoom, CallFails, SetChild,
       SetParent, Refused, Mishap
<1>7. CASE Crash
  BY <1>7, IdFacts DEF Crash, Mishap, Quiet
<1>8. CASE BotRemoved
  BY <1>8, IdFacts DEF BotRemoved, Mishap
<1>9. CASE SyncShows
  BY <1>9, IdFacts DEF SyncShows
<1>10. ASSUME NEW h \in Handlers, SessionNew(h) PROVE ListInv'
  BY <1>10, IdFacts DEF SessionNew, Accepts, IsControlRoom
<1>11. ASSUME NEW h \in Handlers, SessionArchive(h) PROVE ListInv'
  BY <1>11, IdFacts DEF SessionArchive, Accepts, IsControlRoom
<1>12. ASSUME NEW h \in Handlers, HandlerCreates(h) PROVE ListInv'
  BY <1>12, CreatesFacts, IdFacts DEF CreateRoom, FreshRoom
<1>13. ASSUME NEW h \in Handlers, HandlerLinks(h) PROVE ListInv'
  BY <1>13, IdFacts DEF HandlerLinks, SetChild, SetParent, Refused
<1>14. ASSUME NEW h \in Handlers, HandlerArchives(h) PROVE ListInv'
  BY <1>14, IdFacts DEF HandlerArchives, DropChild, Removed, Refused
<1>15. ASSUME NEW h \in Handlers, HandlerFails(h) PROVE ListInv'
  BY <1>15, IdFacts DEF HandlerFails, CreateRoom, FreshRoom, CallFails, SetChild,
       SetParent, DropChild, Removed, Refused, Mishap
<1> QED BY <1>1, <1>2, <1>3, <1>4, <1>5, <1>6, <1>7, <1>8, <1>9, <1>10, <1>11, <1>12,
     <1>13, <1>14, <1>15 DEF Next, Ensure, Handle

\* A step lists a room that no space lists, or lists none.
LEMMA SoleStep ==
    ASSUME TypeOK, CommandInv, PairInv, SessionInv, StepInv, SoleInv, Next
    PROVE  SoleInv'
<1>1. ASSUME child' \subseteq child PROVE SoleInv'
  BY <1>1 DEF SoleInv
<1>2. ASSUME NEW t \in Ids, NEW q \in Ids, child' = child \cup {<<t, q>>},
             \A s \in Ids : <<s, q>> \notin child
      PROVE  SoleInv'
  BY <1>2 DEF SoleInv
<1>3. CASE ~(child' \subseteq child)
  <2>1. \/ LinkControl \/ EnsureFails
        \/ \E h \in Handlers : HandlerLinks(h) \/ HandlerFails(h)
    BY <1>3 DEF Next, Ensure, Handle, Start, StartBlocked, ReuseSpace, CreateSpace,
       ReuseControl, CreateControl, CreateRoom, SaveRooms, Crash, BotRemoved, SyncShows,
       SessionNew, SessionArchive, HandlerCreates, HandlerArchives, DropChild, server
  <2>2. CASE LinkControl \/ EnsureFails
    <3>1. /\ pc = "child" /\ child' = child \cup {<<cur.space, cur.control>>}
          /\ \A s \in Ids : <<s, cur.control>> \notin child
      BY <1>3, <2>2 DEF LinkControl, EnsureFails, CallFails, SetChild, SetParent,
         CreateRoom, server, PairInv
    <3>2. cur.space \in Ids /\ cur.control \in Ids
      BY <3>1 DEF StepInv, OfKind
    <3> QED BY <1>2, <3>1, <3>2
  <2>3. ASSUME NEW h \in Handlers, HandlerLinks(h) \/ HandlerFails(h) PROVE SoleInv'
    <3>1. /\ cmd[h].op = "child" /\ child' = child \cup {<<cmd[h].space, cmd[h].room>>}
      BY <1>3, <2>3 DEF HandlerLinks, HandlerFails, CallFails, SetChild, SetParent,
         DropChild, CreateRoom, server
    <3>2. cmd[h].space \in Ids /\ cmd[h].room \in Ids
      BY <3>1 DEF CommandInv, OfKind
    <3>3. \A s \in Ids : <<s, cmd[h].room>> \notin child
      BY <3>1 DEF SessionInv
    <3> QED BY <1>2, <3>1, <3>2, <3>3
  <2> QED BY <2>1, <2>2, <2>3
<1> QED BY <1>1, <1>3

LEMMA PairStep ==
    ASSUME TypeOK, KindsKept, StepInv, CommandInv, ListInv, PairInv, SavedPairLinked, Next
    PROVE  PairInv' /\ SavedPairLinked'
<1> USE DEF PairInv, SavedPairLinked, Linked, KindsKept, StepInv, CommandInv, TypeOK,
     Pairs, NoRooms, OfKind, IsJoined, server, history, counters
<1>1. CASE Start \/ StartBlocked
  BY <1>1, IdFacts DEF Start, Mishap, StartBlocked
<1>2. CASE ReuseSpace \/ ReuseControl \/ SaveRooms
  BY <1>2, IdFacts DEF ReuseSpace, ReuseControl, SaveRooms
<1>3. CASE CreateSpace
  BY <1>3, IdFacts DEF CreateSpace, CreateRoom, FreshRoom
<1>4. CASE CreateControl
  BY <1>4, IdFacts DEF CreateControl, CreateRoom, FreshRoom, ListInv
<1>5. CASE LinkControl
  BY <1>5, IdFacts DEF LinkControl, SetChild, SetParent, Refused
<1>6. CASE EnsureFails
  BY <1>6, IdFacts DEF EnsureFails, CreateRoom, FreshRoom, CallFails, SetChild,
       SetParent, Refused, Mishap
<1>7. CASE Crash
  BY <1>7, IdFacts DEF Crash, Mishap, Quiet
<1>8. CASE BotRemoved
  BY <1>8, IdFacts DEF BotRemoved, Mishap
<1>9. CASE SyncShows
  BY <1>9, IdFacts DEF SyncShows
<1>10. ASSUME NEW h \in Handlers, SessionNew(h) PROVE PairInv' /\ SavedPairLinked'
  BY <1>10, IdFacts DEF SessionNew, Accepts, IsControlRoom
<1>11. ASSUME NEW h \in Handlers, SessionArchive(h) PROVE PairInv' /\ SavedPairLinked'
  BY <1>11, IdFacts DEF SessionArchive, Accepts, IsControlRoom
<1>12. ASSUME NEW h \in Handlers, HandlerCreates(h) PROVE PairInv' /\ SavedPairLinked'
  BY <1>12, CreatesFacts, IdFacts DEF CreateRoom, FreshRoom
<1>13. ASSUME NEW h \in Handlers, HandlerLinks(h) PROVE PairInv' /\ SavedPairLinked'
  BY <1>13, IdFacts DEF HandlerLinks, SetChild, SetParent, Refused
<1>14. ASSUME NEW h \in Handlers, HandlerArchives(h) PROVE PairInv' /\ SavedPairLinked'
  BY <1>14, IdFacts DEF HandlerArchives, DropChild, Removed, Refused
<1>15. ASSUME NEW h \in Handlers, HandlerFails(h) PROVE PairInv' /\ SavedPairLinked'
  BY <1>15, IdFacts DEF HandlerFails, CreateRoom, FreshRoom, CallFails, SetChild,
       SetParent, DropChild, Removed, Refused, Mishap
<1> QED BY <1>1, <1>2, <1>3, <1>4, <1>5, <1>6, <1>7, <1>8, <1>9, <1>10, <1>11, <1>12,
     <1>13, <1>14, <1>15 DEF Next, Ensure, Handle

-----------------------------------------------------------------------------
(* What the commands were answered *)

LEMMA SessionStep ==
    ASSUME TypeOK, KindsKept, StepInv, CommandInv, ListInv, SessionInv, Next
    PROVE  SessionInv'
<1> USE DEF SessionInv, KindsKept, StepInv, CommandInv, ListInv, TypeOK, Pairs, OfKind,
     Idle, Steps, IsJoined, server, history, counters
<1>1. CASE Start \/ StartBlocked
  BY <1>1, IdFacts DEF Start, Mishap, StartBlocked
<1>2. CASE ReuseSpace \/ ReuseControl \/ SaveRooms
  BY <1>2, IdFacts DEF ReuseSpace, ReuseControl, SaveRooms
<1>3. CASE CreateSpace
  BY <1>3, IdFacts DEF CreateSpace, CreateRoom, FreshRoom
<1>4. CASE CreateControl
  BY <1>4, IdFacts DEF CreateControl, CreateRoom, FreshRoom
<1>5. CASE LinkControl
  BY <1>5, IdFacts DEF LinkControl, SetChild, SetParent, Refused
<1>6. CASE EnsureFails
  BY <1>6, IdFacts DEF EnsureFails, CreateRoom, FreshRoom, CallFails, SetChild,
       SetParent, Refused, Mishap
<1>7. CASE Crash
  BY <1>7, IdFacts DEF Crash, Mishap, Quiet
<1>8. CASE BotRemoved
  BY <1>8, IdFacts DEF BotRemoved, Mishap
<1>9. CASE SyncShows
  BY <1>9, IdFacts DEF SyncShows
<1>10. ASSUME NEW h \in Handlers, SessionNew(h) PROVE SessionInv'
  BY <1>10, IdFacts DEF SessionNew, Accepts, IsControlRoom
<1>11. ASSUME NEW h \in Handlers, SessionArchive(h) PROVE SessionInv'
  BY <1>11, IdFacts DEF SessionArchive, Accepts, IsControlRoom
<1>12. ASSUME NEW h \in Handlers, HandlerCreates(h) PROVE SessionInv'
  <2>1. PICK r \in Ids :
            /\ kind[r] = "none"
            /\ cmd' = [cmd EXCEPT ![h] = [op |-> "child", space |-> cmd[h].space, room |-> r]]
    BY <1>12, CreatesFacts DEF CreateRoom, FreshRoom
  <2>2. child' = child /\ archived' = archived
    BY <1>12 DEF HandlerCreates, CreateRoom
  <2>3. r \notin archived /\ \A s \in Ids : <<s, r>> \notin child
    BY <2>1
  <2>4. \A g \in Handlers : cmd[g].op \in {"child", "parent"} => cmd[g].room # r
    BY <2>1
  <2>5. cmd'[h].op = "child" /\ cmd'[h].room = r /\ \A g \in Handlers \ {h} : cmd'[g] = cmd[g]
    BY <2>1
  <2> HIDE DEF TypeOK, CommandInv, ListInv, KindsKept, StepInv
  <2> QED BY <2>2, <2>3, <2>4, <2>5
<1>13. ASSUME NEW h \in Handlers, HandlerLinks(h) PROVE SessionInv'
  BY <1>13, IdFacts DEF HandlerLinks, SetChild, SetParent, Refused
<1>14. ASSUME NEW h \in Handlers, HandlerArchives(h) PROVE SessionInv'
  BY <1>14, IdFacts DEF HandlerArchives, DropChild, Removed, Refused
<1>15. ASSUME NEW h \in Handlers, HandlerFails(h) PROVE SessionInv'
  BY <1>15, IdFacts DEF HandlerFails, CreateRoom, FreshRoom, CallFails, SetChild,
       SetParent, DropChild, Removed, Refused, Mishap
<1> QED BY <1>1, <1>2, <1>3, <1>4, <1>5, <1>6, <1>7, <1>8, <1>9, <1>10, <1>11, <1>12,
     <1>13, <1>14, <1>15 DEF Next, Ensure, Handle

\* The two halves of AnswersKept.
AckedListed ==
    \A r \in acked \ archived :
        \E s \in OfKind("space") : <<s, r>> \in child /\ <<r, s>> \in parent
Unlisted == \A r \in archived, s \in Ids : <<s, r>> \notin child

LEMMA AckedStep ==
    ASSUME TypeOK, KindsKept, StepInv, CommandInv, ListInv, SessionInv, AckedListed, Next
    PROVE  AckedListed'
<1> USE DEF AckedListed, SessionInv, KindsKept, StepInv, CommandInv, ListInv, TypeOK,
     Pairs, OfKind, Idle, Steps, IsJoined, server, history, counters
<1>1. CASE Start \/ StartBlocked
  BY <1>1, IdFacts DEF Start, Mishap, StartBlocked
<1>2. CASE ReuseSpace \/ ReuseControl \/ SaveRooms
  BY <1>2, IdFacts DEF ReuseSpace, ReuseControl, SaveRooms
<1>3. CASE CreateSpace
  BY <1>3, IdFacts DEF CreateSpace, CreateRoom, FreshRoom
<1>4. CASE CreateControl
  BY <1>4, IdFacts DEF CreateControl, CreateRoom, FreshRoom
<1>5. CASE LinkControl
  BY <1>5, IdFacts DEF LinkControl, SetChild, SetParent, Refused
<1>6. CASE EnsureFails
  BY <1>6, IdFacts DEF EnsureFails, CreateRoom, FreshRoom, CallFails, SetChild,
       SetParent, Refused, Mishap
<1>7. CASE Crash
  BY <1>7, IdFacts DEF Crash, Mishap, Quiet
<1>8. CASE BotRemoved
  BY <1>8, IdFacts DEF BotRemoved, Mishap
<1>9. CASE SyncShows
  BY <1>9, IdFacts DEF SyncShows
<1>10. ASSUME NEW h \in Handlers, SessionNew(h) PROVE AckedListed'
  BY <1>10, IdFacts DEF SessionNew, Accepts, IsControlRoom
<1>11. ASSUME NEW h \in Handlers, SessionArchive(h) PROVE AckedListed'
  BY <1>11, IdFacts DEF SessionArchive, Accepts, IsControlRoom
<1>12. ASSUME NEW h \in Handlers, HandlerCreates(h) PROVE AckedListed'
  BY <1>12, CreatesFacts, IdFacts DEF CreateRoom, FreshRoom
<1>13. ASSUME NEW h \in Handlers, HandlerLinks(h) PROVE AckedListed'
  <2>1. /\ child \subseteq child' /\ parent \subseteq parent' /\ archived' = archived
        /\ OfKind("space")' = OfKind("space")
    BY <1>13 DEF HandlerLinks, SetChild, SetParent
  <2>2. ASSUME NEW r \in acked \ archived
        PROVE  \E s \in OfKind("space")' : <<s, r>> \in child' /\ <<r, s>> \in parent'
    <3> HIDE DEF OfKind
    <3> QED BY <2>1, <2>2
  <2>3. ASSUME NEW r, r \in acked', r \notin acked, r \notin archived
        PROVE  \E s \in OfKind("space")' : <<s, r>> \in child' /\ <<r, s>> \in parent'
    <3>1. r = cmd[h].room /\ cmd[h].op = "parent" /\ <<r, cmd[h].space>> \in parent'
      BY <1>13, <2>3 DEF HandlerLinks, SetParent
    <3>2. cmd[h].space \in OfKind("space")' /\ <<cmd[h].space, r>> \in child'
      BY <2>1, <2>3, <3>1
    <3> QED BY <3>1, <3>2
  <2> QED BY <2>1, <2>2, <2>3
<1>14. ASSUME NEW h \in Handlers, HandlerArchives(h) PROVE AckedListed'
  BY <1>14, IdFacts DEF HandlerArchives, DropChild, Removed, Refused
<1>15. ASSUME NEW h \in Handlers, HandlerFails(h) PROVE AckedListed'
  BY <1>15, IdFacts DEF HandlerFails, CreateRoom, FreshRoom, CallFails, SetChild,
       SetParent, DropChild, Removed, Refused, Mishap
<1> QED BY <1>1, <1>2, <1>3, <1>4, <1>5, <1>6, <1>7, <1>8, <1>9, <1>10, <1>11, <1>12,
     <1>13, <1>14, <1>15 DEF Next, Ensure, Handle

LEMMA DroppedUnlisted ==
    ASSUME TypeOK, SoleInv, Unlisted, NEW t \in Ids, NEW q \in Ids,
           child' = child \ {<<t, q>>}, archived' = archived \cup Removed(t, q)
    PROVE  Unlisted'
<1>1. SUFFICES ASSUME NEW r \in archived', NEW s \in Ids, <<s, r>> \in child
               PROVE  <<s, r>> = <<t, q>>
  BY DEF Unlisted
<1>2. r = q /\ <<t, q>> \in child
  BY <1>1 DEF Unlisted, Removed
<1>3. s = t
  BY <1>1, <1>2 DEF SoleInv
<1> QED BY <1>2, <1>3

LEMMA UnlistedStep ==
    ASSUME TypeOK, KindsKept, StepInv, CommandInv, ListInv, SoleInv, PairInv, SessionInv, Unlisted, Next
    PROVE  Unlisted'
<1> USE DEF Unlisted, SessionInv, KindsKept, StepInv, CommandInv, ListInv,
     TypeOK, Pairs, OfKind, Idle, Steps, IsJoined, server, history, counters
<1>1. CASE Start \/ StartBlocked
  BY <1>1, IdFacts DEF Start, Mishap, StartBlocked
<1>2. CASE ReuseSpace \/ ReuseControl \/ SaveRooms
  BY <1>2, IdFacts DEF ReuseSpace, ReuseControl, SaveRooms
<1>3. CASE CreateSpace
  BY <1>3, IdFacts DEF CreateSpace, CreateRoom, FreshRoom
<1>4. CASE CreateControl
  BY <1>4, IdFacts DEF CreateControl, CreateRoom, FreshRoom
<1>5. CASE LinkControl \/ EnsureFails
  <2>1. archived' = archived
    BY <1>5 DEF LinkControl, EnsureFails
  <2>2. CASE child' = child
    BY <2>1, <2>2
  <2>3. CASE child' # child
    <3>1. pc = "child" /\ child' = child \cup {<<cur.space, cur.control>>}
      BY <1>5, <2>3 DEF LinkControl, EnsureFails, CallFails, SetChild, SetParent, CreateRoom
    <3>2. cur.control \notin archived
      BY <3>1 DEF PairInv
    <3> QED BY <2>1, <3>1, <3>2
  <2> QED BY <2>2, <2>3
<1>6. CASE Crash
  BY <1>6, IdFacts DEF Crash, Mishap, Quiet
<1>7. CASE BotRemoved
  BY <1>7, IdFacts DEF BotRemoved, Mishap
<1>8. CASE SyncShows
  BY <1>8, IdFacts DEF SyncShows
<1>9. ASSUME NEW h \in Handlers, SessionNew(h) PROVE Unlisted'
  BY <1>9, IdFacts DEF SessionNew, Accepts, IsControlRoom
<1>10. ASSUME NEW h \in Handlers, SessionArchive(h) PROVE Unlisted'
  BY <1>10, IdFacts DEF SessionArchive, Accepts, IsControlRoom
<1>11. ASSUME NEW h \in Handlers, HandlerCreates(h) PROVE Unlisted'
  BY <1>11, CreatesFacts, IdFacts DEF CreateRoom, FreshRoom
<1>12. ASSUME NEW h \in Handlers, HandlerLinks(h) PROVE Unlisted'
  <2>1. archived' = archived
    BY <1>12 DEF HandlerLinks
  <2>2. CASE cmd[h].op = "child"
    <3>1. child' = child \cup {<<cmd[h].space, cmd[h].room>>} /\ cmd[h].room \notin archived
      BY <1>12, <2>2 DEF HandlerLinks, SetChild
    <3> QED BY <2>1, <3>1
  <2>3. CASE cmd[h].op # "child"
    <3>1. child' = child
      BY <1>12, <2>3 DEF HandlerLinks, SetParent
    <3> QED BY <2>1, <3>1
  <2> QED BY <2>2, <2>3
<1>13. ASSUME NEW h \in Handlers, HandlerArchives(h) PROVE Unlisted'
  <2>1. /\ cmd[h].space \in Ids /\ cmd[h].room \in Ids
        /\ child' = child \ {<<cmd[h].space, cmd[h].room>>}
        /\ archived' = archived \cup Removed(cmd[h].space, cmd[h].room)
    BY <1>13 DEF HandlerArchives, DropChild
  <2> QED BY <2>1, DroppedUnlisted
<1>14. ASSUME NEW h \in Handlers, HandlerFails(h) PROVE Unlisted'
  <2>1. CASE child' \subseteq child
    <3>1. CASE archived' = archived
      BY <2>1, <3>1
    <3>2. CASE archived' # archived
      <4>1. /\ cmd[h].op = "archive"
            /\ archived' = archived \cup Removed(cmd[h].space, cmd[h].room)
            /\ child' # child
        BY <1>14, <3>2 DEF HandlerFails, CallFails, CreateRoom, SetChild, SetParent, Mishap,
           Removed
      <4>2. /\ cmd[h].space \in Ids /\ cmd[h].room \in Ids
            /\ child' = child \ {<<cmd[h].space, cmd[h].room>>}
        BY <1>14, <4>1 DEF HandlerFails, CallFails, DropChild
      <4> QED BY <4>1, <4>2, DroppedUnlisted
    <3> QED BY <3>1, <3>2
  <2>2. CASE ~(child' \subseteq child)
    <3>1. /\ cmd[h].op = "child" /\ cmd[h].room \notin archived
          /\ child' = child \cup {<<cmd[h].space, cmd[h].room>>}
      BY <1>14, <2>2 DEF HandlerFails, CallFails, CreateRoom, SetChild, SetParent, DropChild
    <3>2. archived' = archived
      BY <1>14, <3>1 DEF HandlerFails, Removed
    <3> QED BY <3>1, <3>2
  <2> QED BY <2>1, <2>2
<1> QED BY <1>1, <1>2, <1>3, <1>4, <1>5, <1>6, <1>7, <1>8, <1>9, <1>10, <1>11,
     <1>12, <1>13, <1>14 DEF Next, Ensure, Handle

LEMMA AnswersStep ==
    ASSUME TypeOK, KindsKept, StepInv, CommandInv, ListInv, SoleInv, PairInv, SessionInv, AnswersKept, Next
    PROVE  AnswersKept'
<1>1. AckedListed'
  BY AckedStep DEF AnswersKept, AckedListed
<1>2. Unlisted'
  BY UnlistedStep DEF AnswersKept, Unlisted
<1> QED BY <1>1, <1>2 DEF AnswersKept, AckedListed, Unlisted

-----------------------------------------------------------------------------
(* What the rooms cost *)

All(k) == Cardinality(Members(k))

\* What the counts are to each other, in every state.
Counts(k) ==
    TypeOK =>
    /\ IsFiniteSet(Members(k)) /\ IsFiniteSet(Members(k) \ {Kept(k)})
    /\ Extra(k) \in Nat /\ All(k) \in Nat /\ mishaps \in Nat
    /\ Extra(k) <= All(k) /\ All(k) <= Extra(k) + 1
    /\ Kept(k) \notin Members(k) => All(k) = Extra(k)
    /\ Hiding(k) \in {0, 1} /\ (Hiding(k) = 1 <=> Hidden(k))
    /\ Dooming(k) \in {0, 1} /\ (Dooming(k) = 1 <=> Doomed(k))
    /\ Paid(k) <=> Extra(k) + Hiding(k) + Dooming(k) <= mishaps

LEMMA CountFacts == \A k \in Owned : Counts(k)
<1> SUFFICES ASSUME NEW k \in Owned, TypeOK PROVE Counts(k)
  BY DEF Counts
<1>1. IsFiniteSet(Members(k))
  BY IdFacts, FS_Subset DEF Members, OfKind
<1>2. IsFiniteSet(Members(k) \ {Kept(k)})
  BY <1>1, FS_RemoveElement
<1>3. Extra(k) \in Nat /\ All(k) \in Nat
  BY <1>1, <1>2, FS_CardinalityType DEF Extra, All
<1>4. Extra(k) = IF Kept(k) \in Members(k) THEN All(k) - 1 ELSE All(k)
  BY <1>1, FS_RemoveElement DEF Extra, All
<1>5. mishaps \in Nat
  BY RoomsAssumption DEF TypeOK
<1>6. /\ Hiding(k) \in {0, 1} /\ (Hiding(k) = 1 <=> Hidden(k))
      /\ Dooming(k) \in {0, 1} /\ (Dooming(k) = 1 <=> Doomed(k))
  BY DEF Hiding, Dooming
<1> QED BY <1>1, <1>2, <1>3, <1>4, <1>5, <1>6 DEF Counts, Paid

LEMMA NextCountFacts == (\A k \in Owned : Counts(k))'
BY CountFacts, PTL

\* Nothing is added to the bill.
LEMMA SameBill ==
    ASSUME TypeOK, TypeOK', NEW k \in Owned, Paid(k),
           Members(k)' \subseteq Members(k), Kept(k)' = Kept(k),
           Hiding(k)' + Dooming(k)' + mishaps
               <= Hiding(k) + Dooming(k) + mishaps'
    PROVE  Paid(k)'
<1>0. Counts(k) /\ Counts(k)'
  BY CountFacts, NextCountFacts
<1>1. Members(k)' \ {Kept(k)'} \subseteq Members(k) \ {Kept(k)}
  OBVIOUS
<1>2. Extra(k)' <= Extra(k)
  BY <1>1, <1>0, FS_Subset DEF Counts, Extra
<1> QED BY <1>2, <1>0 DEF Counts

\* Neither is it by a step that hides and dooms nothing.
LEMMA CalmBill ==
    ASSUME TypeOK, TypeOK', NEW k \in Owned, Paid(k),
           Members(k)' \subseteq Members(k), Kept(k)' = Kept(k),
           Hidden(k)' => Hidden(k), Doomed(k)' => Doomed(k),
           mishaps' = mishaps \/ mishaps' = mishaps + 1
    PROVE  Paid(k)'
<1>0. Counts(k) /\ Counts(k)'
  BY CountFacts, NextCountFacts
<1>1. Hiding(k)' <= Hiding(k) /\ Dooming(k)' <= Dooming(k)
  BY <1>0 DEF Counts
<1>2. Hiding(k)' + Dooming(k)' + mishaps
          <= Hiding(k) + Dooming(k) + mishaps'
  BY <1>1, <1>0 DEF Counts
<1> QED BY <1>2, SameBill

\* A step that is paid for may hide the kept room or doom the pair.
LEMMA MishapBill ==
    ASSUME TypeOK, TypeOK', NEW k \in Owned, Paid(k),
           Members(k)' \subseteq Members(k), Kept(k)' = Kept(k),
           (Hidden(k)' => Hidden(k)) \/ ~Doomed(k)',
           mishaps' = mishaps + 1
    PROVE  Paid(k)'
<1>0. Counts(k) /\ Counts(k)'
  BY CountFacts, NextCountFacts
<1>1. Hiding(k)' + Dooming(k)' <= Hiding(k) + Dooming(k) + 1
  BY <1>0 DEF Counts
<1>2. Hiding(k)' + Dooming(k)' + mishaps
          <= Hiding(k) + Dooming(k) + mishaps'
  BY <1>1, <1>0 DEF Counts
<1> QED BY <1>2, SameBill

\* A room that replaces the kept one was paid for when that one was lost or
\* hidden.
LEMMA CreatedBill ==
    ASSUME TypeOK, TypeOK', NEW k \in Owned, Paid(k),
           Members(k)' = Members(k) \cup {Kept(k)'}, Kept(k)' \notin Members(k),
           Kept(k) \in Members(k) => Hidden(k),
           ~Hidden(k)', Doomed(k)' => Doomed(k), mishaps' = mishaps
    PROVE  Paid(k)'
<1>0. Counts(k) /\ Counts(k)'
  BY CountFacts, NextCountFacts
<1>1. Members(k)' \ {Kept(k)'} = Members(k)
  OBVIOUS
<1>2. Extra(k)' = All(k)
  BY <1>1 DEF Extra, All
<1>3. All(k) <= Extra(k) + Hiding(k)
  BY <1>0 DEF Counts
<1>4. Hiding(k)' = 0 /\ Dooming(k)' <= Dooming(k)
  BY <1>0 DEF Counts
<1> QED BY <1>2, <1>3, <1>4, <1>0 DEF Counts

\* ensurePluginRooms gives up its new room: paid for now, or before.
LEMMA GivenUpBill ==
    ASSUME TypeOK, TypeOK', NEW k \in Owned, Paid(k),
           Members(k)' \subseteq Members(k), ~Hidden(k)', ~Doomed(k)',
           \/ mishaps' = mishaps + 1
           \/ mishaps' = mishaps /\ (Kept(k) \notin Members(k) \/ Doomed(k))
    PROVE  Paid(k)'
<1>0. Counts(k) /\ Counts(k)'
  BY CountFacts, NextCountFacts
<1>1. All(k)' <= All(k)
  BY <1>0, FS_Subset DEF Counts, All
<1>2. Extra(k)' <= All(k)
  BY <1>1, <1>0 DEF Counts
<1>3. Hiding(k)' = 0 /\ Dooming(k)' = 0
  BY <1>0 DEF Counts
<1>4. Extra(k) + Hiding(k) + Dooming(k) <= mishaps
  BY <1>0 DEF Counts
<1>5. CASE mishaps' = mishaps + 1
  <2>1. Extra(k)' <= mishaps'
    BY <1>2, <1>4, <1>5, <1>0 DEF Counts
  <2> QED BY <2>1, <1>3, <1>0 DEF Counts
<1>6. CASE mishaps' = mishaps /\ (Kept(k) \notin Members(k) \/ Doomed(k))
  <2>1. Extra(k)' <= mishaps'
    BY <1>2, <1>4, <1>6, <1>0 DEF Counts
  <2> QED BY <2>1, <1>3, <1>0 DEF Counts
<1> QED BY <1>5, <1>6

\* A room is created and its answer lost.
LEMMA LostBill ==
    ASSUME TypeOK, TypeOK', NEW k \in Owned, Paid(k), NEW r,
           Members(k)' = Members(k) \cup {r}, Kept(k)' = Kept(k),
           ~Hidden(k)', ~Doomed(k)', mishaps' = mishaps + 1
    PROVE  Paid(k)'
<1>0. Counts(k) /\ Counts(k)'
  BY CountFacts, NextCountFacts
<1>1. Members(k)' \ {Kept(k)'} \subseteq (Members(k) \ {Kept(k)}) \cup {r}
  OBVIOUS
<1>2. /\ IsFiniteSet((Members(k) \ {Kept(k)}) \cup {r})
      /\ Cardinality((Members(k) \ {Kept(k)}) \cup {r})
             = IF r \in Members(k) \ {Kept(k)} THEN Extra(k) ELSE Extra(k) + 1
  BY <1>0, FS_AddElement DEF Counts, Extra
<1>3. Extra(k)' <= Cardinality((Members(k) \ {Kept(k)}) \cup {r})
  BY <1>1, <1>2, FS_Subset DEF Extra
<1>4. Extra(k)' <= Extra(k) + 1
  BY <1>2, <1>3, <1>0 DEF Counts
<1>5. Hiding(k)' = 0 /\ Dooming(k)' = 0
  BY <1>0 DEF Counts
<1> QED BY <1>4, <1>5, <1>0 DEF Counts

\* A step that pays for nothing and need not.
Calm(k) ==
    /\ Members(k)' \subseteq Members(k) /\ Kept(k)' = Kept(k)
    /\ Hidden(k)' => Hidden(k)
    /\ Doomed(k)' => Doomed(k)
    /\ mishaps' = mishaps \/ mishaps' = mishaps + 1

\* A stored room in the joined ones was so before another was created.
LEMMA StoredMember ==
    ASSUME TypeOK, NEW k \in Owned, NEW r \in Ids, kind[r] = "none",
           joined' = joined \cup {r}
    PROVE  stored[k] \in joined' => stored[k] \in joined
BY IdFacts DEF TypeOK, Pairs, OfKind, Owned

\* A session room is none of the pair.
LEMMA SessionNoMember ==
    ASSUME TypeOK, NEW k \in Owned, NEW r \in Ids, CreateRoom(r, "session")
    PROVE  Members(k)' \subseteq Members(k)
BY DEF CreateRoom, FreshRoom, Members, OfKind, TypeOK, Owned

\* What handlers do leaves the bill alone.
LEMMA QuietBill ==
    ASSUME TypeOK, TypeOK', NEW k \in Owned, Paid(k), Members(k)' \subseteq Members(k),
           UNCHANGED <<kind, joined>> \/ \E r \in Ids : CreateRoom(r, "session"),
           UNCHANGED <<stored, view, pc, cur>>,
           mishaps' = mishaps \/ mishaps' = mishaps + 1
    PROVE  Paid(k)'
<1>1. Kept(k)' = Kept(k)
  BY DEF Kept
<1>2. joined \subseteq joined'
  BY DEF CreateRoom
<1>3. Doomed(k)' => Doomed(k)
  BY <1>2 DEF Doomed
<1>4. stored[k] \in joined' => stored[k] \in joined
  <2>1. CASE UNCHANGED <<kind, joined>>
    BY <2>1
  <2>2. CASE \E r \in Ids : CreateRoom(r, "session")
    BY <2>2, StoredMember DEF CreateRoom, FreshRoom, OfKind
  <2> QED BY <2>1, <2>2
<1>5. Hidden(k)' => Hidden(k)
  BY <1>4 DEF Hidden
<1> QED BY <1>1, <1>3, <1>5, CalmBill

LEMMA BillStep ==
    ASSUME TypeOK, TypeOK', StepInv, NEW k \in Owned, Paid(k), Next
    PROVE  Paid(k)'
<1>1. CASE Start
  <2>1. /\ Members(k)' \subseteq Members(k) /\ Kept(k)' = Kept(k) /\ ~Doomed(k)'
        /\ pc = "down" /\ joined' = joined
        /\ stored' = stored /\ pc' = "space"
    BY <1>1 DEF Start, Mishap, Members, Kept, Hidden, Doomed, OfKind, Owned, server,
       history, counters
  <2>2. CASE mishaps' = mishaps + 1
    BY <2>1, <2>2, MishapBill
  <2>3. CASE mishaps' # mishaps + 1
    <3>1. view' = joined /\ mishaps' = mishaps
      BY <1>1, <2>3 DEF Start, Mishap
    <3>2. ~Hidden(k)'
      BY <2>1, <3>1 DEF Hidden
    <3> QED BY <2>1, <3>1, <3>2, CalmBill
  <2> QED BY <2>2, <2>3
<1>2. CASE StartBlocked
  <2>1. Calm(k)
    BY <1>2 DEF Calm, StartBlocked, Members, Kept, Hidden, Doomed, OfKind, Owned,
       server, history, counters
  <2> QED BY <2>1, CalmBill DEF Calm
<1>3. CASE ReuseSpace
  <2>1. Calm(k)
    BY <1>3 DEF Calm, ReuseSpace, IsJoined, TypeOK, Pairs, Members, Kept, Hidden,
       Doomed, OfKind, Owned, server, history, counters
  <2> QED BY <2>1, CalmBill DEF Calm
<1>4. CASE CreateSpace
  <2>1. PICK r \in Ids : CreateRoom(r, "space") /\ cur' = [cur EXCEPT !.space = r]
    BY <1>4 DEF CreateSpace
  <2>2. kind[r] = "none" /\ kind' = [kind EXCEPT ![r] = "space"] /\ joined' = joined \cup {r}
    BY <2>1 DEF CreateRoom, FreshRoom, OfKind
  <2>3. /\ pc = "space" /\ pc' = "control" /\ stored.space \notin view
        /\ UNCHANGED <<stored, view, mishaps>>
    BY <1>4 DEF CreateSpace, IsJoined, counters
  <2>4. cur'.space = r
    BY <2>1 DEF TypeOK, Pairs
  <2>5. CASE k = "space"
    <3>1. Members(k)' = Members(k) \cup {r} /\ r \notin Members(k)
      BY <2>2, <2>5 DEF Members, OfKind, TypeOK
    <3>2. Kept(k)' = r /\ Kept(k) = stored.space
      BY <2>3, <2>4, <2>5 DEF Kept
    <3>3. ~Hidden(k)' /\ ~Doomed(k)'
      BY <2>3, <2>5 DEF Hidden, Doomed
    <3>4. Kept(k) \in Members(k) => Hidden(k)
      BY <2>3, <2>5, <3>2 DEF Hidden, Members
    <3> QED BY <2>3, <3>1, <3>2, <3>3, <3>4, CreatedBill
  <2>6. CASE k = "control"
    <3>1. Members(k)' \subseteq Members(k)
      BY <2>2, <2>6 DEF Members, OfKind, TypeOK
    <3>2. Kept(k)' = Kept(k)
      BY <2>3, <2>6 DEF Kept
    <3>3. Hidden(k)' => Hidden(k)
      BY <2>2, <2>3, <2>6, <3>1, StoredMember DEF Hidden
    <3>4. ~Doomed(k)'
      BY <2>2, <2>3, <2>4, <2>6 DEF Doomed
    <3> QED BY <2>3, <3>1, <3>2, <3>3, <3>4, CalmBill
  <2> QED BY <2>5, <2>6 DEF Owned
<1>5. CASE ReuseControl
  <2>1. Calm(k)
    BY <1>5 DEF Calm, ReuseControl, IsJoined, TypeOK, Pairs, Members, Kept, Hidden,
       Doomed, OfKind, Owned, server, history, counters
  <2> QED BY <2>1, CalmBill DEF Calm
<1>6. CASE CreateControl
  <2>1. PICK r \in Ids : CreateRoom(r, "control") /\ cur' = [cur EXCEPT !.control = r]
    BY <1>6 DEF CreateControl
  <2>2. kind[r] = "none" /\ kind' = [kind EXCEPT ![r] = "control"] /\ joined' = joined \cup {r}
    BY <2>1 DEF CreateRoom, FreshRoom, OfKind
  <2>3. /\ pc = "control" /\ pc' = "child" /\ stored.control \notin view
        /\ UNCHANGED <<stored, view, mishaps>>
    BY <1>6 DEF CreateControl, IsJoined, counters
  <2>4. cur'.control = r /\ cur'.space = cur.space
    BY <2>1 DEF TypeOK, Pairs
  <2>5. CASE k = "control"
    <3>1. Members(k)' = Members(k) \cup {r} /\ r \notin Members(k)
      BY <2>2, <2>5 DEF Members, OfKind, TypeOK
    <3>2. Kept(k)' = r /\ Kept(k) = stored.control
      BY <2>3, <2>4, <2>5 DEF Kept
    <3>3. ~Hidden(k)' /\ (Doomed(k)' => Doomed(k))
      BY <2>2, <2>3, <2>4, <2>5 DEF Hidden, Doomed
    <3>4. Kept(k) \in Members(k) => Hidden(k)
      BY <2>3, <2>5, <3>2 DEF Hidden, Members
    <3> QED BY <2>3, <3>1, <3>2, <3>3, <3>4, CreatedBill
  <2>6. CASE k = "space"
    <3>1. Members(k)' \subseteq Members(k)
      BY <2>2, <2>6 DEF Members, OfKind, TypeOK
    <3>2. Kept(k)' = Kept(k) /\ ~Hidden(k)' /\ ~Doomed(k)'
      BY <2>2, <2>3, <2>4, <2>6 DEF Kept, Hidden, Doomed
    <3> QED BY <2>3, <3>1, <3>2, CalmBill
  <2> QED BY <2>5, <2>6 DEF Owned
<1>7. CASE LinkControl
  <2>1. Calm(k)
    BY <1>7 DEF Calm, LinkControl, SetChild, SetParent, Refused, Members, Kept, Hidden,
       Doomed, OfKind, Owned, server, history, counters
  <2> QED BY <2>1, CalmBill DEF Calm
<1>8. CASE SaveRooms
  <2>1. Calm(k)
    BY <1>8 DEF Calm, SaveRooms, Members, Kept, Hidden, Doomed, OfKind, Owned, server,
       history, counters
  <2> QED BY <2>1, CalmBill DEF Calm
<1>9. CASE EnsureFails
  <2>1. /\ pc' = "up" /\ ~Hidden(k)' /\ ~Doomed(k)' /\ stored' = stored
        /\ pc \in {"space", "control", "child", "parent"}
    BY <1>9 DEF EnsureFails, Hidden, Doomed
  <2>2. CASE UNCHANGED <<kind, joined>>
    <3>1. Members(k)' \subseteq Members(k)
      BY <2>2 DEF Members, OfKind
    <3>2. CASE mishaps' = mishaps + 1
      BY <2>1, <3>1, <3>2, GivenUpBill
    <3>3. CASE mishaps' # mishaps + 1
      <4>1. /\ mishaps' = mishaps
            /\ \/ pc = "child" /\ cur.space \notin joined
               \/ pc = "parent" /\ cur.control \notin joined
        BY <1>9, <3>3 DEF EnsureFails, CallFails, Refused, Mishap
      <4>2. Kept(k) \notin Members(k) \/ Doomed(k)
        BY <4>1 DEF Kept, Members, Doomed, Owned
      <4> QED BY <2>1, <3>1, <4>1, <4>2, GivenUpBill
    <3> QED BY <3>2, <3>3
  <2>3. CASE ~UNCHANGED <<kind, joined>>
    <3>1. /\ mishaps' = mishaps + 1
          /\ \/ pc = "space" /\ \E r \in Ids : CreateRoom(r, "space")
             \/ pc = "control" /\ \E r \in Ids : CreateRoom(r, "control")
      BY <1>9, <2>3 DEF EnsureFails, CallFails, SetChild, SetParent, Mishap, server
    <3>2. PICK r \in Ids :
              \/ pc = "space" /\ CreateRoom(r, "space")
              \/ pc = "control" /\ CreateRoom(r, "control")
      BY <3>1
    <3>3. \/ Members(k)' \subseteq Members(k)
          \/ pc = k /\ Members(k)' = Members(k) \cup {r}
      BY <3>2 DEF CreateRoom, FreshRoom, Members, OfKind, TypeOK, Owned
    <3>4. CASE Members(k)' \subseteq Members(k)
      BY <2>1, <3>1, <3>4, GivenUpBill
    <3>5. CASE pc = k /\ Members(k)' = Members(k) \cup {r}
      <4>1. Kept(k)' = Kept(k)
        BY <2>1, <3>5 DEF Kept, Owned
      <4> QED BY <2>1, <3>1, <3>5, <4>1, LostBill
    <3> QED BY <3>3, <3>4, <3>5
  <2> QED BY <2>2, <2>3
<1>10. CASE Crash
  <2>1. Members(k)' \subseteq Members(k) /\ pc' = "down" /\ ~Hidden(k)' /\ ~Doomed(k)'
    BY <1>10 DEF Crash, Members, OfKind, Hidden, Doomed, server
  <2>2. CASE Quiet
    <3>1. Kept(k)' = Kept(k) /\ mishaps' = mishaps
      BY <1>10, <2>2 DEF Crash, Quiet, Kept
    <3> QED BY <2>1, <3>1, CalmBill
  <2>3. CASE ~Quiet
    BY <1>10, <2>1, <2>3, GivenUpBill DEF Crash, Mishap
  <2> QED BY <2>2, <2>3
<1>11. CASE BotRemoved
  <2>1. /\ Members(k)' \subseteq Members(k) /\ Kept(k)' = Kept(k)
        /\ Hidden(k)' => Hidden(k)
        /\ mishaps' = mishaps + 1
    BY <1>11 DEF BotRemoved, Mishap, Members, Kept, Hidden, OfKind, Owned
  <2> QED BY <2>1, MishapBill
<1>12. CASE SyncShows
  <2>1. Calm(k)
    BY <1>12 DEF Calm, SyncShows, Members, Kept, Hidden, Doomed, OfKind, Owned, server,
       history, counters
  <2> QED BY <2>1, CalmBill DEF Calm
<1>13. ASSUME NEW h \in Handlers, SessionNew(h) \/ SessionArchive(h) PROVE Paid(k)'
  <2>1. Calm(k)
    BY <1>13 DEF Calm, SessionNew, Accepts, IsControlRoom, SessionArchive, Members,
       Kept, Hidden, Doomed, OfKind, Owned, server, history, counters
  <2> QED BY <2>1, CalmBill DEF Calm
<1>14. ASSUME NEW h \in Handlers, HandlerCreates(h) PROVE Paid(k)'
  <2>1. PICK r \in Ids : CreateRoom(r, "session")
    BY <1>14, CreatesFacts
  <2>2. Members(k)' \subseteq Members(k)
    BY <2>1, SessionNoMember
  <2>3. UNCHANGED <<stored, view, pc, cur, mishaps>>
    BY <1>14 DEF HandlerCreates, counters
  <2>4. joined \subseteq joined'
    BY <2>1 DEF CreateRoom
  <2> QED BY <2>1, <2>2, <2>3, <2>4, QuietBill
<1>15. ASSUME NEW h \in Handlers, HandlerLinks(h) \/ HandlerArchives(h) PROVE Paid(k)'
  <2>1. Calm(k)
    BY <1>15 DEF Calm, HandlerLinks, SetChild, SetParent, Refused, HandlerArchives,
       DropChild, Members, Kept, Hidden, Doomed, OfKind, Owned, server, history,
       counters
  <2> QED BY <2>1, CalmBill DEF Calm
<1>16. ASSUME NEW h \in Handlers, HandlerFails(h) PROVE Paid(k)'
  <2>1. /\ UNCHANGED <<stored, view, pc, cur>>
        /\ mishaps' = mishaps \/ mishaps' = mishaps + 1
    BY <1>16 DEF HandlerFails, CallFails, Mishap
  <2>2. UNCHANGED <<kind, joined>> \/ \E r \in Ids : CreateRoom(r, "session")
    BY <1>16 DEF HandlerFails, CallFails, SetChild, SetParent, DropChild, server
  <2>3. Members(k)' \subseteq Members(k) /\ joined \subseteq joined'
    BY <2>2, SessionNoMember DEF Members, OfKind, CreateRoom
  <2> QED BY <2>1, <2>2, <2>3, QuietBill
<1> QED BY <1>1, <1>2, <1>3, <1>4, <1>5, <1>6, <1>7, <1>8, <1>9, <1>10, <1>11, <1>12,
     <1>13, <1>14, <1>15, <1>16 DEF Next, Ensure, Handle


-----------------------------------------------------------------------------
(* The theorems *)

LEMMA InitIInv == Init => IInv
<1> SUFFICES ASSUME Init PROVE IInv
  OBVIOUS
<1> USE DEF Init, OfKind
<1>1. TypeOK
  <2>1. NoRooms \in Pairs
    BY DEF NoRooms, Pairs
  <2>2. cmd \in [Handlers -> [op : Steps, space : Ids \cup {None}, room : Ids \cup {None}]]
    BY DEF Idle, Steps
  <2>3. mishaps \in 0..MaxMishaps /\ restarts \in 0..MaxRestarts
    BY RoomsAssumption
  <2> QED BY <2>1, <2>2, <2>3 DEF TypeOK, Idle, Kinds
<1>2. StepInv /\ CommandInv /\ ListInv /\ SoleInv /\ PairInv /\ SavedPairLinked /\ SessionInv
  BY DEF StepInv, CommandInv, ListInv, SoleInv, PairInv, SavedPairLinked, SessionInv, Idle
<1>3. AnswersKept
  BY DEF AnswersKept
<1>4. BillInv
  <2> SUFFICES ASSUME NEW k \in Owned PROVE Paid(k)
    BY DEF BillInv
  <2>1. Members(k) \ {Kept(k)} = {} /\ ~Hidden(k) /\ ~Doomed(k)
    BY DEF Members, Hidden, Doomed
  <2>2. Extra(k) = 0
    BY <2>1, FS_EmptySet DEF Extra
  <2>3. Hiding(k) = 0 /\ Dooming(k) = 0 /\ mishaps = 0
    BY <2>1 DEF Hiding, Dooming
  <2> QED BY <2>2, <2>3 DEF Paid
<1> QED BY <1>1, <1>2, <1>3, <1>4 DEF IInv

LEMMA NextIInv == IInv /\ [Next]_vars => IInv'
<1> SUFFICES ASSUME IInv, [Next]_vars PROVE IInv'
  OBVIOUS
<1>1. CASE Next
  <2> USE <1>1 DEF IInv
  <2>1. KindsKept
    BY KindStep
  <2>2. SetsOK' /\ PairsOK' /\ CommandsOK'
    BY <2>1, SetsStep, PairsStep, CommandsStep
  <2>3. (mishaps \in 0..MaxMishaps /\ restarts \in 0..MaxRestarts)'
    BY CountersStep
  <2>4. TypeOK'
    BY <2>1, <2>2, <2>3 DEF TypeOK, KindsKept, SetsOK, PairsOK, CommandsOK
  <2>5. StepInv' /\ CommandInv' /\ ListInv' /\ SoleInv'
    BY <2>1, StepInvStep, CommandStep, ListStep, SoleStep
  <2>6. PairInv' /\ SavedPairLinked'
    BY <2>1, PairStep
  <2>7. SessionInv' /\ AnswersKept'
    BY <2>1, SessionStep, AnswersStep
  <2>8. BillInv'
    <3> SUFFICES ASSUME NEW k \in Owned PROVE Paid(k)'
      BY DEF BillInv
    <3>1. Paid(k)
      BY DEF BillInv
    <3> QED BY <2>4, <3>1, BillStep
  <2> QED BY <2>4, <2>5, <2>6, <2>7, <2>8
<1>2. CASE UNCHANGED vars
  <2> USE <1>2 DEF vars
  <2>1. TypeOK' /\ StepInv' /\ CommandInv' /\ ListInv' /\ SoleInv'
    BY DEF IInv, TypeOK, StepInv, CommandInv, ListInv, SoleInv, Pairs, OfKind
  <2>2. PairInv' /\ SavedPairLinked' /\ SessionInv' /\ AnswersKept'
    BY DEF IInv, PairInv, SavedPairLinked, Linked, SessionInv, AnswersKept, OfKind
  <2>3. BillInv'
    <3> SUFFICES ASSUME NEW k \in Owned PROVE Paid(k)'
      BY DEF BillInv
    <3>1. Paid(k)
      BY DEF IInv, BillInv
    <3>2. Calm(k)
      BY DEF Calm, Members, Kept, Hidden, Doomed, OfKind
    <3> QED BY <2>1, <3>1, <3>2, CalmBill DEF IInv, Calm
  <2> QED BY <2>1, <2>2, <2>3 DEF IInv
<1> QED BY <1>1, <1>2

LEMMA Inductive == Spec => []IInv
BY InitIInv, NextIInv, PTL DEF Spec

\* In every state, for any number of rooms, handlers and faults, the state has
\* its types: in particular the ids in rooms.json and in memory are a space and
\* a control room created as such, whatever calls failed.
THEOREM TypeCorrect == Spec => []TypeOK
<1>1. IInv => TypeOK
  BY DEF IInv
<1> QED BY <1>1, Inductive, PTL

\* saveRooms writes a pair linked both ways, or a control room kept under a
\* replaced space or archived by a device, and nothing else undoes the links,
\* whatever handlers, restarts and faults there are.
THEOREM PairLinked == Spec => []SavedPairLinked
<1>1. IInv => SavedPairLinked
  BY DEF IInv
<1> QED BY <1>1, Inductive, PTL

\* Whatever handlers run beside each other and whatever rooms they are told to
\* archive: a session answered ok is listed and names its space until it is
\* archived, and a room that was archived is never listed again.
THEOREM AnswersHold == Spec => []AnswersKept
<1>1. IInv => AnswersKept
  BY DEF IInv
<1> QED BY <1>1, Inductive, PTL

\* Restarts alone never spawn a second space or control room: for any number of
\* them, every room the bot has too many of is paid for by a fault of its own.
THEOREM RoomsPaidFor == Spec => []OneOfEachButForMishaps
<1>1. IInv => OneOfEachButForMishaps
  <2> SUFFICES ASSUME IInv, NEW k \in Owned
               PROVE  Cardinality(joined \cap OfKind(k)) <= 1 + mishaps
    BY DEF OneOfEachButForMishaps, Owned
  <2>1. Counts(k) /\ Paid(k) /\ TypeOK
    BY CountFacts DEF IInv, BillInv
  <2>2. All(k) <= 1 + mishaps
    BY <2>1 DEF Counts
  <2> QED BY <2>2 DEF All, Members
<1> QED BY <1>1, Inductive, PTL

=============================================================================
