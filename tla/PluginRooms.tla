---------------------------- MODULE PluginRooms ----------------------------
(***************************************************************************)
(* The rooms a plugin owns (src/src/matrix/space.ts): one space, under it  *)
(* one control room and the session rooms, and the session.* commands of   *)
(* src/src/channel.ts that create and archive sessions.                    *)
(*                                                                         *)
(* ensurePluginRooms runs once per process, after the initial sync, as a   *)
(* sequence of awaited calls with rooms.json written after the last one;   *)
(* command handlers run beside it and beside each other.  Names, titles,   *)
(* encryption and the "via" lists are left out.  The homeserver, the       *)
(* user's device and the sync that fills the client's room list are not in *)
(* src/: they are the actions marked external.                             *)
(***************************************************************************)
EXTENDS Naturals, FiniteSets

CONSTANTS
    MaxRooms,     \* bound: rooms ever created
    Handlers,     \* bound: command handlers that can be in flight
    Faults,       \* which faults occur, of FaultKinds
    MaxMishaps,   \* bound: faults that may cost a room
    MaxRestarts   \* bound: restarts of a process that had its rooms

FaultKinds == {"error", "lost", "crash", "view", "removed"}

ASSUME RoomsAssumption ==
    /\ MaxRooms \in Nat /\ MaxMishaps \in Nat /\ MaxRestarts \in Nat
    /\ Faults \subseteq FaultKinds

VARIABLES
    \* the homeserver (external)
    kind,      \* what each room was created as, "none" before
    joined,    \* rooms the bot is a member of
    child,     \* <<s, r>>: s holds a non-empty m.space.child for r
    parent,    \* <<r, s>>: r holds an m.space.parent for s
    \* the disk
    stored,    \* rooms.json
    \* the gateway process
    view,      \* rooms of the synced state, as joined
    pc,        \* where ensurePluginRooms is
    cur,       \* its spaceId and controlRoomId
    mem,       \* MatrixClientHandle.pluginRooms
    cmd,       \* the command handlers
    \* history: read by no guard
    acked,     \* rooms a session.new was answered ok with
    archived,  \* rooms a session.archive removed from its space
    orphaned,  \* stored control rooms kept although their space was replaced
    \* counters of the bounded events
    mishaps, restarts

server == <<kind, joined, child, parent>>
history == <<acked, archived, orphaned>>
counters == <<mishaps, restarts>>
vars == <<kind, joined, child, parent, stored, view, pc, cur, mem, cmd, acked,
          archived, orphaned, mishaps, restarts>>

Ids == 1..MaxRooms
None == 0
NoRooms == [space |-> None, control |-> None]
Kinds == {"none", "space", "control", "session"}
Idle == [op |-> "idle", space |-> None, room |-> None]
Steps == {"idle", "create", "child", "parent", "archive"}
OfKind(k) == {r \in Ids : kind[r] = k}

Init ==
    /\ kind = [r \in Ids |-> "none"]
    /\ joined = {} /\ child = {} /\ parent = {}
    /\ stored = NoRooms
    /\ view = {} /\ pc = "down" /\ cur = NoRooms /\ mem = NoRooms
    /\ cmd = [h \in Handlers |-> Idle]
    /\ acked = {} /\ archived = {} /\ orphaned = {}
    /\ mishaps = 0 /\ restarts = 0
-----------------------------------------------------------------------------
(* Calls to the homeserver *)

Mishap(f) ==
    /\ f \in Faults /\ mishaps < MaxMishaps
    /\ mishaps' = mishaps + 1

\* The id the next createRoom returns.
FreshRoom(r) == r \in OfKind("none") /\ \A q \in OfKind("none") : r <= q

\* createRoom: the bot is joined to what it creates.
CreateRoom(r, k) ==
    /\ FreshRoom(r)
    /\ kind' = [kind EXCEPT ![r] = k]
    /\ joined' = joined \cup {r}
    /\ UNCHANGED <<child, parent>>

\* The two state events of linkChild and the one of archiveRoom.
SetChild(s, r)   == child' = child \cup {<<s, r>>} /\ UNCHANGED <<kind, joined, parent>>
SetParent(r, s)  == parent' = parent \cup {<<r, s>>} /\ UNCHANGED <<kind, joined, child>>
DropChild(s, r)  == child' = child \ {<<s, r>>} /\ UNCHANGED <<kind, joined, parent>>

\* A state event is refused in a room the bot is no longer in.
Refused(r) == r \notin joined

\* A call that is refused, that fails, or that takes effect with its answer
\* lost: its caller gets an exception.
CallFails(r, Effect) ==
    \/ Refused(r) /\ UNCHANGED <<server, mishaps>>
    \/ ~Refused(r) /\ Mishap("error") /\ UNCHANGED server
    \/ ~Refused(r) /\ Mishap("lost") /\ Effect
-----------------------------------------------------------------------------
(* ensurePluginRooms, awaited by startAccount *)

\* client.getRoom(id) with membership "join".
IsJoined(r) == r \in view

\* A process starts and its initial sync fills the room list.  The list is a
\* window of 100 rooms of a stream that may be a resumed one, so a joined room
\* may be missing from it.
Start ==
    /\ pc = "down"
    /\ \/ view' = joined /\ UNCHANGED mishaps
       \/ view' \in (SUBSET joined) \ {joined} /\ Mishap("view")
    /\ pc' = "space"
    /\ cur' = NoRooms
    /\ UNCHANGED <<server, stored, mem, cmd, history, restarts>>

\* A forced upgrade was announced at boot: the rooms are left as they are.
StartBlocked ==
    /\ pc = "down" /\ restarts < MaxRestarts
    /\ restarts' = restarts + 1
    /\ view' = joined
    /\ pc' = "up"
    /\ UNCHANGED <<server, stored, cur, mem, cmd, history, mishaps>>

\* The stored space is reused ...
ReuseSpace ==
    /\ pc = "space" /\ IsJoined(stored.space)
    /\ cur' = [cur EXCEPT !.space = stored.space]
    /\ pc' = "control"
    /\ UNCHANGED <<server, stored, view, mem, cmd, history, counters>>

\* ... or a new one created.
CreateSpace ==
    /\ pc = "space" /\ ~IsJoined(stored.space)
    /\ \E r \in Ids :
        /\ CreateRoom(r, "space")
        /\ cur' = [cur EXCEPT !.space = r]
    /\ pc' = "control"
    /\ UNCHANGED <<stored, view, mem, cmd, history, counters>>

\* The stored control room is reused, and nothing is linked.
ReuseControl ==
    /\ pc = "control" /\ IsJoined(stored.control)
    /\ cur' = [cur EXCEPT !.control = stored.control]
    /\ pc' = "save"
    /\ orphaned' = IF cur.space = stored.space THEN orphaned
                   ELSE orphaned \cup {stored.control}
    /\ UNCHANGED <<server, stored, view, mem, cmd, acked, archived, counters>>

\* Mutant of CreateControl: the room is created as a session room.
CreateControlUntagged ==
    /\ pc = "control" /\ ~IsJoined(stored.control)
    /\ \E r \in Ids :
        /\ CreateRoom(r, "session")
        /\ cur' = [cur EXCEPT !.control = r]
    /\ pc' = "child"
    /\ UNCHANGED <<stored, view, mem, cmd, history, counters>>

\* Mutant of CreateControl: linkChild is left out.
CreateControlUnlinked ==
    /\ pc = "control" /\ ~IsJoined(stored.control)
    /\ \E r \in Ids :
        /\ CreateRoom(r, "control")
        /\ cur' = [cur EXCEPT !.control = r]
    /\ pc' = "save"
    /\ UNCHANGED <<stored, view, mem, cmd, history, counters>>

CreateControl ==
    /\ pc = "control" /\ ~IsJoined(stored.control)
    /\ \E r \in Ids :
        /\ CreateRoom(r, "control")
        /\ cur' = [cur EXCEPT !.control = r]
    /\ pc' = "child"
    /\ UNCHANGED <<stored, view, mem, cmd, history, counters>>

\* linkChild of the new control room.
LinkControl ==
    /\ \/ /\ pc = "child" /\ ~Refused(cur.space)
          /\ SetChild(cur.space, cur.control)
          /\ pc' = "parent"
       \/ /\ pc = "parent" /\ ~Refused(cur.control)
          /\ SetParent(cur.control, cur.space)
          /\ pc' = "save"
    /\ UNCHANGED <<stored, view, cur, mem, cmd, history, counters>>

\* Mutant of SaveRooms: the ids are kept in memory only.
SaveRoomsNever ==
    /\ pc = "save"
    /\ mem' = cur
    /\ pc' = "up"
    /\ UNCHANGED <<server, stored, view, cur, cmd, history, counters>>

\* saveRooms, and ensureRooms keeps the ids.
SaveRooms ==
    /\ pc = "save"
    /\ stored' = cur
    /\ mem' = cur
    /\ pc' = "up"
    /\ UNCHANGED <<server, view, cur, cmd, history, counters>>

\* Any call throws: startAccount logs it and goes on without rooms.
EnsureFails ==
    /\ \/ /\ pc = "space" /\ ~IsJoined(stored.space)
          /\ \/ Mishap("error") /\ UNCHANGED server
             \/ Mishap("lost") /\ \E r \in Ids : CreateRoom(r, "space")
       \/ /\ pc = "control" /\ ~IsJoined(stored.control)
          /\ \/ Mishap("error") /\ UNCHANGED server
             \/ Mishap("lost") /\ \E r \in Ids : CreateRoom(r, "control")
       \/ pc = "child" /\ CallFails(cur.space, SetChild(cur.space, cur.control))
       \/ pc = "parent" /\ CallFails(cur.control, SetParent(cur.control, cur.space))
    /\ pc' = "up"
    /\ UNCHANGED <<stored, view, cur, mem, cmd, history, restarts>>

\* The process ends.  One with its rooms and no command in flight costs
\* nothing; one inside ensurePluginRooms or a handler does, and one inside
\* saveRooms may leave a torn file, which reads as {}.
Quiet == pc = "up" /\ \A h \in Handlers : cmd[h] = Idle
Crash ==
    /\ pc # "down"
    /\ \/ Quiet /\ restarts < MaxRestarts /\ restarts' = restarts + 1 /\ UNCHANGED mishaps
       \/ ~Quiet /\ Mishap("crash") /\ UNCHANGED restarts
    /\ \/ UNCHANGED stored
       \/ pc = "save" /\ stored' = NoRooms
    /\ pc' = "down" /\ view' = {} /\ cur' = NoRooms /\ mem' = NoRooms
    /\ cmd' = [h \in Handlers |-> Idle]
    /\ UNCHANGED <<server, history>>
-----------------------------------------------------------------------------
(* session.* commands, each handled on its own *)

\* isControlRoom: the room's state says so, whichever control room it is.
IsControlRoom(r) == r \in view /\ kind[r] = "control"

\* handleSessionCommand without a space id answers an error at once, which
\* changes nothing here.
Accepts(h, from) ==
    /\ pc # "down" /\ cmd[h] = Idle
    /\ IsControlRoom(from)
    /\ mem.space # None

\* session.new: the sender is invited as the room is created.  The second
\* conjunct is the bound MaxRooms.
SessionNew(h) ==
    /\ \E from \in Ids : Accepts(h, from)
    /\ Cardinality(OfKind("none")) > Cardinality({g \in Handlers : cmd[g].op = "create"})
    /\ cmd' = [cmd EXCEPT ![h] = [op |-> "create", space |-> mem.space, room |-> None]]
    /\ UNCHANGED <<server, stored, view, pc, cur, mem, history, counters>>

\* session.archive: the code checks neither the room's kind nor its space, so
\* it may be any room, the control room and a session not listed yet included.
SessionArchive(h) ==
    /\ \E from \in Ids : Accepts(h, from)
    /\ \E r \in Ids \ OfKind("none") :
        cmd' = [cmd EXCEPT ![h] = [op |-> "archive", space |-> mem.space, room |-> r]]
    /\ UNCHANGED <<server, stored, view, pc, cur, mem, history, counters>>

HandlerCreates(h) ==
    /\ cmd[h].op = "create"
    /\ \E r \in Ids :
        /\ CreateRoom(r, "session")
        /\ cmd' = [cmd EXCEPT ![h] = [@ EXCEPT !.op = "child", !.room = r]]
    /\ UNCHANGED <<stored, view, pc, cur, mem, history, counters>>

\* Mutant of HandlerLinks: a refused state event is passed over.
HandlerLinksBestEffort(h) ==
    LET s == cmd[h].space
        r == cmd[h].room
    IN  /\ \/ /\ cmd[h].op = "child"
              /\ IF Refused(s) THEN UNCHANGED server ELSE SetChild(s, r)
              /\ cmd' = [cmd EXCEPT ![h].op = "parent"]
              /\ UNCHANGED acked
           \/ /\ cmd[h].op = "parent" /\ ~Refused(r)
              /\ SetParent(r, s)
              /\ cmd' = [cmd EXCEPT ![h] = Idle]
              /\ acked' = acked \cup {r}
        /\ UNCHANGED <<stored, view, pc, cur, mem, archived, orphaned, counters>>

\* linkChild of the new session; the second state event is followed by the
\* answer ok.
HandlerLinks(h) ==
    LET s == cmd[h].space
        r == cmd[h].room
    IN  /\ \/ /\ cmd[h].op = "child" /\ ~Refused(s)
              /\ SetChild(s, r)
              /\ cmd' = [cmd EXCEPT ![h].op = "parent"]
              /\ UNCHANGED acked
           \/ /\ cmd[h].op = "parent" /\ ~Refused(r)
              /\ SetParent(r, s)
              /\ cmd' = [cmd EXCEPT ![h] = Idle]
              /\ acked' = acked \cup {r}
        /\ UNCHANGED <<stored, view, pc, cur, mem, archived, orphaned, counters>>

\* The rooms that lost their place under s, of which r is the only candidate.
Removed(s, r) == IF <<s, r>> \in child \ child' THEN {r} ELSE {}

\* archiveRoom, answered ok whether the room was listed or not.
HandlerArchives(h) ==
    /\ cmd[h].op = "archive" /\ ~Refused(cmd[h].space)
    /\ DropChild(cmd[h].space, cmd[h].room)
    /\ cmd' = [cmd EXCEPT ![h] = Idle]
    /\ archived' = archived \cup Removed(cmd[h].space, cmd[h].room)
    /\ UNCHANGED <<stored, view, pc, cur, mem, acked, orphaned, counters>>

\* A call of the handler throws: the answer is ok = false, and what the
\* handler did before stays.
HandlerFails(h) ==
    LET s == cmd[h].space
        r == cmd[h].room
    IN  /\ \/ /\ cmd[h].op = "create"
              /\ \/ Mishap("error") /\ UNCHANGED server
                 \/ Mishap("lost") /\ \E q \in Ids : CreateRoom(q, "session")
           \/ cmd[h].op = "child" /\ CallFails(s, SetChild(s, r))
           \/ cmd[h].op = "parent" /\ CallFails(r, SetParent(r, s))
           \/ cmd[h].op = "archive" /\ CallFails(s, DropChild(s, r))
        /\ cmd' = [cmd EXCEPT ![h] = Idle]
        /\ archived' = archived \cup Removed(s, r)
        /\ UNCHANGED <<stored, view, pc, cur, mem, acked, orphaned, restarts>>
-----------------------------------------------------------------------------
(* External: membership changes and the sync that reports them *)

BotRemoved ==
    /\ Mishap("removed")
    /\ \E r \in joined : joined' = joined \ {r}
    /\ UNCHANGED <<kind, child, parent, stored, view, pc, cur, mem, cmd,
                   history, restarts>>

SyncShows ==
    /\ pc # "down"
    /\ \E r \in Ids :
        /\ (r \in view) # (r \in joined)
        /\ view' = IF r \in joined THEN view \cup {r} ELSE view \ {r}
    /\ UNCHANGED <<server, stored, pc, cur, mem, cmd, history, counters>>

Ensure ==
    \/ ReuseSpace \/ CreateSpace \/ ReuseControl \/ CreateControl
    \/ LinkControl \/ SaveRooms \/ EnsureFails
Handle(h) ==
    HandlerCreates(h) \/ HandlerLinks(h) \/ HandlerArchives(h) \/ HandlerFails(h)

Next ==
    \/ Start \/ StartBlocked \/ Ensure \/ Crash \/ BotRemoved \/ SyncShows
    \/ \E h \in Handlers : SessionNew(h) \/ SessionArchive(h) \/ Handle(h)

Spec == Init /\ [][Next]_vars

-----------------------------------------------------------------------------
(* Properties *)

\* A space id and a control room id, each of a room created as such.
Pairs == [space : OfKind("space") \cup {None}, control : OfKind("control") \cup {None}]

TypeOK ==
    /\ kind \in [Ids -> Kinds]
    /\ joined \subseteq Ids /\ view \subseteq Ids
    /\ child \subseteq Ids \X Ids /\ parent \subseteq Ids \X Ids
    /\ stored \in Pairs /\ cur \in Pairs /\ mem \in Pairs
    /\ \A h \in Handlers : cmd[h].op \in {"child", "parent"} => kind[cmd[h].room] = "session"
    /\ pc \in {"down", "space", "control", "child", "parent", "save", "up"}
    /\ cmd \in [Handlers -> [op : Steps, space : Ids \cup {None}, room : Ids \cup {None}]]
    /\ acked \subseteq Ids /\ archived \subseteq Ids /\ orphaned \subseteq Ids
    /\ mishaps \in 0..MaxMishaps /\ restarts \in 0..MaxRestarts

Linked(p) == <<p.space, p.control>> \in child /\ <<p.control, p.space>> \in parent

\* Restarts alone never spawn a second space or control room, whenever they
\* happen outside ensurePluginRooms: every room the bot has too many of is
\* paid for by one fault.
OneOfEachButForMishaps ==
    \A k \in {"space", "control"} :
        Cardinality(joined \cap OfKind(k)) <= 1 + mishaps

\* The ids in rooms.json, which the pairing command invites users to, are a
\* space and a control room linked both ways.  The exceptions: a control room
\* kept when its space had to be replaced (space.ts:119), and one a device
\* archived as if it were a session (channel.ts:449-456), which every later
\* process goes on reusing.
SavedPairLinked ==
    stored # NoRooms => Linked(stored) \/ stored.control \in orphaned \cup archived

\* What a command was answered stays true, whatever other handlers and later
\* processes do: a session the device was told of is listed under a space
\* and names it as its parent until it is archived, and a room that was
\* archived is listed under no space again.  An archive answered ok for a
\* room its space did not list (yet) has removed nothing.
AnswersKept ==
    /\ \A r \in acked \ archived :
         \E s \in OfKind("space") : <<s, r>> \in child /\ <<r, s>> \in parent
    /\ \A r \in archived, s \in Ids : <<s, r>> \notin child

=============================================================================
