----------------------------- MODULE Onboarding -----------------------------
(***************************************************************************)
(* The commands of src/src/cli.ts that give an account its bot identity,   *)
(* pair a user's device with it and wipe it again: setup, migrate, pair,   *)
(* reset.  Each is a process of its own; two can run at a time, beside the *)
(* gateway process, and they share the account's files.                    *)
(*                                                                         *)
(* An identity is a bot login (user, device, token) minted by the          *)
(* registrar, or the one the operator passes by hand.  The credentials are *)
(* the file's: those of the environment or of the config are constants of  *)
(* the process and left out, and with them logins put together from parts. *)
(* A pairing code belongs to the command that registered it, as the codes  *)
(* are random; one user owns the devices that are paired.  The inside of   *)
(* the gateway process is the subject of ClientHandle and PluginRooms.     *)
(***************************************************************************)
EXTENDS Naturals

CONSTANTS
    MaxProcs,    \* bound: commands that run at a time
    MaxCommands, \* bound: commands run
    MaxFaults    \* bound: calls that fail or lose their answer, killed commands

ASSUME OnboardingAssumption ==
    MaxProcs \in Nat /\ MaxCommands \in Nat /\ MaxFaults \in Nat

Procs == 1..MaxProcs   \* processes that run a command

None == 0
Minted == 1..MaxCommands   \* a command mints at most one
Given == MaxCommands + 1
Identities == Minted \cup {Given}
Owners == Identities \cup {None}

VARIABLES
    \* files
    creds,    \* identity in the credentials file
    plugin,   \* identity whose plugin_id it holds; None: the local instance's
    config,   \* the channel config was written
    store,    \* identity of the crypto snapshot and cursor in the state directory
    roomsOf,  \* identity whose control room and space rooms.json names
    \* gateway process
    gw,       \* "down", "rooms" (ensuring them), "up", or "stuck": start threw
    runs,     \* the identity it was started with
    \* registrar and homeserver
    minted,   \* identities minted
    code,     \* pairing code of each command: "none", "open", "redeemed", "expired"
    invited,  \* <<identity, room>> the user was invited to
    \* commands
    pc,       \* where each is; "idle" between two
    as,       \* credentials it read at its start
    asId,     \* identity whose plugin_id they held; None: the local instance's
    keyed,    \* the bot whose plugin_id it registered its code with, or None
    target,   \* identity of the rooms it invites to
    deadline, \* its own clock passed the code's lifetime
    said,     \* the bot whose rooms it said it invited the user to, or None
    commands, faults,
    \* history: read by no guard
    spent,    \* minted identities lost to a reset, a lost answer or a race
    mixed     \* files changed under a live gateway, half reset, or torn

files == <<creds, plugin, config, store, roomsOf>>
gateway == <<gw, runs>>
server == <<minted, code, invited>>
reading == <<as, asId>>
pairing == <<target, deadline, said, keyed>>
counts == <<commands, faults>>
history == <<spent, mixed>>
vars == <<creds, plugin, config, store, roomsOf, gw, runs, minted, code, invited,
          pc, as, asId, keyed, target, deadline, said, commands, faults, spent, mixed>>

Init ==
    /\ creds = None /\ plugin = None /\ config = FALSE /\ store = None /\ roomsOf = None
    /\ gw = "down" /\ runs = None
    /\ minted = 0 /\ code = [p \in Procs |-> "none"]
    /\ invited = {}
    /\ pc = [p \in Procs |-> "idle"] /\ as = [p \in Procs |-> None]
    /\ asId = [p \in Procs |-> None] /\ keyed = [p \in Procs |-> None]
    /\ target = [p \in Procs |-> None]
    /\ deadline = [p \in Procs |-> FALSE] /\ said = [p \in Procs |-> None]
    /\ commands = 0 /\ faults = 0 /\ spent = 0 /\ mixed = FALSE

GoTo(p, l) == pc' = [pc EXCEPT ![p] = l]
Fault == faults < MaxFaults /\ faults' = faults + 1

\* A command has no use for the account any more.
Drops(p) == as' = [as EXCEPT ![p] = None] /\ asId' = [asId EXCEPT ![p] = None]

\* resolveChat4000Account: the credentials and the plugin_id of the file.
Reads(p) == as' = [as EXCEPT ![p] = creds] /\ asId' = [asId EXCEPT ![p] = plugin]

\* A command that pairs is over.
Ends(p, i) ==
    /\ GoTo(p, "idle") /\ said' = [said EXCEPT ![p] = i]
    /\ Drops(p) /\ target' = [target EXCEPT ![p] = None]
    /\ code' = [code EXCEPT ![p] = "none"] /\ deadline' = [deadline EXCEPT ![p] = FALSE]
    /\ UNCHANGED <<files, gateway, minted, keyed, commands>>

-----------------------------------------------------------------------------
(* Credentials *)

Resetting == \E p \in Procs : pc[p] = "reset"

\* saveMatrixCredentials.  The state directory is left as it is.
SaveCredentials(i, id) ==
    /\ creds' = i /\ plugin' = id
    /\ mixed' = (mixed \/ creds \notin {None, i} \/ Resetting)

\* A command starts, as the first process that is free, and reads the
\* credentials.
Starts(p) ==
    /\ pc[p] = "idle" /\ \A q \in 1..(p - 1) : pc[q] # "idle"
    /\ commands < MaxCommands
    /\ commands' = commands + 1
    /\ Reads(p)
    /\ said' = [said EXCEPT ![p] = None] /\ keyed' = [keyed EXCEPT ![p] = None]
    /\ UNCHANGED <<config, store, roomsOf, gateway, server, target, deadline,
                   faults>>

\* runSetup with --user-id, --access-token and --device-id.  The plugin_id
\* of the identity before is kept, also one that is another bot's.
SetupDirect(p) ==
    /\ Starts(p)
    /\ SaveCredentials(Given, plugin)
    /\ spent' = IF creds \in Minted THEN spent + 1 ELSE spent
    /\ GoTo(p, "config")

\* Mutant of SetupSelfRedeem: the registrar is asked whether there is an identity or not.
SetupSelfRedeemAnew(p) ==
    /\ Starts(p)
    /\ GoTo(p, "gate")
    /\ UNCHANGED <<creds, plugin, history>>

\* runSetup --self-redeem.  An account that has an identity keeps it: it is
\* saved again, and the registrar is not asked.
SetupSelfRedeem(p) ==
    /\ Starts(p)
    /\ GoTo(p, IF creds = None THEN "gate" ELSE "config")
    /\ UNCHANGED <<creds, plugin, history>>

\* runMigrate with v1 state found and copied away: an identity is minted as by
\* setup, but the version policy is not asked; one there is is left unwritten.
Migrate(p) ==
    /\ Starts(p)
    /\ GoTo(p, IF creds = None THEN "redeem" ELSE "kept")
    /\ UNCHANGED <<creds, plugin, history>>

\* enforceVersionBeforePrivileged: force_upgrade ends the command, a check
\* that fails does not.
Refused(p) ==
    /\ pc[p] \in {"gate", "gatePair"} /\ Ends(p, None)
    /\ UNCHANGED <<invited, faults, history>>

GatePasses(p) ==
    /\ pc[p] = "gate" /\ GoTo(p, "redeem")
    /\ UNCHANGED <<files, gateway, server, reading, pairing, counts, history>>

\* selfRedeemIdentity registers a kind=plugin code and redeems it, which
\* mints an identity; the answer is saved at once.
RedeemPlugin(p) ==
    /\ pc[p] = "redeem"
    /\ minted' = minted + 1
    /\ SaveCredentials(minted', minted')
    /\ spent' = IF creds \in Minted /\ as[p] = None THEN spent + 1 ELSE spent
    /\ GoTo(p, "config")
    /\ UNCHANGED <<config, store, roomsOf, gateway, code, invited, reading,
                   pairing, counts>>

\* The answer is lost, or the command killed before it: nobody has the login.
RedeemLost(p) ==
    /\ pc[p] = "redeem" /\ Fault
    /\ minted' = minted + 1 /\ spent' = spent + 1
    /\ GoTo(p, "idle") /\ Drops(p)
    /\ UNCHANGED <<files, gateway, code, invited, pairing, commands, mixed>>

\* A command killed inside saveMatrixCredentials, the last thing it does
\* before the config: the torn file reads as no credentials.
SaveTorn(p) ==
    /\ pc[p] = "config" /\ Fault
    /\ creds' = None /\ plugin' = None /\ mixed' = TRUE
    /\ spent' = IF creds \in Minted THEN spent + 1 ELSE spent
    /\ GoTo(p, "idle") /\ Drops(p)
    /\ UNCHANGED <<config, store, roomsOf, gateway, server, pairing, commands>>

\* runPair reads the credentials, and ends without any.
PairOrEnd(p) ==
    /\ GoTo(p, IF creds = None THEN "idle" ELSE "gatePair")
    /\ Reads(p)

\* writeChannelConfig; setup goes on to pair, unless --no-pair; migrate ends.
WriteConfig(p) ==
    /\ config' = TRUE
    /\ \/ pc[p] = "config" /\ PairOrEnd(p)
       \/ pc[p] \in {"config", "kept"} /\ GoTo(p, "idle") /\ Drops(p)
    /\ UNCHANGED <<creds, plugin, store, roomsOf, gateway, server, pairing, counts,
                   history>>

\* runReset: the credentials go first ...
Reset(p) ==
    /\ Starts(p)
    /\ creds' = None /\ plugin' = None
    /\ spent' = IF creds \in Minted THEN spent + 1 ELSE spent
    /\ mixed' = (mixed \/ gw # "down")
    /\ GoTo(p, "reset")

\* Mutant of ResetState: the crypto store is left.
ResetStateKeepsStore(p) ==
    /\ pc[p] = "reset"
    /\ GoTo(p, "idle") /\ Drops(p)
    /\ \/ /\ UNCHANGED store /\ roomsOf' = None
          /\ mixed' = (mixed \/ gw # "down") /\ UNCHANGED faults
       \/ Fault /\ mixed' = TRUE /\ UNCHANGED <<store, roomsOf>>
    /\ UNCHANGED <<creds, plugin, config, gateway, server, pairing, commands, spent>>

\* ... then the state directory, a failure of which is ignored.
ResetState(p) ==
    /\ pc[p] = "reset"
    /\ GoTo(p, "idle") /\ Drops(p)
    /\ \/ /\ store' = None /\ roomsOf' = None
          /\ mixed' = (mixed \/ gw # "down") /\ UNCHANGED faults
       \/ Fault /\ mixed' = TRUE /\ UNCHANGED <<store, roomsOf>>
    /\ UNCHANGED <<creds, plugin, config, gateway, server, pairing, commands, spent>>

-----------------------------------------------------------------------------
(* Pairing *)

Pair(p) ==
    /\ Starts(p) /\ PairOrEnd(p)
    /\ UNCHANGED <<creds, plugin, history>>

\* The bot whose plugin_id the registrar knows an id as: the one it issued
\* the id with, or the operator's own for the id of the local instance.
BotOf(id) == IF id = None THEN Given ELSE id

\* Mutant of RegisterUser: the file is read again after the gate.
RegisterUserReadsAgain(p) ==
    /\ pc[p] = "gatePair"
    /\ code' = [code EXCEPT ![p] = "open"]
    /\ keyed' = [keyed EXCEPT ![p] = BotOf(plugin)]
    /\ GoTo(p, "poll")
    /\ UNCHANGED <<files, gateway, minted, invited, reading, target, deadline, said,
                   counts, history>>

\* The gate passes; startHumanPairing: the code is registered with the
\* plugin_id that was read with the credentials, and shown.
RegisterUser(p) ==
    /\ pc[p] = "gatePair"
    /\ code' = [code EXCEPT ![p] = "open"]
    /\ keyed' = [keyed EXCEPT ![p] = BotOf(asId[p])]
    /\ GoTo(p, "poll")
    /\ UNCHANGED <<files, gateway, minted, invited, reading, target, deadline, said,
                   counts, history>>

\* Mutant of PollsOn: the clock is not looked at.
PollsOnForever(p) ==
    /\ pc[p] = "poll"
    /\ GoTo(p, "poll") /\ UNCHANGED <<files, gateway, minted, code, reading, pairing, commands>>
    /\ UNCHANGED <<invited, faults, history>>

\* A poll that brought nothing new, or failed, whose error the catch
\* swallows: the loop looks at its clock.
PollsOn(p) ==
    /\ pc[p] = "poll"
    /\ deadline[p] /\ Ends(p, None)
    /\ UNCHANGED <<invited, faults, history>>

\* The answer of a poll.  An expired code ends the command, and so does a
\* completed one whose user is not named.  After "completed", rooms.json says
\* where the user is invited to; without one there will be a direct room.
PollAnswered(p) ==
    /\ pc[p] = "poll"
    /\ \/ code[p] \in {"expired", "redeemed"} /\ Ends(p, None)
       \/ /\ code[p] = "redeemed"
          /\ target' = [target EXCEPT ![p] = roomsOf]
          /\ GoTo(p, IF roomsOf = None THEN "dm" ELSE "control")
          /\ UNCHANGED <<files, gateway, minted, code, reading, deadline, said, keyed,
                         commands>>
    /\ UNCHANGED <<invited, faults, history>>

\* client.invite: refused of a bot that is not in the room, and for a user
\* who was invited before and has joined it.
Invites(p, room) ==
    /\ target[p] = as[p]
    /\ invited' = invited \cup {<<as[p], room>>}

\* inviteUserToRooms, the control room first.  A failed call, or one whose
\* answer is lost, ends it.
InviteControl(p) ==
    /\ pc[p] = "control" /\ Invites(p, "control")
    /\ GoTo(p, "space")
    /\ UNCHANGED <<files, gateway, minted, code, reading, pairing, counts, history>>

InviteSpace(p) ==
    /\ pc[p] = "space" /\ Invites(p, "space")
    /\ Ends(p, as[p])
    /\ UNCHANGED <<faults, history>>

\* createPairedRoom: a direct room of their own.
CreateRoom(p) ==
    /\ pc[p] = "dm" /\ Ends(p, None)
    /\ UNCHANGED <<invited, faults, history>>

\* An invitation is refused, fails, or is done with its answer lost.
InviteFails(p) ==
    /\ pc[p] \in {"control", "space", "dm"}
    /\ \/ /\ pc[p] # "dm"
          /\ target[p] = as[p] => <<as[p], pc[p]>> \in invited
          /\ UNCHANGED <<invited, faults>>
       \/ Fault /\ UNCHANGED invited
       \/ /\ Fault /\ target[p] = as[p]
          /\ invited' = invited \cup {<<as[p], pc[p]>>}
    /\ Ends(p, None)
    /\ UNCHANGED history

\* transport.connect whose first socket is lost before its auth answer.
ConnectHangs(p) ==
    /\ pc[p] \in {"control", "dm"} /\ Fault
    /\ GoTo(p, "hung")
    /\ Drops(p) /\ target' = [target EXCEPT ![p] = None]
    /\ code' = [code EXCEPT ![p] = "none"] /\ deadline' = [deadline EXCEPT ![p] = FALSE]
    /\ UNCHANGED <<files, gateway, minted, invited, said, keyed, commands, history>>

\* A command that is killed, or ends on an error of a call nothing catches.
CommandDies(p) ==
    /\ pc[p] # "idle" /\ Fault
    /\ Ends(p, None)
    /\ mixed' = (mixed \/ pc[p] = "reset")
    /\ UNCHANGED <<invited, spent>>

-----------------------------------------------------------------------------
(* External: the user, the registrar, the clocks *)

UserRedeems(p) ==
    /\ code[p] = "open"
    /\ code' = [code EXCEPT ![p] = "redeemed"]
    /\ UNCHANGED <<files, gateway, minted, invited, pc, reading, pairing,
                   counts, history>>

\* The registrar counts the lifetime from the registration, the command from
\* its answer.
CodeExpires(p) ==
    /\ code[p] = "open"
    /\ code' = [code EXCEPT ![p] = "expired"]
    /\ UNCHANGED <<files, gateway, minted, invited, pc, reading, pairing,
                   counts, history>>

DeadlinePasses(p) ==
    /\ pc[p] = "poll" /\ code[p] # "open" /\ ~deadline[p]
    /\ deadline' = [deadline EXCEPT ![p] = TRUE]
    /\ UNCHANGED <<files, gateway, server, pc, reading, target, said, keyed, counts,
                   history>>

-----------------------------------------------------------------------------
(* The gateway process *)

\* Mutant of GatewayStarts: an account without an identity is started.
GatewayStartsBare ==
    /\ gw = "down" /\ config
    /\ runs' = creds
    /\ gw' = IF store \in {None, creds} THEN "rooms" ELSE "stuck"
    /\ UNCHANGED <<files, server, pc, reading, pairing, counts, history>>

\* startAccount: the crypto store of another identity makes it throw.
GatewayStarts ==
    /\ gw = "down" /\ config /\ creds # None
    /\ runs' = creds
    /\ gw' = IF store \in {None, creds} THEN "rooms" ELSE "stuck"
    /\ UNCHANGED <<files, server, pc, reading, pairing, counts, history>>

\* ensureRooms is over: done and saved, or failed.
GatewayRooms ==
    /\ gw = "rooms" /\ gw' = "up"
    /\ roomsOf' \in {roomsOf, runs}
    /\ UNCHANGED <<creds, plugin, config, store, runs, server, pc, reading, pairing, counts,
                   history>>

\* The persist timer, the flush before an ack, or the final snapshot: the
\* directory is made anew if need be.
GatewayPersists ==
    /\ gw \in {"rooms", "up"} /\ store # runs
    /\ store' = runs
    /\ UNCHANGED <<creds, plugin, config, roomsOf, gateway, server, pc, reading, pairing, counts,
                   history>>

GatewayStops ==
    /\ gw # "down"
    /\ gw' = "down" /\ runs' = None
    /\ UNCHANGED <<files, server, pc, reading, pairing, counts, history>>

ProcStep(p) ==
    \/ Refused(p) \/ GatePasses(p) \/ RedeemPlugin(p) \/ RedeemLost(p)
    \/ WriteConfig(p) \/ ResetState(p) \/ RegisterUser(p) \/ PollsOn(p)
    \/ InviteControl(p) \/ InviteSpace(p) \/ CreateRoom(p) \/ InviteFails(p)

Next ==
    \/ \E p \in Procs :
        \/ SetupDirect(p) \/ SetupSelfRedeem(p) \/ Migrate(p) \/ Reset(p) \/ Pair(p)
        \/ ProcStep(p) \/ PollAnswered(p) \/ ConnectHangs(p) \/ CommandDies(p) \/ SaveTorn(p)
        \/ UserRedeems(p) \/ CodeExpires(p) \/ DeadlinePasses(p)
    \/ GatewayStarts \/ GatewayRooms \/ GatewayPersists \/ GatewayStops

Spec == Init /\ [][Next]_vars

\* Every call of a command ends (the registrar client has a timeout of its
\* own), codes expire and clocks go on.  Nothing forces the user, the
\* operator or the gateway, and no answer of a poll need ever arrive.
FairSpec ==
    /\ Spec
    /\ \A p \in Procs :
        WF_vars(ProcStep(p)) /\ WF_vars(CodeExpires(p)) /\ WF_vars(DeadlinePasses(p))

-----------------------------------------------------------------------------
(* Properties *)

Places == {"idle", "gate", "redeem", "config", "kept", "reset", "gatePair",
           "poll", "control", "space", "dm", "hung"}
CodeStates == {"none", "open", "redeemed", "expired"}

TypeOK ==
    /\ creds \in Owners /\ plugin \in Minted \cup {None} /\ config \in BOOLEAN
    /\ store \in Owners /\ roomsOf \in Owners
    /\ gw \in {"down", "rooms", "up", "stuck"} /\ runs \in Owners
    /\ gw # "down" => runs # None
    /\ minted \in 0..MaxCommands /\ code \in [Procs -> CodeStates]
    /\ invited \subseteq Identities \X {"control", "space"}
    /\ pc \in [Procs -> Places] /\ as \in [Procs -> Owners]
    /\ asId \in [Procs -> Minted \cup {None}] /\ keyed \in [Procs -> Owners]
    /\ target \in [Procs -> Owners]
    /\ deadline \in [Procs -> BOOLEAN] /\ said \in [Procs -> Owners]
    /\ commands \in 0..MaxCommands /\ faults \in 0..MaxFaults
    /\ spent \in 0..MaxCommands /\ mixed \in BOOLEAN

\* Every identity the registrar minted is the stored one, or was given up by
\* a reset or a direct setup, lost with an answer, in a torn file, or by two
\* commands that both began without one: running setup or migrate again mints
\* no other.
BotsAccountedFor ==
    minted = spent + (IF creds \in Minted THEN 1 ELSE 0)

\* A gateway that cannot start because the crypto store is of another
\* identity, and credentials with the plugin_id of another, come of files
\* changed under a live gateway, of a reset cut short or a file torn, or of a
\* setup over an identity that was not reset: after a reset that ended, with
\* the gateway stopped, the next identity starts clean.
ForeignStateExplained ==
    gw = "stuck" \/ (creds # None /\ plugin \notin {None, creds}) => mixed

\* A user said to be invited can enter both rooms of the bot the device was
\* paired with, the one whose plugin_id the code was registered with, whatever
\* other commands and the gateway did to the files since the command read
\* them.  The exception is a bot passed by hand over one that was not reset:
\* it keeps the other's plugin_id (cli.ts:382), so the user's device is paired
\* with the old bot and invited by the new one.
SaidIsInvited ==
    \A p \in Procs : said[p] # None =>
        /\ {<<said[p], "control">>, <<said[p], "space">>} \subseteq invited
        /\ keyed[p] = said[p] \/ (said[p] = Given /\ mixed)

\* A command ends, whatever the user does and however many answers are lost,
\* but for the connection that never tells connect() of its loss.
CommandsEnd == \A p \in Procs : pc[p] # "idle" ~> pc[p] \in {"idle", "hung"}

=============================================================================
