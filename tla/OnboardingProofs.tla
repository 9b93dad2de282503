-------------------------- MODULE OnboardingProofs --------------------------
(***************************************************************************)
(* Proofs about Onboarding, for any number of commands, of commands that   *)
(* run at a time and of faults:                                            *)
(*   - TypeCorrect: Spec => []TypeOK                                       *)
(*   - NoBotInVain: Spec => []BotsAccountedFor                             *)
(*   - InvitationsClaimedWereMade: Spec => []SaidIsInvited                 *)
(*   - NoForeignState: Spec => []ForeignStateExplained                     *)
(***************************************************************************)
EXTENDS Onboarding, FiniteSets, FiniteSetTheorems, TLAPS

-----------------------------------------------------------------------------
(* The inductive invariant *)

\* Processes that may still mint an identity.
Busy == {p \in Procs : pc[p] \in {"gate", "redeem"}}
\* A command mints at most one identity.
Budget == minted + Cardinality(Busy) <= commands

\* A command that pairs has credentials, one that mints has none; a direct room
\* is for an account without rooms, and the space comes after the control room.
Paired ==
    \A p \in Procs :
        /\ pc[p] \in {"gatePair", "poll", "control", "space", "dm"} => as[p] # None
        /\ pc[p] \in {"gate", "redeem"} => as[p] = None
        /\ pc[p] = "dm" => target[p] = None
        /\ pc[p] = "space" => <<as[p], "control">> \in invited
        /\ pc[p] # "idle" => said[p] = None

\* The files are of one identity, which the gateway runs with.  A store of
\* another one is there only while a reset is about to remove it.
InStep ==
    /\ plugin \in {None, creds}
    /\ store \in {None, creds} \/ (Resetting /\ creds = None)
    /\ gw # "down" => runs = creds /\ gw # "stuck"

FilesInv == mixed \/ InStep

\* A plugin_id the registrar knows as bot i's, or another's after a mishap that
\* only a bot passed by hand outlives.
Suits(bot, i) == bot = i \/ (i = Given /\ mixed)

\* The plugin_id suits the credentials it is stored with, and later what was
\* read with them, the registered code and what is said of it.
KeyInv ==
    /\ creds = None => plugin = None
    /\ creds # None => Suits(BotOf(plugin), creds)
    /\ \A p \in Procs :
        /\ pc[p] = "gatePair" => Suits(BotOf(asId[p]), as[p])
        /\ pc[p] \in {"poll", "control", "space"} => Suits(keyed[p], as[p])
        /\ said[p] # None => Suits(keyed[p], said[p])

\* Both rooms of a bot the user is said to be invited by have the invitation.
SaidInvited ==
    \A p \in Procs : said[p] # None =>
        {<<said[p], "control">>, <<said[p], "space">>} \subseteq invited

IInv ==
    /\ TypeOK /\ Budget /\ BotsAccountedFor /\ Paired
    /\ SaidInvited /\ KeyInv /\ FilesInv

-----------------------------------------------------------------------------
(* Minted identities are bounded by the commands *)

LEMMA BusyFinite == ASSUME TypeOK PROVE IsFiniteSet(Busy) /\ Cardinality(Busy) \in Nat
  <1>1. IsFiniteSet(Procs)
    BY OnboardingAssumption, FS_Interval, SMT DEF Procs
  <1>2. Busy \in SUBSET Procs
    BY DEF Busy
  <1> QED  BY <1>1, <1>2, FS_Subset, FS_CardinalityType

\* What a step does to Busy and to the two counters.
BusyStays ==
    Busy' \subseteq Busy /\ minted' = minted /\ commands' \in {commands, commands + 1}
BusyGrows(p) ==
    Busy' \subseteq Busy \cup {p} /\ minted' = minted /\ commands' = commands + 1
BusyMints(p) ==
    p \in Busy /\ Busy' = Busy \ {p} /\ minted' = minted + 1 /\ commands' = commands

LEMMA BusyStep ==
  ASSUME TypeOK, Next
  PROVE  BusyStays \/ \E p \in Procs : BusyGrows(p) \/ BusyMints(p)
  <1> USE DEF BusyStays, BusyGrows, BusyMints, Busy, TypeOK, files, gateway, server, reading,
       pairing, counts, history, GoTo, Starts, SaveCredentials, PairOrEnd, Ends, Fault, reading,
       Reads, Drops
  <1>1. ASSUME NEW p \in Procs, SetupSelfRedeem(p) \/ Migrate(p) PROVE BusyGrows(p)
    BY <1>1 DEF SetupSelfRedeem, Migrate
  <1>2. ASSUME NEW p \in Procs, RedeemPlugin(p) \/ RedeemLost(p) PROVE BusyMints(p)
    BY <1>2 DEF RedeemPlugin, RedeemLost
  <1>3. ASSUME NEW p \in Procs,
               \/ SetupDirect(p) \/ Reset(p) \/ Pair(p) \/ Refused(p)
               \/ GatePasses(p) \/ WriteConfig(p) \/ ResetState(p) \/ RegisterUser(p)
        PROVE  BusyStays
    BY <1>3 DEF SetupDirect, Reset, Pair, Refused, GatePasses, WriteConfig,
         ResetState, RegisterUser
  <1>4. ASSUME NEW p \in Procs,
               \/ PollsOn(p) \/ InviteControl(p) \/ InviteSpace(p) \/ CreateRoom(p)
               \/ InviteFails(p) \/ PollAnswered(p) \/ ConnectHangs(p) \/ CommandDies(p)
               \/ SaveTorn(p)
        PROVE  BusyStays
    BY <1>4 DEF PollsOn, InviteControl, InviteSpace, CreateRoom, InviteFails,
         PollAnswered, ConnectHangs, CommandDies, SaveTorn
  <1>5. ASSUME NEW p \in Procs, UserRedeems(p) \/ CodeExpires(p) \/ DeadlinePasses(p)
        PROVE  BusyStays
    BY <1>5 DEF UserRedeems, CodeExpires, DeadlinePasses
  <1>6. ASSUME GatewayStarts \/ GatewayRooms \/ GatewayPersists \/ GatewayStops
        PROVE  BusyStays
    BY <1>6 DEF GatewayStarts, GatewayRooms, GatewayPersists, GatewayStops
  <1> QED  BY <1>1, <1>2, <1>3, <1>4, <1>5, <1>6, Zenon DEF Next, ProcStep

LEMMA BudgetStep ==
  ASSUME TypeOK, Budget, Next
  PROVE  Budget'
  <1>1. minted \in Nat /\ commands \in Nat
    BY DEF TypeOK
  <1>2. IsFiniteSet(Busy) /\ Cardinality(Busy) \in Nat
    BY BusyFinite
  <1>3. CASE BusyStays
    <2>1. Cardinality(Busy') <= Cardinality(Busy) /\ Cardinality(Busy') \in Nat
      BY <1>2, <1>3, FS_Subset, FS_CardinalityType DEF BusyStays
    <2> QED  BY <1>1, <1>2, <1>3, <2>1 DEF BusyStays, Budget
  <1>4. ASSUME NEW p \in Procs, BusyGrows(p) PROVE Budget'
    <2>1. /\ IsFiniteSet(Busy \cup {p})
          /\ Cardinality(Busy \cup {p}) <= Cardinality(Busy) + 1
      <3>1. /\ IsFiniteSet(Busy \cup {p})
            /\ \/ Cardinality(Busy \cup {p}) = Cardinality(Busy)
               \/ Cardinality(Busy \cup {p}) = Cardinality(Busy) + 1
        BY <1>2, FS_AddElement, Zenon
      <3> QED  BY <1>2, <3>1
    <2>2. /\ Cardinality(Busy') <= Cardinality(Busy \cup {p})
          /\ Cardinality(Busy') \in Nat /\ Cardinality(Busy \cup {p}) \in Nat
      BY <1>4, <2>1, FS_Subset, FS_CardinalityType DEF BusyGrows
    <2> QED  BY <1>1, <1>2, <1>4, <2>1, <2>2 DEF BusyGrows, Budget
  <1>5. ASSUME NEW p \in Procs, BusyMints(p) PROVE Budget'
    <2>1. Cardinality(Busy') = Cardinality(Busy) - 1
      BY <1>2, <1>5, FS_RemoveElement DEF BusyMints
    <2> QED  BY <1>1, <1>2, <1>5, <2>1 DEF BusyMints, Budget
  <1> QED  BY BusyStep, <1>3, <1>4, <1>5

LEMMA RoomToMint ==
  ASSUME TypeOK, Budget, NEW p \in Procs, pc[p] = "redeem"
  PROVE  minted + 1 \in Minted
  <1>1. p \in Busy
    BY DEF Busy
  <1>2. Cardinality(Busy) # 0 /\ Cardinality(Busy) \in Nat
    BY <1>1, BusyFinite, FS_EmptySet
  <1> QED  BY <1>2, OnboardingAssumption DEF Budget, TypeOK, Minted

-----------------------------------------------------------------------------
(* Type correctness, in four parts *)

FileTypes ==
    /\ creds \in Owners /\ plugin \in Minted \cup {None} /\ config \in BOOLEAN
    /\ store \in Owners /\ roomsOf \in Owners
    /\ gw \in {"down", "rooms", "up", "stuck"} /\ runs \in Owners
    /\ gw # "down" => runs # None
    /\ mixed \in BOOLEAN

CountTypes ==
    /\ minted \in 0..MaxCommands /\ spent \in 0..MaxCommands
    /\ commands \in 0..MaxCommands /\ faults \in 0..MaxFaults

CommandTypes ==
    /\ code \in [Procs -> CodeStates]
    /\ pc \in [Procs -> Places] /\ as \in [Procs -> Owners]
    /\ asId \in [Procs -> Minted \cup {None}] /\ keyed \in [Procs -> Owners]
    /\ target \in [Procs -> Owners]
    /\ deadline \in [Procs -> BOOLEAN] /\ said \in [Procs -> Owners]

Invitations == invited \subseteq Identities \X {"control", "space"}

LEMMA TypeParts == TypeOK <=> FileTypes /\ CountTypes /\ CommandTypes /\ Invitations
  BY DEF TypeOK, FileTypes, CountTypes, CommandTypes, Invitations

LEMMA FileTypesStep ==
  ASSUME TypeOK, Budget, Next
  PROVE  FileTypes'
  <1> USE OnboardingAssumption DEF FileTypes, TypeOK, files, gateway, server, reading, pairing,
       counts, history, Owners, Identities, Given, None
  <1>1. ASSUME NEW p \in Procs, SetupDirect(p) PROVE FileTypes'
    BY <1>1 DEF SetupDirect, Starts, Reads, SaveCredentials, GoTo
  <1>2. ASSUME NEW p \in Procs, SetupSelfRedeem(p) PROVE FileTypes'
    BY <1>2 DEF SetupSelfRedeem, Starts, Reads, GoTo
  <1>3. ASSUME NEW p \in Procs, Migrate(p) PROVE FileTypes'
    BY <1>3 DEF Migrate, Starts, Reads, GoTo
  <1>4. ASSUME NEW p \in Procs, Reset(p) PROVE FileTypes'
    BY <1>4 DEF Reset, Starts, Reads, GoTo
  <1>5. ASSUME NEW p \in Procs, Pair(p) PROVE FileTypes'
    BY <1>5 DEF Pair, Starts, PairOrEnd, Reads, Drops, GoTo
  <1>6. ASSUME NEW p \in Procs, Refused(p) PROVE FileTypes'
    BY <1>6 DEF Refused, Ends, Drops, GoTo
  <1>7. ASSUME NEW p \in Procs, GatePasses(p) PROVE FileTypes'
    BY <1>7 DEF GatePasses, GoTo
  <1>8. ASSUME NEW p \in Procs, RedeemPlugin(p) PROVE FileTypes'
    BY <1>8, RoomToMint DEF RedeemPlugin, SaveCredentials, GoTo
  <1>9. ASSUME NEW p \in Procs, RedeemLost(p) PROVE FileTypes'
    BY <1>9 DEF RedeemLost, Drops, Fault, GoTo
  <1>10. ASSUME NEW p \in Procs, WriteConfig(p) PROVE FileTypes'
    BY <1>10 DEF WriteConfig, PairOrEnd, Reads, Drops, GoTo
  <1>11. ASSUME NEW p \in Procs, ResetState(p) PROVE FileTypes'
    BY <1>11 DEF ResetState, Drops, Fault, GoTo
  <1>12. ASSUME NEW p \in Procs, RegisterUser(p) PROVE FileTypes'
    BY <1>12 DEF RegisterUser, BotOf, GoTo
  <1>13. ASSUME NEW p \in Procs, PollsOn(p) PROVE FileTypes'
    BY <1>13 DEF PollsOn, Ends, Drops, GoTo
  <1>14. ASSUME NEW p \in Procs, InviteControl(p) PROVE FileTypes'
    BY <1>14 DEF InviteControl, Invites, GoTo
  <1>15. ASSUME NEW p \in Procs, InviteSpace(p) PROVE FileTypes'
    BY <1>15 DEF InviteSpace, Invites, Ends, Drops, GoTo
  <1>16. ASSUME NEW p \in Procs, CreateRoom(p) PROVE FileTypes'
    BY <1>16 DEF CreateRoom, Ends, Drops, GoTo
  <1>17. ASSUME NEW p \in Procs, InviteFails(p) PROVE FileTypes'
    BY <1>17 DEF InviteFails, Fault, Ends, Drops, GoTo
  <1>18. ASSUME NEW p \in Procs, PollAnswered(p) PROVE FileTypes'
    BY <1>18 DEF PollAnswered, Ends, Drops, GoTo
  <1>19. ASSUME NEW p \in Procs, ConnectHangs(p) PROVE FileTypes'
    BY <1>19 DEF ConnectHangs, Drops, Fault, GoTo
  <1>20. ASSUME NEW p \in Procs, CommandDies(p) PROVE FileTypes'
    BY <1>20 DEF CommandDies, Fault, Ends, Drops, GoTo
  <1>21. ASSUME NEW p \in Procs, UserRedeems(p) PROVE FileTypes'
    BY <1>21 DEF UserRedeems
  <1>22. ASSUME NEW p \in Procs, CodeExpires(p) PROVE FileTypes'
    BY <1>22 DEF CodeExpires
  <1>23. ASSUME NEW p \in Procs, DeadlinePasses(p) PROVE FileTypes'
    BY <1>23 DEF DeadlinePasses
  <1>24. ASSUME GatewayStarts PROVE FileTypes'
    BY <1>24 DEF GatewayStarts
  <1>25. ASSUME GatewayRooms PROVE FileTypes'
    BY <1>25 DEF GatewayRooms
  <1>26. ASSUME GatewayPersists PROVE FileTypes'
    BY <1>26 DEF GatewayPersists
  <1>27. ASSUME GatewayStops PROVE FileTypes'
    BY <1>27 DEF GatewayStops
  <1>28. ASSUME NEW p \in Procs, SaveTorn(p) PROVE FileTypes'
    BY <1>28 DEF SaveTorn, Drops, Fault, GoTo
  <1> QED  BY <1>1, <1>2, <1>3, <1>4, <1>5, <1>6, <1>7, <1>8, <1>9, <1>10, <1>11,
       <1>12, <1>13, <1>14, <1>15, <1>16, <1>17, <1>18, <1>19, <1>20, <1>21, <1>22,
       <1>23, <1>24, <1>25, <1>26, <1>27, <1>28, Zenon DEF Next, ProcStep

LEMMA CountTypesStep ==
  ASSUME CountTypes, TypeOK, Budget, BotsAccountedFor, Next
  PROVE  CountTypes'
  <1> USE OnboardingAssumption DEF CountTypes, files, gateway, server, reading, pairing,
       counts, history, BotsAccountedFor, Minted
  <1>1. ASSUME NEW p \in Procs, SetupDirect(p) PROVE CountTypes'
    BY <1>1 DEF SetupDirect, Starts, Reads, SaveCredentials, GoTo
  <1>2. ASSUME NEW p \in Procs, SetupSelfRedeem(p) PROVE CountTypes'
    BY <1>2 DEF SetupSelfRedeem, Starts, Reads, GoTo
  <1>3. ASSUME NEW p \in Procs, Migrate(p) PROVE CountTypes'
    BY <1>3 DEF Migrate, Starts, Reads, GoTo
  <1>4. ASSUME NEW p \in Procs, Reset(p) PROVE CountTypes'
    BY <1>4 DEF Reset, Starts, Reads, GoTo
  <1>5. ASSUME NEW p \in Procs, Pair(p) PROVE CountTypes'
    BY <1>5 DEF Pair, Starts, PairOrEnd, Reads, Drops, GoTo
  <1>6. ASSUME NEW p \in Procs, Refused(p) PROVE CountTypes'
    BY <1>6 DEF Refused, Ends, Drops, GoTo
  <1>7. ASSUME NEW p \in Procs, GatePasses(p) PROVE CountTypes'
    BY <1>7 DEF GatePasses, GoTo
  <1>8. ASSUME NEW p \in Procs, RedeemPlugin(p) PROVE CountTypes'
    <2>1. minted + 1 \in Minted
      BY <1>8, RoomToMint DEF RedeemPlugin
    <2>2. /\ minted' = minted + 1
          /\ spent' \in {spent, IF creds \in Minted THEN spent + 1 ELSE spent}
          /\ UNCHANGED <<commands, faults>>
      BY <1>8 DEF RedeemPlugin
    <2> QED  BY <2>1, <2>2
  <1>9. ASSUME NEW p \in Procs, RedeemLost(p) PROVE CountTypes'
    BY <1>9, RoomToMint DEF RedeemLost, Drops, Fault, GoTo
  <1>10. ASSUME NEW p \in Procs, WriteConfig(p) PROVE CountTypes'
    BY <1>10 DEF WriteConfig, PairOrEnd, Reads, Drops, GoTo
  <1>11. ASSUME NEW p \in Procs, ResetState(p) PROVE CountTypes'
    BY <1>11 DEF ResetState, Drops, Fault, GoTo
  <1>12. ASSUME NEW p \in Procs, RegisterUser(p) PROVE CountTypes'
    BY <1>12 DEF RegisterUser, BotOf, GoTo
  <1>13. ASSUME NEW p \in Procs, PollsOn(p) PROVE CountTypes'
    BY <1>13 DEF PollsOn, Ends, Drops, GoTo
  <1>14. ASSUME NEW p \in Procs, InviteControl(p) PROVE CountTypes'
    BY <1>14 DEF InviteControl, Invites, GoTo
  <1>15. ASSUME NEW p \in Procs, InviteSpace(p) PROVE CountTypes'
    BY <1>15 DEF InviteSpace, Invites, Ends, Drops, GoTo
  <1>16. ASSUME NEW p \in Procs, CreateRoom(p) PROVE CountTypes'
    BY <1>16 DEF CreateRoom, Ends, Drops, GoTo
  <1>17. ASSUME NEW p \in Procs, InviteFails(p) PROVE CountTypes'
    <2>1. faults' = faults \/ Fault
      BY <1>17 DEF InviteFails
    <2> QED  BY <1>17, <2>1 DEF InviteFails, Fault, Ends
  <1>18. ASSUME NEW p \in Procs, PollAnswered(p) PROVE CountTypes'
    BY <1>18 DEF PollAnswered, Ends, Drops, GoTo
  <1>19. ASSUME NEW p \in Procs, ConnectHangs(p) PROVE CountTypes'
    BY <1>19 DEF ConnectHangs, Drops, Fault, GoTo
  <1>20. ASSUME NEW p \in Procs, CommandDies(p) PROVE CountTypes'
    BY <1>20 DEF CommandDies, Fault, Ends, Drops, GoTo
  <1>21. ASSUME NEW p \in Procs, UserRedeems(p) PROVE CountTypes'
    BY <1>21 DEF UserRedeems
  <1>22. ASSUME NEW p \in Procs, CodeExpires(p) PROVE CountTypes'
    BY <1>22 DEF CodeExpires
  <1>23. ASSUME NEW p \in Procs, DeadlinePasses(p) PROVE CountTypes'
    BY <1>23 DEF DeadlinePasses
  <1>24. ASSUME GatewayStarts PROVE CountTypes'
    BY <1>24 DEF GatewayStarts
  <1>25. ASSUME GatewayRooms PROVE CountTypes'
    BY <1>25 DEF GatewayRooms
  <1>26. ASSUME GatewayPersists PROVE CountTypes'
    BY <1>26 DEF GatewayPersists
  <1>27. ASSUME GatewayStops PROVE CountTypes'
    BY <1>27 DEF GatewayStops
  <1>28. ASSUME NEW p \in Procs, SaveTorn(p) PROVE CountTypes'
    BY <1>28 DEF SaveTorn, Drops, Fault, GoTo
  <1> QED  BY <1>1, <1>2, <1>3, <1>4, <1>5, <1>6, <1>7, <1>8, <1>9, <1>10, <1>11,
       <1>12, <1>13, <1>14, <1>15, <1>16, <1>17, <1>18, <1>19, <1>20, <1>21, <1>22,
       <1>23, <1>24, <1>25, <1>26, <1>27, <1>28, Zenon DEF Next, ProcStep

LEMMA CommandTypesStep ==
  ASSUME CommandTypes, creds \in Owners, plugin \in Minted \cup {None}, roomsOf \in Owners,
         None \in Owners, Next
  PROVE  CommandTypes'
  <1> USE DEF CommandTypes, files, gateway, server, reading, pairing, counts, history, Places,
       CodeStates
  <1>1. ASSUME NEW p \in Procs, SetupDirect(p) PROVE CommandTypes'
    BY <1>1 DEF SetupDirect, Starts, Reads, SaveCredentials, GoTo
  <1>2. ASSUME NEW p \in Procs, SetupSelfRedeem(p) PROVE CommandTypes'
    BY <1>2 DEF SetupSelfRedeem, Starts, Reads, GoTo
  <1>3. ASSUME NEW p \in Procs, Migrate(p) PROVE CommandTypes'
    BY <1>3 DEF Migrate, Starts, Reads, GoTo
  <1>4. ASSUME NEW p \in Procs, Reset(p) PROVE CommandTypes'
    BY <1>4 DEF Reset, Starts, Reads, GoTo
  <1>5. ASSUME NEW p \in Procs, Pair(p) PROVE CommandTypes'
    BY <1>5 DEF Pair, Starts, PairOrEnd, Reads, Drops, GoTo
  <1>6. ASSUME NEW p \in Procs, Refused(p) PROVE CommandTypes'
    BY <1>6 DEF Refused, Ends, Drops, GoTo
  <1>7. ASSUME NEW p \in Procs, GatePasses(p) PROVE CommandTypes'
    BY <1>7 DEF GatePasses, GoTo
  <1>8. ASSUME NEW p \in Procs, RedeemPlugin(p) PROVE CommandTypes'
    BY <1>8 DEF RedeemPlugin, SaveCredentials, GoTo
  <1>9. ASSUME NEW p \in Procs, RedeemLost(p) PROVE CommandTypes'
    BY <1>9 DEF RedeemLost, Drops, Fault, GoTo
  <1>10. ASSUME NEW p \in Procs, WriteConfig(p) PROVE CommandTypes'
    <2>1. CASE PairOrEnd(p)
      BY <1>10, <2>1 DEF WriteConfig, PairOrEnd, Reads, GoTo
    <2>2. CASE GoTo(p, "idle") /\ Drops(p)
      BY <1>10, <2>2 DEF WriteConfig, Drops, GoTo
    <2> QED  BY <1>10, <2>1, <2>2 DEF WriteConfig
  <1>11. ASSUME NEW p \in Procs, ResetState(p) PROVE CommandTypes'
    BY <1>11 DEF ResetState, Drops, Fault, GoTo
  <1>12. ASSUME NEW p \in Procs, RegisterUser(p) PROVE CommandTypes'
    <2>1. BotOf(asId[p]) \in Owners
      BY DEF BotOf, Owners, Identities
    <2> QED  BY <1>12, <2>1 DEF RegisterUser, GoTo
  <1>13. ASSUME NEW p \in Procs, PollsOn(p) PROVE CommandTypes'
    BY <1>13 DEF PollsOn, Ends, Drops, GoTo
  <1>14. ASSUME NEW p \in Procs, InviteControl(p) PROVE CommandTypes'
    BY <1>14 DEF InviteControl, Invites, GoTo
  <1>15. ASSUME NEW p \in Procs, InviteSpace(p) PROVE CommandTypes'
    BY <1>15 DEF InviteSpace, Invites, Ends, Drops, GoTo
  <1>16. ASSUME NEW p \in Procs, CreateRoom(p) PROVE CommandTypes'
    BY <1>16 DEF CreateRoom, Ends, Drops, GoTo
  <1>17. ASSUME NEW p \in Procs, InviteFails(p) PROVE CommandTypes'
    BY <1>17 DEF InviteFails, Fault, Ends, Drops, GoTo
  <1>18. ASSUME NEW p \in Procs, PollAnswered(p) PROVE CommandTypes'
    <2>1. CASE Ends(p, None)
      BY <2>1 DEF Ends, Drops, GoTo
    <2>2. CASE /\ target' = [target EXCEPT ![p] = roomsOf]
               /\ GoTo(p, IF roomsOf = None THEN "dm" ELSE "control")
               /\ UNCHANGED <<code, as, asId, deadline, said, keyed>>
      BY <2>2 DEF GoTo
    <2> QED  BY <1>18, <2>1, <2>2 DEF PollAnswered
  <1>19. ASSUME NEW p \in Procs, ConnectHangs(p) PROVE CommandTypes'
    BY <1>19 DEF ConnectHangs, Drops, Fault, GoTo
  <1>20. ASSUME NEW p \in Procs, CommandDies(p) PROVE CommandTypes'
    BY <1>20 DEF CommandDies, Fault, Ends, Drops, GoTo
  <1>21. ASSUME NEW p \in Procs, UserRedeems(p) PROVE CommandTypes'
    BY <1>21 DEF UserRedeems
  <1>22. ASSUME NEW p \in Procs, CodeExpires(p) PROVE CommandTypes'
    BY <1>22 DEF CodeExpires
  <1>23. ASSUME NEW p \in Procs, DeadlinePasses(p) PROVE CommandTypes'
    BY <1>23 DEF DeadlinePasses
  <1>24. ASSUME GatewayStarts PROVE CommandTypes'
    BY <1>24 DEF GatewayStarts
  <1>25. ASSUME GatewayRooms PROVE CommandTypes'
    BY <1>25 DEF GatewayRooms
  <1>26. ASSUME GatewayPersists PROVE CommandTypes'
    BY <1>26 DEF GatewayPersists
  <1>27. ASSUME GatewayStops PROVE CommandTypes'
    BY <1>27 DEF GatewayStops
  <1>28. ASSUME NEW p \in Procs, SaveTorn(p) PROVE CommandTypes'
    BY <1>28 DEF SaveTorn, Drops, Fault, GoTo
  <1> QED  BY <1>1, <1>2, <1>3, <1>4, <1>5, <1>6, <1>7, <1>8, <1>9, <1>10, <1>11,
       <1>12, <1>13, <1>14, <1>15, <1>16, <1>17, <1>18, <1>19, <1>20, <1>21, <1>22,
       <1>23, <1>24, <1>25, <1>26, <1>27, <1>28, Zenon DEF Next, ProcStep

LEMMA InvitationsStep ==
  ASSUME Invitations, Paired, CommandTypes, Next
  PROVE  Invitations'
  <1> USE DEF Invitations, files, gateway, server, reading, pairing, counts, history
  <1>1. ASSUME NEW p \in Procs, SetupDirect(p) PROVE Invitations'
    BY <1>1 DEF SetupDirect, Starts, Reads, SaveCredentials, GoTo
  <1>2. ASSUME NEW p \in Procs, SetupSelfRedeem(p) PROVE Invitations'
    BY <1>2 DEF SetupSelfRedeem, Starts, Reads, GoTo
  <1>3. ASSUME NEW p \in Procs, Migrate(p) PROVE Invitations'
    BY <1>3 DEF Migrate, Starts, Reads, GoTo
  <1>4. ASSUME NEW p \in Procs, Reset(p) PROVE Invitations'
    BY <1>4 DEF Reset, Starts, Reads, GoTo
  <1>5. ASSUME NEW p \in Procs, Pair(p) PROVE Invitations'
    BY <1>5 DEF Pair, Starts, PairOrEnd, Reads, Drops, GoTo
  <1>6. ASSUME NEW p \in Procs, Refused(p) PROVE Invitations'
    BY <1>6 DEF Refused, Ends, Drops, GoTo
  <1>7. ASSUME NEW p \in Procs, GatePasses(p) PROVE Invitations'
    BY <1>7 DEF GatePasses, GoTo
  <1>8. ASSUME NEW p \in Procs, RedeemPlugin(p) PROVE Invitations'
    BY <1>8 DEF RedeemPlugin, SaveCredentials, GoTo
  <1>9. ASSUME NEW p \in Procs, RedeemLost(p) PROVE Invitations'
    BY <1>9 DEF RedeemLost, Drops, Fault, GoTo
  <1>10. ASSUME NEW p \in Procs, WriteConfig(p) PROVE Invitations'
    BY <1>10 DEF WriteConfig, PairOrEnd, Reads, Drops, GoTo
  <1>11. ASSUME NEW p \in Procs, ResetState(p) PROVE Invitations'
    BY <1>11 DEF ResetState, Drops, Fault, GoTo
  <1>12. ASSUME NEW p \in Procs, RegisterUser(p) PROVE Invitations'
    BY <1>12 DEF RegisterUser, BotOf, GoTo
  <1>13. ASSUME NEW p \in Procs, PollsOn(p) PROVE Invitations'
    BY <1>13 DEF PollsOn, Ends, Drops, GoTo
  <1>14. ASSUME NEW p \in Procs, InviteControl(p) PROVE Invitations'
    <2>1. as[p] \in Identities
      BY <1>14 DEF Paired, CommandTypes, Owners, InviteControl
    <2>2. <<as[p], "control">> \in Identities \X {"control", "space"}
      BY <2>1
    <2>3. invited' = invited \cup {<<as[p], "control">>}
      BY <1>14 DEF InviteControl, Invites
    <2> QED  BY <2>2, <2>3
  <1>15. ASSUME NEW p \in Procs, InviteSpace(p) PROVE Invitations'
    <2>1. as[p] \in Identities
      BY <1>15 DEF Paired, CommandTypes, Owners, InviteSpace
    <2>2. <<as[p], "space">> \in Identities \X {"control", "space"}
      BY <2>1
    <2>3. invited' = invited \cup {<<as[p], "space">>}
      BY <1>15 DEF InviteSpace, Invites
    <2> QED  BY <2>2, <2>3
  <1>16. ASSUME NEW p \in Procs, CreateRoom(p) PROVE Invitations'
    BY <1>16 DEF CreateRoom, Ends, Drops, GoTo
  <1>17. ASSUME NEW p \in Procs, InviteFails(p) PROVE Invitations'
    <2>1. as[p] \in Identities
      BY <1>17 DEF Paired, CommandTypes, Owners, InviteFails
    <2>2. CASE UNCHANGED invited
      BY <2>2
    <2>3. CASE pc[p] # "dm" /\ invited' = invited \cup {<<as[p], pc[p]>>}
      <3>1. <<as[p], pc[p]>> \in Identities \X {"control", "space"}
        BY <1>17, <2>1, <2>3 DEF InviteFails
      <3> QED  BY <2>3, <3>1
    <2>4. pc[p] = "dm" => target[p] # as[p]
      BY <1>17 DEF Paired, InviteFails
    <2> QED  BY <1>17, <2>2, <2>3, <2>4, Zenon DEF InviteFails
  <1>18. ASSUME NEW p \in Procs, PollAnswered(p) PROVE Invitations'
    BY <1>18 DEF PollAnswered, Ends, Drops, GoTo
  <1>19. ASSUME NEW p \in Procs, ConnectHangs(p) PROVE Invitations'
    BY <1>19 DEF ConnectHangs, Drops, Fault, GoTo
  <1>20. ASSUME NEW p \in Procs, CommandDies(p) PROVE Invitations'
    BY <1>20 DEF CommandDies, Fault, Ends, Drops, GoTo
  <1>21. ASSUME NEW p \in Procs, UserRedeems(p) PROVE Invitations'
    BY <1>21 DEF UserRedeems
  <1>22. ASSUME NEW p \in Procs, CodeExpires(p) PROVE Invitations'
    BY <1>22 DEF CodeExpires
  <1>23. ASSUME NEW p \in Procs, DeadlinePasses(p) PROVE Invitations'
    BY <1>23 DEF DeadlinePasses
  <1>24. ASSUME GatewayStarts PROVE Invitations'
    BY <1>24 DEF GatewayStarts
  <1>25. ASSUME GatewayRooms PROVE Invitations'
    BY <1>25 DEF GatewayRooms
  <1>26. ASSUME GatewayPersists PROVE Invitations'
    BY <1>26 DEF GatewayPersists
  <1>27. ASSUME GatewayStops PROVE Invitations'
    BY <1>27 DEF GatewayStops
  <1>28. ASSUME NEW p \in Procs, SaveTorn(p) PROVE Invitations'
    BY <1>28 DEF SaveTorn, Drops, Fault, GoTo
  <1> QED  BY <1>1, <1>2, <1>3, <1>4, <1>5, <1>6, <1>7, <1>8, <1>9, <1>10, <1>11,
       <1>12, <1>13, <1>14, <1>15, <1>16, <1>17, <1>18, <1>19, <1>20, <1>21, <1>22,
       <1>23, <1>24, <1>25, <1>26, <1>27, <1>28, Zenon DEF Next, ProcStep

-----------------------------------------------------------------------------
(* The other parts of the invariant *)

LEMMA BooksStep ==
  ASSUME TypeOK, Budget, Paired, BotsAccountedFor, Next
  PROVE  BotsAccountedFor'
  <1> USE DEF BotsAccountedFor, TypeOK, files, gateway, server, reading, pairing, counts,
       history, Owners, Identities, Minted, Given, None
  <1>1. ASSUME NEW p \in Procs, SetupDirect(p) PROVE BotsAccountedFor'
    <2>1. Given \notin Minted
      BY OnboardingAssumption
    <2>2. creds' = Given /\ minted' = minted /\ spent' = IF creds \in Minted THEN
         spent + 1 ELSE spent
      BY <1>1 DEF SetupDirect, Starts, Reads, SaveCredentials
    <2> QED  BY <2>1, <2>2
  <1>2. ASSUME NEW p \in Procs, SetupSelfRedeem(p) PROVE BotsAccountedFor'
    BY <1>2 DEF SetupSelfRedeem, Starts, Reads, GoTo
  <1>3. ASSUME NEW p \in Procs, Migrate(p) PROVE BotsAccountedFor'
    BY <1>3 DEF Migrate, Starts, Reads, GoTo
  <1>4. ASSUME NEW p \in Procs, Reset(p) PROVE BotsAccountedFor'
    BY <1>4 DEF Reset, Starts, Reads, GoTo
  <1>5. ASSUME NEW p \in Procs, Pair(p) PROVE BotsAccountedFor'
    BY <1>5 DEF Pair, Starts, PairOrEnd, Reads, Drops, GoTo
  <1>6. ASSUME NEW p \in Procs, Refused(p) PROVE BotsAccountedFor'
    BY <1>6 DEF Refused, Ends, Drops, GoTo
  <1>7. ASSUME NEW p \in Procs, GatePasses(p) PROVE BotsAccountedFor'
    BY <1>7 DEF GatePasses, GoTo
  <1>8. ASSUME NEW p \in Procs, RedeemPlugin(p) PROVE BotsAccountedFor'
    <2>1. minted + 1 \in Minted /\ as[p] = None
      BY <1>8, RoomToMint DEF RedeemPlugin, Paired
    <2>2. creds' = minted + 1 /\ minted' = minted + 1 /\ spent' = IF creds \in Minted
         THEN spent + 1 ELSE spent
      BY <1>8, <2>1 DEF RedeemPlugin, SaveCredentials
    <2> QED  BY <2>1, <2>2
  <1>9. ASSUME NEW p \in Procs, RedeemLost(p) PROVE BotsAccountedFor'
    BY <1>9 DEF RedeemLost, Drops, Fault, GoTo
  <1>10. ASSUME NEW p \in Procs, WriteConfig(p) PROVE BotsAccountedFor'
    BY <1>10 DEF WriteConfig, PairOrEnd, Reads, Drops, GoTo
  <1>11. ASSUME NEW p \in Procs, ResetState(p) PROVE BotsAccountedFor'
    BY <1>11 DEF ResetState, Drops, Fault, GoTo
  <1>12. ASSUME NEW p \in Procs, RegisterUser(p) PROVE BotsAccountedFor'
    BY <1>12 DEF RegisterUser, BotOf, GoTo
  <1>13. ASSUME NEW p \in Procs, PollsOn(p) PROVE BotsAccountedFor'
    BY <1>13 DEF PollsOn, Ends, Drops, GoTo
  <1>14. ASSUME NEW p \in Procs, InviteControl(p) PROVE BotsAccountedFor'
    BY <1>14 DEF InviteControl, Invites, GoTo
  <1>15. ASSUME NEW p \in Procs, InviteSpace(p) PROVE BotsAccountedFor'
    BY <1>15 DEF InviteSpace, Invites, Ends, Drops, GoTo
  <1>16. ASSUME NEW p \in Procs, CreateRoom(p) PROVE BotsAccountedFor'
    BY <1>16 DEF CreateRoom, Ends, Drops, GoTo
  <1>17. ASSUME NEW p \in Procs, InviteFails(p) PROVE BotsAccountedFor'
    BY <1>17 DEF InviteFails, Fault, Ends, Drops, GoTo
  <1>18. ASSUME NEW p \in Procs, PollAnswered(p) PROVE BotsAccountedFor'
    BY <1>18 DEF PollAnswered, Ends, Drops, GoTo
  <1>19. ASSUME NEW p \in Procs, ConnectHangs(p) PROVE BotsAccountedFor'
    BY <1>19 DEF ConnectHangs, Drops, Fault, GoTo
  <1>20. ASSUME NEW p \in Procs, CommandDies(p) PROVE BotsAccountedFor'
    BY <1>20 DEF CommandDies, Fault, Ends, Drops, GoTo
  <1>21. ASSUME NEW p \in Procs, UserRedeems(p) PROVE BotsAccountedFor'
    BY <1>21 DEF UserRedeems
  <1>22. ASSUME NEW p \in Procs, CodeExpires(p) PROVE BotsAccountedFor'
    BY <1>22 DEF CodeExpires
  <1>23. ASSUME NEW p \in Procs, DeadlinePasses(p) PROVE BotsAccountedFor'
    BY <1>23 DEF DeadlinePasses
  <1>24. ASSUME GatewayStarts PROVE BotsAccountedFor'
    BY <1>24 DEF GatewayStarts
  <1>25. ASSUME GatewayRooms PROVE BotsAccountedFor'
    BY <1>25 DEF GatewayRooms
  <1>26. ASSUME GatewayPersists PROVE BotsAccountedFor'
    BY <1>26 DEF GatewayPersists
  <1>27. ASSUME GatewayStops PROVE BotsAccountedFor'
    BY <1>27 DEF GatewayStops
  <1>28. ASSUME NEW p \in Procs, SaveTorn(p) PROVE BotsAccountedFor'
    BY <1>28 DEF SaveTorn, Drops, Fault, GoTo
  <1> QED  BY <1>1, <1>2, <1>3, <1>4, <1>5, <1>6, <1>7, <1>8, <1>9, <1>10, <1>11,
       <1>12, <1>13, <1>14, <1>15, <1>16, <1>17, <1>18, <1>19, <1>20, <1>21, <1>22,
       <1>23, <1>24, <1>25, <1>26, <1>27, <1>28, Zenon DEF Next, ProcStep

LEMMA PairedStep ==
  ASSUME TypeOK, Paired, Next
  PROVE  Paired'
  <1> USE DEF Paired, TypeOK, files, gateway, server, reading, pairing, counts, history, None
  <1>1. ASSUME NEW p \in Procs, SetupDirect(p) PROVE Paired'
    BY <1>1 DEF SetupDirect, Starts, Reads, SaveCredentials, GoTo
  <1>2. ASSUME NEW p \in Procs, SetupSelfRedeem(p) PROVE Paired'
    BY <1>2 DEF SetupSelfRedeem, Starts, Reads, GoTo
  <1>3. ASSUME NEW p \in Procs, Migrate(p) PROVE Paired'
    BY <1>3 DEF Migrate, Starts, Reads, GoTo
  <1>4. ASSUME NEW p \in Procs, Reset(p) PROVE Paired'
    BY <1>4 DEF Reset, Starts, Reads, GoTo
  <1>5. ASSUME NEW p \in Procs, Pair(p) PROVE Paired'
    BY <1>5 DEF Pair, Starts, PairOrEnd, Reads, Drops, GoTo
  <1>6. ASSUME NEW p \in Procs, Refused(p) PROVE Paired'
    BY <1>6 DEF Refused, Ends, Drops, GoTo
  <1>7. ASSUME NEW p \in Procs, GatePasses(p) PROVE Paired'
    BY <1>7 DEF GatePasses, GoTo
  <1>8. ASSUME NEW p \in Procs, RedeemPlugin(p) PROVE Paired'
    BY <1>8 DEF RedeemPlugin, SaveCredentials, GoTo
  <1>9. ASSUME NEW p \in Procs, RedeemLost(p) PROVE Paired'
    BY <1>9 DEF RedeemLost, Drops, Fault, GoTo
  <1>10. ASSUME NEW p \in Procs, WriteConfig(p) PROVE Paired'
    BY <1>10 DEF WriteConfig, PairOrEnd, Reads, Drops, GoTo
  <1>11. ASSUME NEW p \in Procs, ResetState(p) PROVE Paired'
    BY <1>11 DEF ResetState, Drops, Fault, GoTo
  <1>12. ASSUME NEW p \in Procs, RegisterUser(p) PROVE Paired'
    BY <1>12 DEF RegisterUser, BotOf, GoTo
  <1>13. ASSUME NEW p \in Procs, PollsOn(p) PROVE Paired'
    BY <1>13 DEF PollsOn, Ends, Drops, GoTo
  <1>14. ASSUME NEW p \in Procs, InviteControl(p) PROVE Paired'
    BY <1>14 DEF InviteControl, Invites, GoTo
  <1>15. ASSUME NEW p \in Procs, InviteSpace(p) PROVE Paired'
    BY <1>15 DEF InviteSpace, Invites, Ends, Drops, GoTo
  <1>16. ASSUME NEW p \in Procs, CreateRoom(p) PROVE Paired'
    BY <1>16 DEF CreateRoom, Ends, Drops, GoTo
  <1>17. ASSUME NEW p \in Procs, InviteFails(p) PROVE Paired'
    BY <1>17 DEF InviteFails, Fault, Ends, Drops, GoTo
  <1>18. ASSUME NEW p \in Procs, PollAnswered(p) PROVE Paired'
    BY <1>18 DEF PollAnswered, Ends, Drops, GoTo
  <1>19. ASSUME NEW p \in Procs, ConnectHangs(p) PROVE Paired'
    BY <1>19 DEF ConnectHangs, Drops, Fault, GoTo
  <1>20. ASSUME NEW p \in Procs, CommandDies(p) PROVE Paired'
    BY <1>20 DEF CommandDies, Fault, Ends, Drops, GoTo
  <1>21. ASSUME NEW p \in Procs, UserRedeems(p) PROVE Paired'
    BY <1>21 DEF UserRedeems
  <1>22. ASSUME NEW p \in Procs, CodeExpires(p) PROVE Paired'
    BY <1>22 DEF CodeExpires
  <1>23. ASSUME NEW p \in Procs, DeadlinePasses(p) PROVE Paired'
    BY <1>23 DEF DeadlinePasses
  <1>24. ASSUME GatewayStarts PROVE Paired'
    BY <1>24 DEF GatewayStarts
  <1>25. ASSUME GatewayRooms PROVE Paired'
    BY <1>25 DEF GatewayRooms
  <1>26. ASSUME GatewayPersists PROVE Paired'
    BY <1>26 DEF GatewayPersists
  <1>27. ASSUME GatewayStops PROVE Paired'
    BY <1>27 DEF GatewayStops
  <1>28. ASSUME NEW p \in Procs, SaveTorn(p) PROVE Paired'
    BY <1>28 DEF SaveTorn, Drops, Fault, GoTo
  <1> QED  BY <1>1, <1>2, <1>3, <1>4, <1>5, <1>6, <1>7, <1>8, <1>9, <1>10, <1>11,
       <1>12, <1>13, <1>14, <1>15, <1>16, <1>17, <1>18, <1>19, <1>20, <1>21, <1>22,
       <1>23, <1>24, <1>25, <1>26, <1>27, <1>28, Zenon DEF Next, ProcStep

LEMMA SaidStep ==
  ASSUME TypeOK, Paired, SaidInvited, Next
  PROVE  SaidInvited'
  <1> USE DEF SaidInvited, TypeOK, files, gateway, server, reading, pairing, counts, history,
       None
  <1>1. ASSUME NEW p \in Procs, SetupDirect(p) PROVE SaidInvited'
    BY <1>1 DEF SetupDirect, Starts, Reads, SaveCredentials, GoTo
  <1>2. ASSUME NEW p \in Procs, SetupSelfRedeem(p) PROVE SaidInvited'
    BY <1>2 DEF SetupSelfRedeem, Starts, Reads, GoTo
  <1>3. ASSUME NEW p \in Procs, Migrate(p) PROVE SaidInvited'
    BY <1>3 DEF Migrate, Starts, Reads, GoTo
  <1>4. ASSUME NEW p \in Procs, Reset(p) PROVE SaidInvited'
    BY <1>4 DEF Reset, Starts, Reads, GoTo
  <1>5. ASSUME NEW p \in Procs, Pair(p) PROVE SaidInvited'
    BY <1>5 DEF Pair, Starts, PairOrEnd, Reads, Drops, GoTo
  <1>6. ASSUME NEW p \in Procs, Refused(p) PROVE SaidInvited'
    BY <1>6 DEF Refused, Ends, Drops, GoTo
  <1>7. ASSUME NEW p \in Procs, GatePasses(p) PROVE SaidInvited'
    BY <1>7 DEF GatePasses, GoTo
  <1>8. ASSUME NEW p \in Procs, RedeemPlugin(p) PROVE SaidInvited'
    BY <1>8 DEF RedeemPlugin, SaveCredentials, GoTo
  <1>9. ASSUME NEW p \in Procs, RedeemLost(p) PROVE SaidInvited'
    BY <1>9 DEF RedeemLost, Drops, Fault, GoTo
  <1>10. ASSUME NEW p \in Procs, WriteConfig(p) PROVE SaidInvited'
    BY <1>10 DEF WriteConfig, PairOrEnd, Reads, Drops, GoTo
  <1>11. ASSUME NEW p \in Procs, ResetState(p) PROVE SaidInvited'
    BY <1>11 DEF ResetState, Drops, Fault, GoTo
  <1>12. ASSUME NEW p \in Procs, RegisterUser(p) PROVE SaidInvited'
    BY <1>12 DEF RegisterUser, BotOf, GoTo
  <1>13. ASSUME NEW p \in Procs, PollsOn(p) PROVE SaidInvited'
    BY <1>13 DEF PollsOn, Ends, Drops, GoTo
  <1>14. ASSUME NEW p \in Procs, InviteControl(p) PROVE SaidInvited'
    BY <1>14 DEF InviteControl, Invites, GoTo
  <1>15. ASSUME NEW p \in Procs, InviteSpace(p) PROVE SaidInvited'
    BY <1>15 DEF InviteSpace, Invites, Ends, Drops, GoTo, Paired
  <1>16. ASSUME NEW p \in Procs, CreateRoom(p) PROVE SaidInvited'
    BY <1>16 DEF CreateRoom, Ends, Drops, GoTo
  <1>17. ASSUME NEW p \in Procs, InviteFails(p) PROVE SaidInvited'
    BY <1>17 DEF InviteFails, Fault, Ends, Drops, GoTo
  <1>18. ASSUME NEW p \in Procs, PollAnswered(p) PROVE SaidInvited'
    <2>1. CASE Ends(p, None) /\ UNCHANGED <<invited, faults, history>>
      BY <2>1 DEF Ends
    <2>2. CASE UNCHANGED said /\ UNCHANGED <<invited, faults, history>>
      BY <2>2
    <2> QED  BY <1>18, <2>1, <2>2, Zenon DEF PollAnswered, Ends
  <1>19. ASSUME NEW p \in Procs, ConnectHangs(p) PROVE SaidInvited'
    BY <1>19 DEF ConnectHangs, Drops, Fault, GoTo
  <1>20. ASSUME NEW p \in Procs, CommandDies(p) PROVE SaidInvited'
    BY <1>20 DEF CommandDies, Fault, Ends, Drops, GoTo
  <1>21. ASSUME NEW p \in Procs, UserRedeems(p) PROVE SaidInvited'
    BY <1>21 DEF UserRedeems
  <1>22. ASSUME NEW p \in Procs, CodeExpires(p) PROVE SaidInvited'
    BY <1>22 DEF CodeExpires
  <1>23. ASSUME NEW p \in Procs, DeadlinePasses(p) PROVE SaidInvited'
    BY <1>23 DEF DeadlinePasses
  <1>24. ASSUME GatewayStarts PROVE SaidInvited'
    BY <1>24 DEF GatewayStarts
  <1>25. ASSUME GatewayRooms PROVE SaidInvited'
    BY <1>25 DEF GatewayRooms
  <1>26. ASSUME GatewayPersists PROVE SaidInvited'
    BY <1>26 DEF GatewayPersists
  <1>27. ASSUME GatewayStops PROVE SaidInvited'
    BY <1>27 DEF GatewayStops
  <1>28. ASSUME NEW p \in Procs, SaveTorn(p) PROVE SaidInvited'
    BY <1>28 DEF SaveTorn, Drops, Fault, GoTo
  <1> QED  BY <1>1, <1>2, <1>3, <1>4, <1>5, <1>6, <1>7, <1>8, <1>9, <1>10, <1>11,
       <1>12, <1>13, <1>14, <1>15, <1>16, <1>17, <1>18, <1>19, <1>20, <1>21, <1>22,
       <1>23, <1>24, <1>25, <1>26, <1>27, <1>28, Zenon DEF Next, ProcStep

\* The part of KeyInv that is about command p.
KeyFor(p) ==
    /\ pc[p] = "gatePair" => Suits(BotOf(asId[p]), as[p])
    /\ pc[p] \in {"poll", "control", "space"} => Suits(keyed[p], as[p])
    /\ said[p] # None => Suits(keyed[p], said[p])

\* A step of one command leaves the keys of the others as they are.
LEMMA KeptKeys ==
  ASSUME TypeOK, KeyInv, NEW p \in Procs, KeyFor(p)', mixed => mixed',
         \A q \in Procs \ {p} :
             /\ pc'[q] = pc[q] /\ as'[q] = as[q] /\ asId'[q] = asId[q]
             /\ said'[q] = said[q] /\ keyed'[q] = keyed[q],
         creds' = None => plugin' = None,
         creds' # None => Suits(BotOf(plugin), creds)'
  PROVE  KeyInv'
  <1>1. ASSUME NEW q \in Procs \ {p} PROVE KeyFor(q)'
    BY <1>1 DEF KeyFor, KeyInv, Suits, BotOf
  <1>2. \A q \in Procs : KeyFor(q)'
    BY <1>1
  <1> QED  BY <1>2 DEF KeyFor, KeyInv

\* What is said of a bot came of the code registered for it.
LEMMA KeyStep ==
  ASSUME TypeOK, Paired, KeyInv, Next
  PROVE  KeyInv'
  <1> USE OnboardingAssumption DEF KeyInv, Suits, BotOf, TypeOK, files, gateway, server,
       reading, pairing, counts, history, Owners, Identities, Minted, Given, None
  <1>1. ASSUME NEW p \in Procs, SetupDirect(p) PROVE KeyInv'
    <2>1. /\ creds' = Given /\ plugin' = plugin
          /\ mixed' = (mixed \/ creds \notin {None, Given} \/ Resetting)
      BY <1>1 DEF SetupDirect, SaveCredentials
    <2>2. plugin = None \/ mixed'
      <3>1. CASE creds = None
        BY <3>1
      <3>2. CASE creds = Given
        BY <2>1, <3>2
      <3>3. CASE creds \notin {None, Given}
        BY <2>1, <3>3
      <3> QED  BY <3>1, <3>2, <3>3
    <2>3. Given # None
      BY OnboardingAssumption
    <2>4. Suits(BotOf(plugin), Given)'
      BY <2>1, <2>2
    <2>5. /\ pc' = [pc EXCEPT ![p] = "config"] /\ as' = [as EXCEPT ![p] = creds]
          /\ asId' = [asId EXCEPT ![p] = plugin]
          /\ said' = [said EXCEPT ![p] = None] /\ keyed' = [keyed EXCEPT ![p] = None]
      BY <1>1 DEF SetupDirect, Starts, Reads, GoTo
    <2> QED  BY <2>1, <2>3, <2>4, <2>5, KeptKeys DEF KeyFor
  <1>2. ASSUME NEW p \in Procs, SetupSelfRedeem(p) PROVE KeyInv'
    BY <1>2 DEF SetupSelfRedeem, Starts, Reads, GoTo
  <1>3. ASSUME NEW p \in Procs, Migrate(p) PROVE KeyInv'
    BY <1>3 DEF Migrate, Starts, Reads, GoTo
  <1>4. ASSUME NEW p \in Procs, Reset(p) PROVE KeyInv'
    BY <1>4 DEF Reset, Starts, Reads, GoTo
  <1>5. ASSUME NEW p \in Procs, Pair(p) PROVE KeyInv'
    <2>1. /\ pc' = [pc EXCEPT ![p] = IF creds = None THEN "idle" ELSE "gatePair"]
          /\ as' = [as EXCEPT ![p] = creds] /\ asId' = [asId EXCEPT ![p] = plugin]
          /\ said' = [said EXCEPT ![p] = None] /\ keyed' = [keyed EXCEPT ![p] = None]
          /\ UNCHANGED <<creds, plugin, mixed>>
      BY <1>5 DEF Pair, Starts, PairOrEnd, Reads, GoTo
    <2> QED  BY <2>1, KeptKeys DEF KeyFor
  <1>6. ASSUME NEW p \in Procs, Refused(p) PROVE KeyInv'
    BY <1>6 DEF Refused, Ends, Drops, GoTo
  <1>7. ASSUME NEW p \in Procs, GatePasses(p) PROVE KeyInv'
    BY <1>7 DEF GatePasses, GoTo
  <1>8. ASSUME NEW p \in Procs, RedeemPlugin(p) PROVE KeyInv'
    BY <1>8 DEF RedeemPlugin, SaveCredentials, GoTo
  <1>9. ASSUME NEW p \in Procs, RedeemLost(p) PROVE KeyInv'
    BY <1>9 DEF RedeemLost, Drops, Fault, GoTo
  <1>10. ASSUME NEW p \in Procs, WriteConfig(p) PROVE KeyInv'
    <2>1. UNCHANGED <<creds, plugin, mixed, said, keyed>>
      BY <1>10 DEF WriteConfig
    <2>2. CASE PairOrEnd(p)
      <3>1. /\ pc' = [pc EXCEPT ![p] = IF creds = None THEN "idle" ELSE "gatePair"]
            /\ as' = [as EXCEPT ![p] = creds] /\ asId' = [asId EXCEPT ![p] = plugin]
        BY <2>2 DEF PairOrEnd, Reads, GoTo
      <3> QED  BY <2>1, <3>1, KeptKeys DEF KeyFor
    <2>3. CASE GoTo(p, "idle") /\ Drops(p)
      BY <2>1, <2>3, KeptKeys DEF KeyFor, Drops, GoTo
    <2> QED  BY <1>10, <2>2, <2>3 DEF WriteConfig
  <1>11. ASSUME NEW p \in Procs, ResetState(p) PROVE KeyInv'
    BY <1>11 DEF ResetState, Drops, Fault, GoTo
  <1>12. ASSUME NEW p \in Procs, RegisterUser(p) PROVE KeyInv'
    <2>1. /\ pc' = [pc EXCEPT ![p] = "poll"] /\ pc[p] = "gatePair"
          /\ keyed' = [keyed EXCEPT ![p] = BotOf(asId[p])]
          /\ UNCHANGED <<creds, plugin, mixed, as, asId, said>>
      BY <1>12 DEF RegisterUser, GoTo
    <2>2. said[p] = None
      BY <2>1 DEF Paired
    <2> QED  BY <2>1, <2>2, KeptKeys DEF KeyFor
  <1>13. ASSUME NEW p \in Procs, PollsOn(p) PROVE KeyInv'
    BY <1>13 DEF PollsOn, Ends, Drops, GoTo
  <1>14. ASSUME NEW p \in Procs, InviteControl(p) PROVE KeyInv'
    BY <1>14 DEF InviteControl, Invites, GoTo
  <1>15. ASSUME NEW p \in Procs, InviteSpace(p) PROVE KeyInv'
    BY <1>15 DEF InviteSpace, Invites, Ends, Drops, GoTo
  <1>16. ASSUME NEW p \in Procs, CreateRoom(p) PROVE KeyInv'
    BY <1>16 DEF CreateRoom, Ends, Drops, GoTo
  <1>17. ASSUME NEW p \in Procs, InviteFails(p) PROVE KeyInv'
    BY <1>17 DEF InviteFails, Fault, Ends, Drops, GoTo
  <1>18. ASSUME NEW p \in Procs, PollAnswered(p) PROVE KeyInv'
    <2>1. /\ UNCHANGED <<creds, plugin, mixed, keyed>>
      BY <1>18 DEF PollAnswered, Ends
    <2>2. CASE Ends(p, None)
      BY <2>1, <2>2, KeptKeys DEF KeyFor, Ends, Drops, GoTo
    <2>3. CASE /\ pc[p] = "poll"
               /\ GoTo(p, IF roomsOf = None THEN "dm" ELSE "control")
               /\ UNCHANGED <<as, asId, said>>
      BY <2>1, <2>3, KeptKeys DEF KeyFor, GoTo
    <2> QED  BY <1>18, <2>2, <2>3 DEF PollAnswered
  <1>19. ASSUME NEW p \in Procs, ConnectHangs(p) PROVE KeyInv'
    BY <1>19 DEF ConnectHangs, Drops, Fault, GoTo
  <1>20. ASSUME NEW p \in Procs, CommandDies(p) PROVE KeyInv'
    BY <1>20 DEF CommandDies, Fault, Ends, Drops, GoTo
  <1>21. ASSUME NEW p \in Procs, UserRedeems(p) PROVE KeyInv'
    BY <1>21 DEF UserRedeems
  <1>22. ASSUME NEW p \in Procs, CodeExpires(p) PROVE KeyInv'
    BY <1>22 DEF CodeExpires
  <1>23. ASSUME NEW p \in Procs, DeadlinePasses(p) PROVE KeyInv'
    BY <1>23 DEF DeadlinePasses
  <1>24. ASSUME GatewayStarts PROVE KeyInv'
    BY <1>24 DEF GatewayStarts
  <1>25. ASSUME GatewayRooms PROVE KeyInv'
    BY <1>25 DEF GatewayRooms
  <1>26. ASSUME GatewayPersists PROVE KeyInv'
    BY <1>26 DEF GatewayPersists
  <1>27. ASSUME GatewayStops PROVE KeyInv'
    BY <1>27 DEF GatewayStops
  <1>28. ASSUME NEW p \in Procs, SaveTorn(p) PROVE KeyInv'
    BY <1>28 DEF SaveTorn, Drops, Fault, GoTo
  <1> QED  BY <1>1, <1>2, <1>3, <1>4, <1>5, <1>6, <1>7, <1>8, <1>9, <1>10, <1>11,
       <1>12, <1>13, <1>14, <1>15, <1>16, <1>17, <1>18, <1>19, <1>20, <1>21, <1>22,
       <1>23, <1>24, <1>25, <1>26, <1>27, <1>28, Zenon DEF Next, ProcStep

LEMMA FilesStep ==
  ASSUME TypeOK, FilesInv, Next
  PROVE  FilesInv'
  <1> USE DEF FilesInv, InStep, Resetting, TypeOK, files, gateway, server, reading, pairing,
       counts, history, Owners, Identities, Minted, Given, None
  <1>1. ASSUME NEW p \in Procs, SetupDirect(p) PROVE FilesInv'
    BY <1>1 DEF SetupDirect, Starts, Reads, SaveCredentials, GoTo
  <1>2. ASSUME NEW p \in Procs, SetupSelfRedeem(p) PROVE FilesInv'
    BY <1>2 DEF SetupSelfRedeem, Starts, Reads, GoTo
  <1>3. ASSUME NEW p \in Procs, Migrate(p) PROVE FilesInv'
    BY <1>3 DEF Migrate, Starts, Reads, GoTo
  <1>4. ASSUME NEW p \in Procs, Reset(p) PROVE FilesInv'
    BY <1>4 DEF Reset, Starts, Reads, GoTo
  <1>5. ASSUME NEW p \in Procs, Pair(p) PROVE FilesInv'
    BY <1>5 DEF Pair, Starts, PairOrEnd, Reads, Drops, GoTo
  <1>6. ASSUME NEW p \in Procs, Refused(p) PROVE FilesInv'
    BY <1>6 DEF Refused, Ends, Drops, GoTo
  <1>7. ASSUME NEW p \in Procs, GatePasses(p) PROVE FilesInv'
    BY <1>7 DEF GatePasses, GoTo
  <1>8. ASSUME NEW p \in Procs, RedeemPlugin(p) PROVE FilesInv'
    BY <1>8 DEF RedeemPlugin, SaveCredentials, GoTo
  <1>9. ASSUME NEW p \in Procs, RedeemLost(p) PROVE FilesInv'
    BY <1>9 DEF RedeemLost, Drops, Fault, GoTo
  <1>10. ASSUME NEW p \in Procs, WriteConfig(p) PROVE FilesInv'
    BY <1>10 DEF WriteConfig, PairOrEnd, Reads, Drops, GoTo
  <1>11. ASSUME NEW p \in Procs, ResetState(p) PROVE FilesInv'
    BY <1>11 DEF ResetState, Drops, Fault, GoTo
  <1>12. ASSUME NEW p \in Procs, RegisterUser(p) PROVE FilesInv'
    BY <1>12 DEF RegisterUser, BotOf, GoTo
  <1>13. ASSUME NEW p \in Procs, PollsOn(p) PROVE FilesInv'
    BY <1>13 DEF PollsOn, Ends, Drops, GoTo
  <1>14. ASSUME NEW p \in Procs, InviteControl(p) PROVE FilesInv'
    BY <1>14 DEF InviteControl, Invites, GoTo
  <1>15. ASSUME NEW p \in Procs, InviteSpace(p) PROVE FilesInv'
    BY <1>15 DEF InviteSpace, Invites, Ends, Drops, GoTo
  <1>16. ASSUME NEW p \in Procs, CreateRoom(p) PROVE FilesInv'
    BY <1>16 DEF CreateRoom, Ends, Drops, GoTo
  <1>17. ASSUME NEW p \in Procs, InviteFails(p) PROVE FilesInv'
    BY <1>17 DEF InviteFails, Fault, Ends, Drops, GoTo
  <1>18. ASSUME NEW p \in Procs, PollAnswered(p) PROVE FilesInv'
    BY <1>18 DEF PollAnswered, Ends, Drops, GoTo
  <1>19. ASSUME NEW p \in Procs, ConnectHangs(p) PROVE FilesInv'
    BY <1>19 DEF ConnectHangs, Drops, Fault, GoTo
  <1>20. ASSUME NEW p \in Procs, CommandDies(p) PROVE FilesInv'
    BY <1>20 DEF CommandDies, Fault, Ends, Drops, GoTo
  <1>21. ASSUME NEW p \in Procs, UserRedeems(p) PROVE FilesInv'
    BY <1>21 DEF UserRedeems
  <1>22. ASSUME NEW p \in Procs, CodeExpires(p) PROVE FilesInv'
    BY <1>22 DEF CodeExpires
  <1>23. ASSUME NEW p \in Procs, DeadlinePasses(p) PROVE FilesInv'
    BY <1>23 DEF DeadlinePasses
  <1>24. ASSUME GatewayStarts PROVE FilesInv'
    BY <1>24 DEF GatewayStarts
  <1>25. ASSUME GatewayRooms PROVE FilesInv'
    BY <1>25 DEF GatewayRooms
  <1>26. ASSUME GatewayPersists PROVE FilesInv'
    BY <1>26 DEF GatewayPersists
  <1>27. ASSUME GatewayStops PROVE FilesInv'
    BY <1>27 DEF GatewayStops
  <1>28. ASSUME NEW p \in Procs, SaveTorn(p) PROVE FilesInv'
    BY <1>28 DEF SaveTorn, Drops, Fault, GoTo
  <1> QED  BY <1>1, <1>2, <1>3, <1>4, <1>5, <1>6, <1>7, <1>8, <1>9, <1>10, <1>11,
       <1>12, <1>13, <1>14, <1>15, <1>16, <1>17, <1>18, <1>19, <1>20, <1>21, <1>22,
       <1>23, <1>24, <1>25, <1>26, <1>27, <1>28, Zenon DEF Next, ProcStep

-----------------------------------------------------------------------------
(* The theorems *)

LEMMA IInvInit == Init => IInv
  <1> SUFFICES ASSUME Init PROVE IInv
    OBVIOUS
  <1>1. TypeOK
    <2>1. FileTypes /\ Invitations
      BY DEF Init, FileTypes, Invitations, Owners
    <2>2. CountTypes
      BY OnboardingAssumption DEF Init, CountTypes
    <2>3. CommandTypes
      BY DEF Init, CommandTypes, Owners, CodeStates, Places
    <2> QED  BY <2>1, <2>2, <2>3, TypeParts
  <1>2. Busy = {}
    BY DEF Init, Busy
  <1>3. Budget
    BY <1>2, FS_EmptySet DEF Init, Budget
  <1>4. BotsAccountedFor
    BY DEF Init, BotsAccountedFor, Minted, None
  <1>5. Paired /\ SaidInvited /\ KeyInv
    BY DEF Init, Paired, SaidInvited, KeyInv, None
  <1>6. FilesInv
    BY DEF Init, FilesInv, InStep
  <1> QED  BY <1>1, <1>3, <1>4, <1>5, <1>6 DEF IInv

LEMMA IInvStep == IInv /\ [Next]_vars => IInv'
  <1> SUFFICES ASSUME IInv, [Next]_vars PROVE IInv'
    OBVIOUS
  <1>p. /\ TypeOK /\ Budget /\ BotsAccountedFor /\ Paired
        /\ SaidInvited /\ KeyInv /\ FilesInv
    BY DEF IInv
  <1>1. CASE Next
    <2>1. FileTypes /\ CountTypes /\ CommandTypes /\ Invitations
      BY <1>p, TypeParts
    <2>2. /\ creds \in Owners /\ plugin \in Minted \cup {None} /\ roomsOf \in Owners
          /\ None \in Owners
      BY <2>1 DEF FileTypes, Owners
    <2>3. TypeOK'
      <3>1. FileTypes'
        BY <1>1, <1>p, FileTypesStep
      <3>2. CountTypes'
        BY <1>1, <1>p, <2>1, CountTypesStep
      <3>3. CommandTypes'
        BY <1>1, <2>1, <2>2, CommandTypesStep
      <3>4. Invitations'
        BY <1>1, <1>p, <2>1, InvitationsStep
      <3> QED  BY <3>1, <3>2, <3>3, <3>4 DEF TypeOK, FileTypes, CountTypes,
           CommandTypes, Invitations
    <2>4. Budget' /\ BotsAccountedFor'
      BY <1>1, <1>p, BudgetStep, BooksStep
    <2>5. Paired' /\ SaidInvited' /\ KeyInv' /\ FilesInv'
      BY <1>1, <1>p, PairedStep, SaidStep, KeyStep, FilesStep
    <2> QED  BY <2>3, <2>4, <2>5 DEF IInv
  <1>2. CASE UNCHANGED vars
    BY <1>2, <1>p DEF IInv, vars, TypeOK, Budget, Busy, BotsAccountedFor, Paired,
         SaidInvited, KeyInv, Suits, FilesInv, InStep, Resetting
  <1> QED  BY <1>1, <1>2

LEMMA Inductive == Spec => []IInv
  BY IInvInit, IInvStep, PTL DEF Spec

\* Every variable keeps its type, whatever commands, gateway and user do: a
\* command mints at most one identity, and the gateway runs only with one.
THEOREM TypeCorrect == Spec => []TypeOK
  <1>1. IInv => TypeOK
    BY DEF IInv
  <1> QED  BY Inductive, <1>1, PTL

\* Every bot account the registrar minted is the one in the credentials file,
\* or was given up in one of the named ways (bot-identity.ts:44-62, cli.ts:374).
THEOREM NoBotInVain == Spec => []BotsAccountedFor
  <1>1. IInv => BotsAccountedFor
    BY DEF IInv
  <1> QED  BY Inductive, <1>1, PTL

\* When pair says that it invited the user, both rooms of the bot hold the
\* invitation (cli.ts:471-479), and the code was registered with that bot's
\* plugin_id (cli.ts:439-447), but for a bot passed by hand after a mishap:
\* credentials, plugin_id, rooms and answers come of different times.
THEOREM InvitationsClaimedWereMade == Spec => []SaidIsInvited
  <1>1. IInv => SaidIsInvited
    BY DEF IInv, SaidInvited, KeyInv, Suits, SaidIsInvited
  <1> QED  BY Inductive, <1>1, PTL

\* A gateway meets the crypto store of another bot, or credentials with the
\* plugin_id of another, only after one of the named mishaps (cli.ts:382, 591-603,
\* credentials.ts:50).
THEOREM NoForeignState == Spec => []ForeignStateExplained
  <1>1. IInv => ForeignStateExplained
    BY DEF IInv, FilesInv, InStep, ForeignStateExplained
  <1> QED  BY Inductive, <1>1, PTL
=============================================================================
