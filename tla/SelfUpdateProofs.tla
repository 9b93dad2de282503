--------------------------- MODULE SelfUpdateProofs ---------------------------
(***************************************************************************)
(* Proofs about SelfUpdate, for any accounts, versions, number of boot     *)
(* attempts, updates, crashes and restart helpers:                         *)
(*   - TypeCorrect: Spec => []TypeOK                                       *)
(*   - HealthyStays: Spec => HealthyNeverRolledBack                        *)
(***************************************************************************)
EXTENDS SelfUpdate, TLAPS

-----------------------------------------------------------------------------
(* The inductive invariant *)

\* Without a process nothing is started, and no install has anyone to return to.
DeadInv ==
    code = 0 => /\ \A a \in Accounts : acct[a] = "off"
                /\ \A c \in Callers : upd[c] = NoUpdate

\* In a process that loaded the installed copy every account that may sync
\* guards the marker of that copy.  (An older process, boots = 0, need not.)
GuardInv ==
    boots > 0 /\ marker.to = disk =>
        \A a \in Accounts : acct[a] \in {"starting", "up"} => a \in guarding

\* The sync that made the installed copy healthy has cleared its marker.
HealthyInv == healthy => marker.to # disk

IInv == TypeOK /\ DeadInv /\ GuardInv /\ HealthyInv

-----------------------------------------------------------------------------
(* Types *)

Markers == [from : Versions, to : Versions, attempts : 0..MaxAttempts]
Updates == [from : Versions, to : Versions, restart : BOOLEAN]
AcctStates == {"off", "starting", "up", "rolling", "stopped"}

LEMMA VersionTypes ==
    /\ 1 \in Versions /\ 0 \notin Versions
    /\ NoMarker.to = 0
BY UpdateAssumption DEF Versions, NoMarker

\* A marker that names a version is a record of the file, and one that names
\* none is NoMarker.
LEMMA MarkerTypes ==
    ASSUME TypeOK
    PROVE  /\ marker # NoMarker <=> marker \in Markers
           /\ disk # 0
BY VersionTypes DEF TypeOK, Markers

LEMMA UpdTypes ==
    ASSUME TypeOK, NEW c \in Callers, upd[c] # NoUpdate
    PROVE  upd[c] \in Updates /\ upd[c].to \in Versions /\ upd[c].from \in Versions
BY DEF TypeOK, Updates

\* What the end of a process leaves.
LEMMA ProcessDiesEnds ==
    ASSUME TypeOK, ProcessDies
    PROVE  /\ code' = 0 /\ guarding' = {}
           /\ acct' = [a \in Accounts |-> "off"] /\ upd' = [c \in Callers |-> NoUpdate]
           /\ gaveUp' \in BOOLEAN
           /\ \/ UNCHANGED <<disk, boots, healthy>>
              \/ disk' \in Versions /\ boots' = 0 /\ healthy' = FALSE
BY UpdTypes DEF ProcessDies, TypeOK

\* The return of an applyUpdate leaves no account starting that was not.
LEMMA ReturnedStops ==
    ASSUME TypeOK, NEW c \in Callers, Returned(c)
    PROVE  /\ acct' \in [Accounts -> AcctStates]
           /\ \A a \in Accounts : acct'[a] \in {acct[a], "stopped"}
BY DEF TypeOK, Returned, AcctStates

LEMMA TypeStep ==
    ASSUME TypeOK, Next
    PROVE  TypeOK'
<1> USE DEF TypeOK
<1>1. CASE Boot
  <2>1. boots' \in 0..(MaxAttempts + 1) /\ code' \in Versions \cup {0}
    BY <1>1, UpdateAssumption DEF Boot
  <2>2. UNCHANGED <<disk, marker, acct, guarding, upd, helpers, healthy, gaveUp>>
    BY <1>1 DEF Boot
  <2> QED BY <2>1, <2>2
<1>2. ASSUME ProcessDies, marker' = marker, helpers' \in 0..MaxHelpers
      PROVE  TypeOK'
  <2>1. /\ code' = 0 /\ guarding' = {} /\ gaveUp' \in BOOLEAN
        /\ acct' = [a \in Accounts |-> "off"] /\ upd' = [c \in Callers |-> NoUpdate]
    BY <1>2, ProcessDiesEnds
  <2>2. 0 \in 0..(MaxAttempts + 1)
    BY UpdateAssumption
  <2>3. disk' \in Versions /\ boots' \in 0..(MaxAttempts + 1)
    BY <1>2, <2>2, ProcessDiesEnds
  <2>4. healthy' \in BOOLEAN
    BY <1>2, ProcessDiesEnds
  <2> QED BY <1>2, <2>1, <2>3, <2>4
<1>3. CASE BadVersionCrashes \/ Crash
  BY <1>2, <1>3 DEF BadVersionCrashes, Crash
<1>4. CASE HelperRestarts
  <2>1. helpers' \in 0..MaxHelpers
    BY <1>4, UpdateAssumption DEF HelperRestarts
  <2> QED BY <1>2, <1>4, <2>1 DEF HelperRestarts
<1>5. ASSUME NEW a \in Accounts, StartAccount(a) PROVE TypeOK'
  <2>1. acct' \in [Accounts -> AcctStates] /\ guarding' \subseteq Accounts
    BY <1>5 DEF StartAccount, AcctStates
  <2>2. marker' \in {NoMarker} \cup Markers
    BY <1>5, MarkerTypes, UpdateAssumption
       DEF StartAccount, Markers, TooManyAttempts, NextAttempt
  <2>3. upd' \in [Callers -> {NoUpdate} \cup Updates]
    <3>1. marker # NoMarker => [from |-> disk, to |-> marker.from, restart |-> TRUE] \in Updates
      BY MarkerTypes DEF Markers, Updates
    <3> QED BY <1>5, <3>1 DEF StartAccount, Updates, Callers
  <2> QED
    BY <1>5, <2>1, <2>2, <2>3 DEF StartAccount, Markers, Updates, AcctStates, history
<1>6. ASSUME NEW a \in Accounts, Connected(a) PROVE TypeOK'
  BY <1>6 DEF Connected, ConfirmHealthy
<1>7. ASSUME NEW u \in Users, PluginUpdate(u) PROVE TypeOK'
  <2>1. PICK to \in Versions, force \in BOOLEAN, restart \in BOOLEAN :
            upd' = [upd EXCEPT ![u] = [from |-> disk, to |-> to, restart |-> restart]]
    BY <1>7 DEF PluginUpdate
  <2>2. [from |-> disk, to |-> to, restart |-> restart] \in Updates
    BY DEF Updates
  <2>3. upd' \in [Callers -> {NoUpdate} \cup Updates]
    BY <2>1, <2>2 DEF Updates
  <2> QED BY <1>7, <2>3 DEF PluginUpdate, Updates, history
<1>8. ASSUME NEW c \in Callers, InstallFails(c) PROVE TypeOK'
  BY <1>8, ReturnedStops DEF InstallFails, AcctStates
<1>9. ASSUME NEW c \in Callers, InstallSucceeds(c) PROVE TypeOK'
  <2>1. marker' \in {NoMarker} \cup Markers
    <3>1. [from |-> upd[c].from, to |-> upd[c].to, attempts |-> 0] \in Markers
      BY <1>9, UpdTypes, UpdateAssumption DEF InstallSucceeds, Markers
    <3> QED BY <1>9, <3>1 DEF InstallSucceeds, WriteUpdateMarker, Markers
  <2>2. helpers' \in 0..MaxHelpers /\ gaveUp' \in BOOLEAN
    BY <1>9, UpdateAssumption DEF InstallSucceeds
  <2>3. disk' \in Versions /\ healthy' \in BOOLEAN
    BY <1>9, UpdTypes DEF InstallSucceeds
  <2>4. boots' \in 0..(MaxAttempts + 1)
    BY <1>9, UpdateAssumption DEF InstallSucceeds
  <2>5. acct' \in [Accounts -> AcctStates]
    BY <1>9, ReturnedStops DEF InstallSucceeds
  <2>6. upd' \in [Callers -> {NoUpdate} \cup Updates]
    BY <1>9 DEF InstallSucceeds, Updates
  <2> QED
    BY <1>9, <2>1, <2>2, <2>3, <2>4, <2>5, <2>6
       DEF InstallSucceeds, Markers, Updates, AcctStates
<1> QED
  BY <1>1, <1>3, <1>4, <1>5, <1>6, <1>7, <1>8, <1>9 DEF Next

-----------------------------------------------------------------------------
(* Guards and health *)

LEMMA DeadStep ==
    ASSUME TypeOK, DeadInv, Next
    PROVE  DeadInv'
<1> USE DEF DeadInv
<1>1. CASE Boot
  BY <1>1, MarkerTypes DEF Boot
<1>2. CASE BadVersionCrashes \/ Crash \/ HelperRestarts
  BY <1>2, ProcessDiesEnds DEF BadVersionCrashes, Crash, HelperRestarts
<1>3. ASSUME NEW a \in Accounts, StartAccount(a) PROVE DeadInv'
  BY <1>3 DEF StartAccount
<1>4. ASSUME NEW a \in Accounts, Connected(a) PROVE DeadInv'
  BY <1>4, VersionTypes, UpdateAssumption DEF Connected
<1>5. ASSUME NEW u \in Users, PluginUpdate(u) PROVE DeadInv'
  BY <1>5 DEF PluginUpdate
<1>6. ASSUME NEW c \in Callers, InstallFails(c) PROVE DeadInv'
  BY <1>6 DEF InstallFails
<1>7. ASSUME NEW c \in Callers, InstallSucceeds(c) PROVE DeadInv'
  BY <1>7 DEF InstallSucceeds
<1> QED
  BY <1>1, <1>2, <1>3, <1>4, <1>5, <1>6, <1>7 DEF Next

LEMMA GuardStep ==
    ASSUME TypeOK, DeadInv, GuardInv, Next
    PROVE  GuardInv'
<1> USE DEF GuardInv
<1>1. CASE Boot
  BY <1>1 DEF Boot, DeadInv
<1>2. CASE BadVersionCrashes \/ Crash \/ HelperRestarts
  BY <1>2, ProcessDiesEnds DEF BadVersionCrashes, Crash, HelperRestarts
<1>3. ASSUME NEW a \in Accounts, StartAccount(a) PROVE GuardInv'
  <2>1. CASE marker' = NoMarker
    BY <1>3, <2>1, VersionTypes, MarkerTypes DEF StartAccount
  <2>2. CASE marker' = [marker EXCEPT !.attempts = NextAttempt]
             /\ acct' = [acct EXCEPT ![a] = "starting"] /\ guarding' = guarding \cup {a}
             /\ marker # NoMarker /\ marker.to = disk
    <3>1. marker'.to = disk' /\ boots' = boots
      BY <1>3, <2>2, MarkerTypes DEF StartAccount, Markers, history
    <3> QED BY <2>2, <3>1 DEF TypeOK
  <2> QED BY <1>3, <2>1, <2>2 DEF StartAccount
<1>4. ASSUME NEW a \in Accounts, Connected(a) PROVE GuardInv'
  <2>1. CASE a \in guarding
    BY <1>4, <2>1, VersionTypes, MarkerTypes DEF Connected, ConfirmHealthy
  <2>2. CASE a \notin guarding
    BY <1>4, <2>2 DEF Connected, ConfirmHealthy, TypeOK
  <2> QED BY <2>1, <2>2
<1>5. ASSUME NEW u \in Users, PluginUpdate(u) PROVE GuardInv'
  BY <1>5 DEF PluginUpdate, history
<1>6. ASSUME NEW c \in Callers, InstallFails(c) PROVE GuardInv'
  BY <1>6, ReturnedStops DEF InstallFails
<1>7. ASSUME NEW c \in Callers, InstallSucceeds(c) PROVE GuardInv'
  BY <1>7 DEF InstallSucceeds
<1> QED
  BY <1>1, <1>2, <1>3, <1>4, <1>5, <1>6, <1>7 DEF Next

LEMMA HealthyStep ==
    ASSUME TypeOK, GuardInv, HealthyInv, Next
    PROVE  HealthyInv'
<1> USE DEF HealthyInv
<1>1. CASE Boot
  BY <1>1 DEF Boot
<1>2. CASE BadVersionCrashes \/ Crash \/ HelperRestarts
  BY <1>2, ProcessDiesEnds DEF BadVersionCrashes, Crash, HelperRestarts
<1>3. ASSUME NEW a \in Accounts, StartAccount(a) PROVE HealthyInv'
  BY <1>3, VersionTypes, MarkerTypes DEF StartAccount, history
\* The account that syncs guards the marker, if there is one to clear.
<1>4. ASSUME NEW a \in Accounts, Connected(a) PROVE HealthyInv'
  <2>1. CASE a \in guarding
    BY <1>4, <2>1, VersionTypes, MarkerTypes DEF Connected, ConfirmHealthy
  <2>2. CASE a \notin guarding
    BY <1>4, <2>2 DEF Connected, ConfirmHealthy, GuardInv
  <2> QED BY <2>1, <2>2
<1>5. ASSUME NEW u \in Users, PluginUpdate(u) PROVE HealthyInv'
  BY <1>5 DEF PluginUpdate, history
<1>6. ASSUME NEW c \in Callers, InstallFails(c) PROVE HealthyInv'
  BY <1>6 DEF InstallFails
<1>7. ASSUME NEW c \in Callers, InstallSucceeds(c) PROVE HealthyInv'
  BY <1>7 DEF InstallSucceeds
<1> QED
  BY <1>1, <1>2, <1>3, <1>4, <1>5, <1>6, <1>7 DEF Next

-----------------------------------------------------------------------------
(* The invariant holds *)

LEMMA IInvInit == Init => IInv
<1> SUFFICES ASSUME Init PROVE IInv
  OBVIOUS
<1>1. 0 \in 0..MaxHelpers /\ 0 \in 0..(MaxAttempts + 1)
  BY UpdateAssumption
<1>2. TypeOK
  BY <1>1, VersionTypes DEF Init, TypeOK
<1> QED
  BY <1>2 DEF Init, IInv, DeadInv, GuardInv, HealthyInv

LEMMA IInvStep == IInv /\ [Next]_vars => IInv'
<1>1. ASSUME IInv, Next PROVE IInv'
  BY <1>1, TypeStep, DeadStep, GuardStep, HealthyStep DEF IInv
<1>2. ASSUME IInv, UNCHANGED vars PROVE IInv'
  BY <1>2 DEF vars, process, history, IInv, TypeOK, DeadInv, GuardInv, HealthyInv
<1> QED BY <1>1, <1>2

LEMMA Inductive == Spec => []IInv
BY IInvInit, IInvStep, PTL DEF Spec

\* Every variable keeps its type; the marker never grants more than
\* MaxAttempts boots (boot-guard.ts), whoever rewrites it.
THEOREM TypeCorrect == Spec => []TypeOK
<1>1. IInv => TypeOK
  BY DEF IInv
<1> QED BY Inductive, <1>1, PTL

\* No account rolls back a version one of whose boots has synced
\* (reconcileUpdateMarker, confirmHealthy), although accounts start at
\* different times, share one marker, and an older process may still sync.
THEOREM HealthyStays == Spec => HealthyNeverRolledBack
<1>1. IInv /\ [Next]_vars => [\A a \in Accounts : RollsBack(a) => ~healthy]_vars
  <2>1. ASSUME IInv, Next, NEW a \in Accounts, RollsBack(a) PROVE ~healthy
    <3>1. acct[a] # "rolling" /\ acct'[a] = "rolling"
      BY <2>1 DEF RollsBack
    <3>2. acct \in [Accounts -> AcctStates] /\ TypeOK
      BY <2>1 DEF IInv, TypeOK, AcctStates
    <3>3. CASE \E b \in Accounts : StartAccount(b)
      BY <2>1, <3>1, <3>2, <3>3 DEF StartAccount, IInv, HealthyInv
    <3>4. CASE \E b \in Accounts : Connected(b)
      BY <3>1, <3>2, <3>4 DEF Connected
    <3>5. CASE BadVersionCrashes \/ Crash \/ HelperRestarts
      BY <3>1, <3>2, <3>5, ProcessDiesEnds DEF BadVersionCrashes, Crash, HelperRestarts
    <3>6. CASE \E c \in Callers : InstallFails(c) \/ InstallSucceeds(c)
      BY <3>1, <3>2, <3>6, ReturnedStops DEF InstallFails, InstallSucceeds
    <3>7. CASE Boot \/ \E u \in Users : PluginUpdate(u)
      BY <3>1, <3>7 DEF Boot, PluginUpdate
    <3> QED BY <2>1, <3>3, <3>4, <3>5, <3>6, <3>7 DEF Next
  <2> QED BY <2>1
<1> QED BY Inductive, <1>1, PTL DEF Spec, HealthyNeverRolledBack
=============================================================================
