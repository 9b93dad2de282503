------------------------------ MODULE SelfUpdate ------------------------------
(***************************************************************************)
(* The self-update of the plugin and its boot guard: applyUpdate            *)
(* (src/src/update/apply.ts), the marker file that survives the restart     *)
(* (src/src/update/boot-guard.ts), and startAccount (src/src/channel.ts),   *)
(* which watches the first boots of a new version and rolls it back.        *)
(*                                                                         *)
(* The plugin runs inside the gateway process it restarts.  The package on  *)
(* disk is replaced while the old code runs on, and the version the code    *)
(* reads of itself is the one on disk.                                      *)
(***************************************************************************)
EXTENDS Naturals

CONSTANTS
    Accounts,     \* accounts the gateway starts the channel for
    Users,        \* plugin.update commands that may run at once
    MaxVersion,   \* versions are 1..MaxVersion; 1 is installed at first
    Good,         \* versions whose channel comes up
    MaxAttempts,  \* MAX_BOOT_ATTEMPTS
    MaxUpdates,   \* bound: updates the user asks for
    MaxCrashes,   \* bound: crashes for other reasons
    MaxHelpers    \* bound: restart helpers asleep at once

Versions == 1..MaxVersion
Callers  == Accounts \cup Users

ASSUME UpdateAssumption ==
    /\ Users \cap Accounts = {}
    /\ MaxVersion \in Nat \ {0} /\ Good \subseteq Versions
    /\ MaxAttempts \in Nat /\ MaxUpdates \in Nat
    /\ MaxCrashes \in Nat /\ MaxHelpers \in Nat

VARIABLES
    disk,      \* version of the installed package
    code,      \* version the gateway process loaded, 0 when there is no process
    marker,    \* the update marker file
    acct,      \* startAccount per account: "off", "starting", "up", "rolling", "stopped"
    guarding,  \* accounts whose BootGuard has the action "guard"
    upd,       \* applyUpdate per caller, while the install runs
    helpers,   \* detached restart helpers that have not fired
    updates, crashes,
    \* history
    boots,     \* boots of the installed copy, counted up to MaxAttempts + 1
    healthy,   \* did a boot of the installed copy sync?
    gaveUp     \* a rollback failed, or the process died during one

process == <<code, acct, guarding, upd>>
history == <<boots, healthy, gaveUp>>
vars    == <<disk, process, marker, helpers, updates, crashes, history>>

NoMarker == [from |-> 0, to |-> 0, attempts |-> 0]
NoUpdate == [from |-> 0, to |-> 0, restart |-> FALSE]

Init ==
    /\ disk = 1 /\ code = 0 /\ marker = NoMarker
    /\ acct = [a \in Accounts |-> "off"] /\ guarding = {}
    /\ upd = [c \in Callers |-> NoUpdate] /\ helpers = 0
    /\ updates = 0 /\ crashes = 0
    /\ boots = 0 /\ healthy = FALSE /\ gaveUp = FALSE

-----------------------------------------------------------------------------
(* The gateway process (external) *)

Boot ==
    /\ code = 0
    /\ code' = disk
    /\ boots' = IF boots > MaxAttempts THEN boots ELSE boots + 1
    /\ UNCHANGED <<disk, marker, acct, guarding, upd, helpers, updates, crashes,
                   healthy, gaveUp>>

\* The process is gone; an install it had started may complete without it.
ProcessDies ==
    /\ code' = 0 /\ guarding' = {}
    /\ acct' = [a \in Accounts |-> "off"]
    /\ upd' = [c \in Callers |-> NoUpdate]
    /\ gaveUp' = (gaveUp \/ \E a \in Accounts : acct[a] = "rolling")
    /\ \/ UNCHANGED <<disk, boots, healthy>>
       \/ \E c \in Callers : /\ upd[c] # NoUpdate
                             /\ disk' = upd[c].to /\ boots' = 0 /\ healthy' = FALSE

\* A bad version takes the process down while its channel starts.
BadVersionCrashes ==
    /\ code # 0 /\ code \notin Good /\ \E a \in Accounts : acct[a] = "starting"
    /\ ProcessDies
    /\ UNCHANGED <<marker, helpers, updates, crashes>>

Crash ==
    /\ code # 0 /\ crashes < MaxCrashes
    /\ crashes' = crashes + 1
    /\ ProcessDies
    /\ UNCHANGED <<marker, helpers, updates>>

-----------------------------------------------------------------------------
(* startAccount *)

\* Mutant of TooManyAttempts: one attempt too many is granted.
TooManyAttemptsLate(n) == n > MaxAttempts + 1

TooManyAttempts(n) == n > MaxAttempts

\* Mutant of NextAttempt: the count in the marker is not carried on.
NextAttemptAnew == 1

NextAttempt == marker.attempts + 1

\* reconcileUpdateMarker.  The version it is given is read from the package on
\* disk; a rollback starts an applyUpdate of its own.
StartAccount(a) ==
    /\ code # 0 /\ acct[a] = "off"
    /\ \/ /\ marker = NoMarker \/ marker.to # disk
          /\ marker' = NoMarker
          /\ acct' = [acct EXCEPT ![a] = "starting"]
          /\ UNCHANGED <<guarding, upd>>
       \/ /\ marker # NoMarker /\ marker.to = disk /\ ~TooManyAttempts(NextAttempt)
          /\ marker' = [marker EXCEPT !.attempts = NextAttempt]
          /\ acct' = [acct EXCEPT ![a] = "starting"]
          /\ guarding' = guarding \cup {a}
          /\ UNCHANGED upd
       \/ /\ marker # NoMarker /\ marker.to = disk /\ TooManyAttempts(NextAttempt)
          /\ marker' = NoMarker
          /\ acct' = [acct EXCEPT ![a] = "rolling"]
          /\ upd' = [upd EXCEPT ![a] = [from |-> disk, to |-> marker.from, restart |-> TRUE]]
          /\ UNCHANGED guarding
    /\ UNCHANGED <<disk, code, helpers, updates, crashes, history>>

\* Mutant of ConfirmHealthy: the marker outlives the confirmation.
ConfirmHealthyKeeps(a) == UNCHANGED marker

\* confirmHealthy of the account's BootGuard.
ConfirmHealthy(a) == marker' = IF a \in guarding THEN NoMarker ELSE marker

\* The client reports Prepared or Syncing: every sync is a "connected".
Connected(a) ==
    /\ code \in Good /\ acct[a] \in {"starting", "up"}
    /\ acct' = [acct EXCEPT ![a] = "up"]
    /\ ConfirmHealthy(a)
    /\ healthy' = (healthy \/ boots > 0)
    /\ UNCHANGED <<disk, code, guarding, upd, helpers, updates, crashes, boots,
                   gaveUp>>

-----------------------------------------------------------------------------
(* applyUpdate *)

\* checkUpdatePreflight: a version newer than the one on disk is published.
Updatable == \E latest \in Versions : latest > disk

\* applyUpdate goes on if it is updatable, or forced, whatever the version asked for.
Accepted(force) == force \/ Updatable

\* plugin.update from the control room: preflight, then the install starts.  No
\* command waits for another: a second update may overlap the first.
PluginUpdate(u) ==
    /\ updates < MaxUpdates /\ upd[u] = NoUpdate
    /\ code # 0 /\ \E a \in Accounts : acct[a] = "up"
    /\ updates' = updates + 1
    /\ \E to \in Versions, force, restart \in BOOLEAN :
           /\ Accepted(force)
           /\ upd' = [upd EXCEPT ![u] = [from |-> disk, to |-> to, restart |-> restart]]
    /\ UNCHANGED <<disk, code, marker, acct, guarding, helpers, crashes, history>>

\* startAccount returns after its rollback, whatever became of it.
Returned(c) ==
    acct' = IF c \in Accounts THEN [acct EXCEPT ![c] = "stopped"] ELSE acct

InstallFails(c) ==
    /\ upd[c] # NoUpdate
    /\ upd' = [upd EXCEPT ![c] = NoUpdate]
    /\ Returned(c)
    /\ gaveUp' = (gaveUp \/ c \in Accounts)
    /\ UNCHANGED <<disk, code, marker, guarding, helpers, updates, crashes,
                   boots, healthy>>

\* writeUpdateMarker.
WriteUpdateMarker(from, to) == marker' = [from |-> from, to |-> to, attempts |-> 0]

\* The install took.  With a restart, the marker is written first and cleared
\* again if no restart could be scheduled.
InstallSucceeds(c) ==
    /\ upd[c] # NoUpdate
    /\ disk' = upd[c].to /\ boots' = 0 /\ healthy' = FALSE
    /\ \/ /\ ~upd[c].restart
          /\ UNCHANGED <<marker, helpers, gaveUp>>
       \/ /\ upd[c].restart
          /\ WriteUpdateMarker(upd[c].from, upd[c].to)
          /\ helpers < MaxHelpers /\ helpers' = helpers + 1
          /\ UNCHANGED gaveUp
       \/ /\ upd[c].restart
          /\ marker' = NoMarker
          /\ gaveUp' = (gaveUp \/ c \in Accounts)
          /\ UNCHANGED helpers
    /\ upd' = [upd EXCEPT ![c] = NoUpdate]
    /\ Returned(c)
    /\ UNCHANGED <<code, guarding, updates, crashes>>

\* A detached helper restarts the gateway, whatever it is doing by now.
HelperRestarts ==
    /\ helpers > 0
    /\ helpers' = helpers - 1
    /\ ProcessDies
    /\ UNCHANGED <<marker, updates, crashes>>

-----------------------------------------------------------------------------
Next ==
    \/ Boot \/ BadVersionCrashes \/ Crash \/ HelperRestarts
    \/ \E a \in Accounts : StartAccount(a) \/ Connected(a)
    \/ \E u \in Users : PluginUpdate(u)
    \/ \E c \in Callers : InstallFails(c) \/ InstallSucceeds(c)

Spec == Init /\ [][Next]_vars

\* The gateway is restarted by its supervisor when it dies, the helpers run,
\* accounts are started, a bad version fails, and an install ends.
Fairness ==
    /\ WF_vars(Boot) /\ WF_vars(BadVersionCrashes) /\ WF_vars(HelperRestarts)
    /\ \A a \in Accounts : WF_vars(StartAccount(a))
    /\ \A c \in Callers : WF_vars(InstallFails(c) \/ InstallSucceeds(c))

FairSpec == Spec /\ Fairness

-----------------------------------------------------------------------------
(* Properties *)

TypeOK ==
    /\ disk \in Versions /\ code \in Versions \cup {0}
    /\ marker \in {NoMarker} \cup
                  [from : Versions, to : Versions, attempts : 0..MaxAttempts]
    /\ acct \in [Accounts -> {"off", "starting", "up", "rolling", "stopped"}]
    /\ guarding \subseteq Accounts
    /\ upd \in [Callers -> {NoUpdate} \cup
                           [from : Versions, to : Versions, restart : BOOLEAN]]
    /\ helpers \in 0..MaxHelpers
    /\ boots \in 0..(MaxAttempts + 1) /\ healthy \in BOOLEAN /\ gaveUp \in BOOLEAN

RollsBack(a) == acct[a] # "rolling" /\ acct'[a] = "rolling"

\* A version is never rolled back once one of its boots synced, however many
\* crashes and restarts follow.
HealthyNeverRolledBack == [][\A a \in Accounts : RollsBack(a) => ~healthy]_vars

\* A bad version that runs under the marker of a good one gives way to a good
\* version, unless its rollback failed or was cut short.
BadVersionLeft ==
    (code # 0 /\ code \notin Good /\ marker.to = code /\ disk = code /\ marker.from \in Good)
        ~> (code \in Good \/ gaveUp)

\* The marker of an update is cleared by a sync only when the version it
\* installed is the one that synced.
OnlyNewVersionConfirms ==
    [][\A a \in Accounts :
           Connected(a) /\ marker # NoMarker /\ marker' = NoMarker => code = marker.to]_vars
=============================================================================
