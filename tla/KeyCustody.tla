----------------------------- MODULE KeyCustody -----------------------------
(***************************************************************************)
(* What the sync path promises about to-device room keys, with no socket,  *)
(* queue, cursor file or SDK loop in sight: the homeserver gives up its    *)
(* copy of a key only after the plugin has the key on disk, or after the   *)
(* key has been written off for a reason the plugin can name.              *)
(*                                                                         *)
(* GatewaySync implements this specification.                              *)
(***************************************************************************)
EXTENDS Naturals

CONSTANTS
    KeyPos      \* positions of the sync stream that carry a room key

VARIABLES
    saved,      \* keys in the crypto snapshot on the plugin's disk
    writtenOff, \* keys the plugin has given up the guarantee for
    released    \* the homeserver may delete every key at or below this position

vars == <<saved, writtenOff, released>>

Init ==
    /\ saved = {}
    /\ writtenOff = {}
    /\ released = 0

\* The plugin saves keys or writes keys off; what it un-saves it has written off.
Account ==
    /\ saved \ saved' \subseteq writtenOff
    /\ writtenOff \subseteq writtenOff'
    /\ UNCHANGED released

\* The homeserver is told that it may delete up to p.
Release ==
    /\ released' > released
    /\ \A k \in KeyPos : k <= released' => k \in saved \cup writtenOff
    /\ UNCHANGED <<saved, writtenOff>>

Next == Account \/ Release

Spec == Init /\ [][Next]_vars
=============================================================================
