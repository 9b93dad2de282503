--------------------------- MODULE MCPluginRooms ---------------------------
(***************************************************************************)
(* PluginRooms with its command handlers interchangeable.                  *)
(***************************************************************************)
EXTENDS PluginRooms, TLC

\* Handlers are alike: no action and no property names one of them.
HandlerSymmetry == Permutations(Handlers)

=============================================================================
