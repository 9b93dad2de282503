---------------------------- MODULE MCGatewaySync ----------------------------
(***************************************************************************)
(* GatewaySync for TLC.  The two subscription bodies are interchangeable:  *)
(* no definition tells one from another but by comparing them.  None of    *)
(* the properties checked with the symmetry is a liveness property.        *)
(***************************************************************************)
EXTENDS GatewaySync, TLC

BodySymmetry == Permutations(Bodies)
=============================================================================
