---------------------------- MODULE MCKahnLayers ----------------------------
(* Every graph over three nodes, with an unknown node and dependencies listed   *)
(* up to MaxTimes times.                                                        *)
EXTENDS KahnLayers
CONSTANTS a, b, c
=============================================================================
