---------------------------- MODULE MCAutomations ----------------------------
(* Instances of Automations for TLC. *)
EXTENDS Automations

CONSTANTS a1, a2, p1, p2
=============================================================================
