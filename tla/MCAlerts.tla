------------------------------ MODULE MCAlerts ------------------------------
(***************************************************************************)
(* Instances of Alerts for TLC: one dependency and its service, and rules  *)
(* with and without delay, custom thresholds and recoveries.               *)
(***************************************************************************)
EXTENDS Alerts, TLC

MCCanonical == [d \in Deps |-> "canonical"]
MCRule(filter, cooldown, delay) ==
    [filter |-> filter, active |-> TRUE, custom |-> TRUE,
     cooldown |-> cooldown, limit |-> Off, delay |-> delay]
MCRules == {MCRule("all", 3, Off), MCRule("warning", 0, 1)}
MCSymmetry == Permutations(Channels)
=============================================================================
