---------------------------- MODULE MCUsageSync ----------------------------
(* UsageSync on a small instance. *)
EXTENDS UsageSync, TLC

Order == <<1, 3>>

\* The round after the third undisturbed one would repeat it.
ThreeRounds == calm = 3 => phase = "idle"
=============================================================================
