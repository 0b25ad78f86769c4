---------------------------- MODULE MCRoutingLog ----------------------------
(* Constants of the TLC runs of RoutingLog. *)
EXTENDS RoutingLog, TLC

CONSTANTS first, second, reviewer

TwoRuns == {first, second}
OneReviewer == {reviewer}
=============================================================================
