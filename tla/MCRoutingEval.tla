---------------------------- MODULE MCRoutingEval ----------------------------
(* Constants of the TLC runs of RoutingEval. *)
EXTENDS RoutingEval

Golden(category, expected, none) ==
  [category |-> category, expected |-> expected, expectNone |-> none]

(* One case of each way of judging. *)
ThreeCases ==
  <<Golden("adversarial", "order_renewal", FALSE),
    Golden("out_of_scope", "none", TRUE),
    Golden("ambiguous", "none", FALSE)>>
=============================================================================
