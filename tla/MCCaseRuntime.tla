---------------------------- MODULE MCCaseRuntime ----------------------------
(* Constants of the TLC runs of CaseRuntime. *)
EXTENDS CaseRefinement, CallGate

CONSTANTS c1, c2, starter, poller1, poller2

OneCase == {c1}
TwoCases == {c1, c2}
OneStarter == {starter}
OnePoller == {poller1}
TwoPollers == {poller1, poller2}
FirstCase == {c1}

AnyAgent == [c \in Cases |-> Agents]
RenewalOnly == [c \in Cases |-> {"order_renewal"}]
OnboardingOnly == [c \in Cases |-> {"customer_onboarding"}]
OneOfEach ==
  [c \in Cases |-> {IF c = c1 THEN "order_renewal" ELSE "customer_onboarding"}]
=============================================================================
