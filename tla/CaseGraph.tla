------------------------------ MODULE CaseGraph ------------------------------
(***************************************************************************)
(* The two business-case graphs (order_renewal and customer_onboarding)    *)
(* as tables and pure operators: their nodes, their edges, the patch each  *)
(* node applies to CaseState and the routing functions.  A thread value is *)
(* what LangGraph checkpoints for one thread_id: the CaseState fields the  *)
(* control flow reads, the node to run next, and whether the thread is     *)
(* paused in an interrupt().                                               *)
(*                                                                         *)
(* Abstracted: the business data of CaseState (messages, opportunities,    *)
(* contracts, call_start) and its logging trail steps_completed, which no  *)
(* routing function reads; a stop_reason is the name of the node that set  *)
(* it; final_summary is its kind.                                          *)
(***************************************************************************)
EXTENDS Naturals, Sequences

Agents == {"order_renewal", "customer_onboarding"}

(* The awaiting_step values of each graph, in the order of its edges. *)
Steps == [order_renewal       |-> <<"call", "notice", "record_update">>,
          customer_onboarding |-> <<"kickoff_call", "welcome_notice",
                                    "onboarding_ticket", "record_update">>]

StepSet(a) == {Steps[a][i] : i \in 1 .. Len(Steps[a])}

(* The steps that open a chain: a call is agreed on before anything else.  *)
FirstSteps == {"call", "kickoff_call"}

AllSteps == StepSet("order_renewal") \cup StepSet("customer_onboarding")

(* The steps of the chain that come before step s. *)
Earlier(a, s) == {Steps[a][i] : i \in {j \in 1 .. Len(Steps[a]) :
                     \E k \in 1 .. Len(Steps[a]) : j < k /\ Steps[a][k] = s}}

(* Faulty: every graph names its case as the process, as order_renewal does. *)
PassesProcessIdAlways == [order_renewal |-> TRUE, customer_onboarding |-> TRUE]

(* Does every write of this graph name its case as the apm_connectors      *)
(* process?  order_renewal passes process_id = case_id on every call;      *)
(* customer_onboarding passes none.                                        *)
PassesProcessId == [order_renewal |-> TRUE, customer_onboarding |-> FALSE]

-----------------------------------------------------------------------------
(* Edges of build_case_graph. *)

(* Read-only guarded nodes, and where _continue leads from each. *)
RenewalContinue == [detect         |-> "verify_account",
                    verify_account |-> "check_blockers",
                    check_blockers |-> "pull_contract"]

OnboardingContinue == [detect         |-> "verify_contact",
                       verify_contact |-> "check_blockers",
                       check_blockers |-> "pull_kickoff_packet"]

Continue == [order_renewal       |-> RenewalContinue,
             customer_onboarding |-> OnboardingContinue]

(* The best-effort node, whose only edge leads to the first proposal. *)
PullNode == [order_renewal       |-> "pull_contract",
             customer_onboarding |-> "pull_kickoff_packet"]

(* The node that proposes each step. *)
RenewalPropose == [call          |-> "propose_call",
                   notice        |-> "propose_notice",
                   record_update |-> "propose_record_update"]

OnboardingPropose == [kickoff_call      |-> "propose_kickoff_call",
                      welcome_notice    |-> "propose_welcome_notice",
                      onboarding_ticket |-> "propose_onboarding_ticket",
                      record_update     |-> "propose_record_update"]

ProposeNode == [order_renewal       |-> RenewalPropose,
                customer_onboarding |-> OnboardingPropose]

(* _route_after_wait once approved; any other step leads to record_outcome. *)
RenewalAfterApproval == [call   |-> "propose_notice",
                         notice |-> "propose_record_update"]

(* Faulty: the approved kickoff call leads straight to the ticket. *)
OnboardingSkipsNotice == [kickoff_call      |-> "propose_onboarding_ticket",
                          onboarding_ticket |-> "propose_record_update"]

OnboardingAfterApproval == [kickoff_call      |-> "propose_welcome_notice",
                            welcome_notice    |-> "propose_onboarding_ticket",
                            onboarding_ticket |-> "propose_record_update"]

AfterApproval == [order_renewal       |-> RenewalAfterApproval,
                  customer_onboarding |-> OnboardingAfterApproval]

ReadNodes == {"detect", "verify_account", "verify_contact", "check_blockers"}

(* The nodes of one graph: two of them are in both graphs, and so is the   *)
(* node that proposes the record update.                                   *)
NodesOf(a) == DOMAIN Continue[a] \cup {PullNode[a]}
              \cup {ProposeNode[a][s] : s \in DOMAIN ProposeNode[a]}
              \cup {"wait_for_approval", "record_outcome"}

Nodes == ReadNodes \cup
         {"pull_contract", "pull_kickoff_packet",
          "propose_call", "propose_notice", "propose_record_update",
          "propose_kickoff_call", "propose_welcome_notice",
          "propose_onboarding_ticket",
          "wait_for_approval", "record_outcome", "end"}

-----------------------------------------------------------------------------
(* Thread values. *)

Decisions == {"approved", "rejected"}

Summaries == {"stopped", "rejected", "completed"}

NoId == <<"none">>

(* A thread_id LangGraph has never seen. *)
NewThread == [next |-> "end", interrupted |-> FALSE,
              awaiting_step |-> "none", action_id |-> NoId,
              pending_action |-> 0, last_action_result |-> "none",
              stop_reason |-> "none", final_summary |-> "none"]

(* record_outcome sets done and final_summary together. *)
Done(t) == t.final_summary # "none"

(* start_case's input is merged over what the thread already holds: fields *)
(* the input does not name keep their old value.                           *)
StartedFrom(t) == [t EXCEPT !.next = "detect", !.interrupted = FALSE]

RouteAfterCheck(t, continue) ==
  IF t.stop_reason # "none" THEN "record_outcome" ELSE continue

(* Faulty: routes on awaiting_step alone, whatever the decision. *)
RouteOnStepAlone(a, t) ==
  IF t.awaiting_step \in DOMAIN AfterApproval[a]
  THEN AfterApproval[a][t.awaiting_step]
  ELSE "record_outcome"

RouteAfterWait(a, t) ==
  IF /\ t.last_action_result = "approved"
     /\ t.awaiting_step \in DOMAIN AfterApproval[a]
  THEN AfterApproval[a][t.awaiting_step]
  ELSE "record_outcome"

(* A guarded node that ends the case: a business stop or a ConnectorError. *)
Stopped(t) ==
  LET u == [t EXCEPT !.stop_reason = t.next]
  IN  [u EXCEPT !.next = RouteAfterCheck(u, "record_outcome")]

(* A read node that found what it needs leaves the control fields alone. *)
Passed(a, t) == [t EXCEPT !.next = RouteAfterCheck(t, Continue[a][t.next])]

Pulled(a, t) == [t EXCEPT !.next = ProposeNode[a][Steps[a][1]]]

(* Faulty: polls by the id nested in pending_action, the gate's own number. *)
ProposedWithInnerId(t, s, id, n) ==
  [t EXCEPT !.action_id = <<"inner", n>>, !.pending_action = n,
            !.awaiting_step = s, !.next = "wait_for_approval"]

(* A propose node whose call returned: the id to poll with, the pending    *)
(* action (here apm_connectors' own number for it) and the step awaited.   *)
Proposed(t, s, id, n) ==
  LET u == [t EXCEPT !.action_id = id, !.pending_action = n,
                     !.awaiting_step = s]
  IN  [u EXCEPT !.next = RouteAfterCheck(u, "wait_for_approval")]

Paused(t) == [t EXCEPT !.interrupted = TRUE]

Resumed(a, t, decision) ==
  LET u == [t EXCEPT !.last_action_result = decision, !.pending_action = 0,
                     !.interrupted = FALSE]
  IN  [u EXCEPT !.next = RouteAfterWait(a, u)]

(* Faulty: a rejected last step is not looked at. *)
OutcomeBlindToRejection(t) ==
  IF t.stop_reason # "none" THEN "stopped" ELSE "completed"

(* Faulty: whatever was not approved counts as rejected, stops included. *)
OutcomeBlindToStop(t) ==
  IF t.last_action_result = "approved" THEN "completed" ELSE "rejected"

(* record_outcome's summary: an absent result counts as approved. *)
Outcome(t) ==
  IF t.stop_reason # "none" THEN "stopped"
  ELSE IF t.last_action_result = "rejected" THEN "rejected" ELSE "completed"

Recorded(t) == [t EXCEPT !.final_summary = Outcome(t), !.next = "end"]
=============================================================================
