----------------------------- MODULE AgentTools -----------------------------
(***************************************************************************)
(* The language-model agents and their toolbelts: one session is one call  *)
(* of run_order_renewal or run_customer_onboarding.  The model behind it   *)
(* may call any tools of its belt in any order; a read tool tells it       *)
(* something, a write tool only has apm_connectors record a pending        *)
(* action.  At the end the session names, to a human reviewer, the ids of  *)
(* the actions that now wait.                                              *)
(*                                                                         *)
(* Abstracted: arguments, what a read returns and the prompt's text.  The  *)
(* model is external: any calls, and a report as its prompt asks for.      *)
(***************************************************************************)
EXTENDS ApmConnectors, FiniteSets

CONSTANTS
  Sessions,  \* calls of run_order_renewal and run_customer_onboarding
  Mode,      \* which agent, and in which mode, each of them runs
  MaxTurns,  \* max_turns: how many tool calls one session may make
  MaxDecided \* bound: how many actions the humans decide

Modes == {"renewal_workflow", "renewal_report", "onboarding"}

ASSUME ModeAssumption == Mode \in [Sessions -> Modes]
ASSUME BoundAssumption == MaxTurns \in Nat /\ MaxDecided \in Nat

VARIABLE session  \* the conversation of each session, as far as it matters

vars == <<actions, status, session>>

-----------------------------------------------------------------------------
(* The tools, by connector. *)

Gmail == [reads  |-> {"gmail_search_emails", "gmail_read_message"},
          writes |-> {"gmail_send_email"}]

Calendar == [reads  |-> {"calendar_search_events", "calendar_read_event"},
             writes |-> {"calendar_create_event"}]

Excel == [reads  |-> {"excel_list_worksheets", "excel_read_range"},
          writes |-> {"excel_write_range"}]

Drive == [reads  |-> {"drive_list_files", "drive_read_file"},
          writes |-> {"drive_upload_file", "drive_update_file"}]

Salesforce == [reads  |-> {"salesforce_query_records", "salesforce_get_record"},
               writes |-> {"salesforce_create_record", "salesforce_update_record"}]

Jira == [reads  |-> {"jira_search_issues", "jira_get_issue"},
         writes |-> {"jira_create_issue", "jira_update_issue"}]

(* ALL_TOOLS: no tool decides an action. *)
Connectors == {Gmail, Calendar, Excel, Drive, Salesforce, Jira}

ReadTools == UNION {c.reads : c \in Connectors}

WriteTools == UNION {c.writes : c \in Connectors}

RenewalWorkflowTools ==
  Gmail.reads \cup Salesforce.reads \cup Jira.reads \cup Drive.reads
  \cup Calendar.writes \cup Gmail.writes \cup Drive.writes
  \cup {"jira_create_issue", "salesforce_update_record"}

RenewalReportingTools == {"salesforce_query_records", "excel_write_range"}

OnboardingTools ==
  Salesforce.reads \cup Jira.reads \cup Drive.reads
  \cup Calendar.writes \cup Gmail.writes
  \cup {"jira_create_issue", "salesforce_update_record"}

(* Faulty: the report runs with the tools of the live workflow. *)
ToolbeltWhateverMode(mode) ==
  IF mode = "onboarding" THEN OnboardingTools ELSE RenewalWorkflowTools

(* _build_options: allowed_tools. *)
Toolbelt(mode) ==
  CASE mode = "renewal_workflow" -> RenewalWorkflowTools
    [] mode = "renewal_report"   -> RenewalReportingTools
    [] mode = "onboarding"       -> OnboardingTools

-----------------------------------------------------------------------------
(* What a write route answers: the id to poll and decide by, and the       *)
(* pending action, which carries the gate's own number, also under the     *)
(* name action_id.                                                         *)
Answer(id, n) == [action_id |-> id, pending_action |-> {<<"inner", n>>}]

(* Faulty: the answer is handed on as it came. *)
AsItCame(data) == data

(* _disambiguate_pending_action strips the inner one. *)
Disambiguated(data) == [data EXCEPT !.pending_action = {}]

(* The values a model finds under the name action_id in a tool's result. *)
ActionIdsIn(data) == {data.action_id} \cup data.pending_action

NewSession == [pc |-> "running", turns |-> 0, seen |-> {}, errors |-> 0,
               report |-> {}]

Init ==
  /\ GateInit
  /\ session = [s \in Sessions |-> NewSession]

MayCall(s, tool) ==
  /\ session[s].pc = "running"
  /\ session[s].turns < MaxTurns
  /\ tool \in Toolbelt(Mode[s])

(* A read tool, whether it answers or not: the gate takes no part in it. *)
ReadTool(s) ==
  /\ \E tool \in ReadTools : MayCall(s, tool)
  /\ session' = [session EXCEPT ![s].turns = @ + 1]
  /\ UNCHANGED gateVars

(* A write tool that returned: no tool passes a process_id. *)
Propose(s, tool) ==
  LET id == NewId(s, FALSE)
  IN  /\ MayCall(s, tool)
      /\ RecordAction(s, tool, id)
      /\ \E read \in ActionIdsIn(Disambiguated(Answer(id, Len(actions) + 1))) :
           session' = [session EXCEPT ![s].turns = @ + 1,
                                      ![s].seen = @ \cup {read}]

(* Faulty: a call that timed out leaves no error in the conversation. *)
Unnoticed(s) == [session[s] EXCEPT !.turns = @ + 1]

(* A ConnectorError becomes the tool's result (_err). *)
Noticed(s) == [session[s] EXCEPT !.turns = @ + 1, !.errors = @ + 1]

(* The gate refused the proposal, or never got it. *)
ProposalFails(s, tool) ==
  /\ MayCall(s, tool)
  /\ session' = [session EXCEPT ![s] = Noticed(s)]
  /\ UNCHANGED gateVars

(* The gate recorded it, and its answer did not come in time. *)
AnswerLost(s, tool) ==
  /\ MayCall(s, tool)
  /\ RecordAction(s, tool, NewId(s, FALSE))
  /\ session' = [session EXCEPT ![s] = Noticed(s)]

(* The model is done: its report names "every pending action_id". *)
Report(s) ==
  /\ session[s].pc = "running"
  /\ session' = [session EXCEPT ![s].pc = "reported",
                                ![s].report = session[s].seen]
  /\ UNCHANGED gateVars

(* Turns or budget are used up: no success message, and the text returned  *)
(* is whatever the model had said by then.                                 *)
CutOff(s) ==
  /\ session[s].pc = "running"
  /\ \E said \in SUBSET session[s].seen :
       session' = [session EXCEPT ![s].pc = "cut_off", ![s].report = said]
  /\ UNCHANGED gateVars

HumanDecides(n, decision) ==
  /\ Cardinality(DOMAIN status) < MaxDecided
  /\ Decide(n, decision)
  /\ UNCHANGED session

SessionNext(s) ==
  \/ ReadTool(s)
  \/ \E tool \in WriteTools :
       Propose(s, tool) \/ ProposalFails(s, tool) \/ AnswerLost(s, tool)
  \/ Report(s)
  \/ CutOff(s)

HumanNext == \E n \in 1 .. Len(actions) :
               \E decision \in {"approved", "rejected"} : HumanDecides(n, decision)

Next == (\E s \in Sessions : SessionNext(s)) \/ HumanNext

Spec == Init /\ [][Next]_vars

-----------------------------------------------------------------------------
(* Properties. *)

ActionNumbers == 1 .. Len(actions)

(* What NewId gives a call that carries no process_id. *)
Ids == {"uuid"} \X Nat

Proposals == [case : Sessions, step : WriteTools, id : Ids,
              decision : {"undecided", "approved", "rejected"}]

Conversations == [pc : {"running", "reported", "cut_off"},
                  turns : Nat, errors : Nat,
                  seen : SUBSET Ids, report : SUBSET Ids]

(* Types; and two cadences kept apart: only a report run proposes writes   *)
(* to the workbook, and it proposes nothing else (REPORTING_TOOLS:         *)
(* "separate cadence, not the live workflow").                             *)
ToolsTypeOK ==
  /\ actions \in Seq(Proposals)
  /\ \A n \in ActionNumbers :
       actions[n].step \in Excel.writes <=> Mode[actions[n].case] = "renewal_report"
  /\ DOMAIN status \subseteq Ids
  /\ \A id \in DOMAIN status : status[id] \in {"approved", "rejected"}
  /\ session \in [Sessions -> Conversations]

ProposedBy(s) == {n \in ActionNumbers : actions[n].case = s}

(* A human can act on whatever a session reports: the id names one action, *)
(* the session proposed it, and polling that id tells that action's        *)
(* decision once there is one (_disambiguate_pending_action).              *)
ReportsDecidable ==
  \A s \in Sessions : \A id \in session[s].report :
    \E n \in ProposedBy(s) :
      /\ \A m \in ActionNumbers : actions[m].id = id <=> m = n
      /\ StatusOf(id) = IF actions[n].decision = "undecided"
                        THEN "none" ELSE actions[n].decision

(* A proposal the report leaves out is one the session saw fail: what      *)
(* waits without being named is never more than the errors in its          *)
(* conversation ("a human reviewer knows exactly what's waiting on them"). *)
OmissionsShowAsErrors ==
  \A s \in Sessions : session[s].pc = "reported" =>
    Cardinality({n \in ProposedBy(s) : actions[n].id \notin session[s].report})
      <= session[s].errors
=============================================================================
