---------------------------- MODULE ApmConnectors ----------------------------
(***************************************************************************)
(* apm_connectors' approval gate, an external service, as this repository  *)
(* uses it.  A write call records an action that nobody has decided yet    *)
(* and answers with the id to poll and decide by: the process_id of the    *)
(* call when it carried one, a fresh id otherwise.  A human decides the    *)
(* action, and an approved one is executed, which may fail; only then does *)
(* GET /processes/{id}/status answer, with the result of the latest action *)
(* decided under that id.                                                  *)
(***************************************************************************)
EXTENDS Naturals, Sequences

VARIABLES
  actions,  \* every action proposed; its index is the gate's own number for it
  status    \* id -> the result GET /processes/{id}/status answers with

gateVars == <<actions, status>>

(* What becomes of an action: "failed" was approved and did not execute. *)
Outcomes == {"approved", "rejected", "failed"}

GateInit == actions = <<>> /\ status = <<>>

(* The top-level action_id of the answer to the next write. *)
NewId(case, passesProcessId) ==
  IF passesProcessId THEN <<"process", case>>
                     ELSE <<"uuid", Len(actions) + 1>>

RecordAction(case, step, id) ==
  /\ actions' = Append(actions, [case |-> case, step |-> step, id |-> id,
                                 decision |-> "undecided"])
  /\ UNCHANGED status

(* POST /tools/actions/{id}/decision by a human, and the execution (or not) *)
(* that sets the process's status.                                          *)
Decide(n, decision) ==
  /\ actions[n].decision = "undecided"
  /\ actions' = [actions EXCEPT ![n].decision = decision]
  /\ status' = [i \in DOMAIN status \cup {actions[n].id} |->
                  IF i = actions[n].id THEN decision ELSE status[i]]

(* A 404 (no status yet) reads as "none": still waiting for a human. *)
StatusOf(id) == IF id \in DOMAIN status THEN status[id] ELSE "none"
=============================================================================
