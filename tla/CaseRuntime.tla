----------------------------- MODULE CaseRuntime -----------------------------
(***************************************************************************)
(* Business cases at run time: run_case processes that start cases, poller *)
(* processes that sweep the registry and resume them, the LangGraph thread *)
(* of each case, and the human behind apm_connectors' approval gate.  They *)
(* share three stores and no lock: the registry table, the checkpoints and *)
(* the gate.                                                               *)
(*                                                                         *)
(* LangGraph, as this repository uses it: ainvoke(input) merges the input  *)
(* over the thread's fields and runs from the entry point; ainvoke(Command *)
(* (resume=v)) runs the thread from its checkpoint, whatever node is next, *)
(* and gives v to an interrupt() of the first node; nothing locks a thread *)
(* against a second invocation; a checkpoint is written after each node,   *)
(* in the background while the next node runs, and ainvoke returns only    *)
(* when the last one is written.                                           *)
(***************************************************************************)
EXTENDS CaseGraph, ApmConnectors, FiniteSets

CONSTANTS
  Cases,           \* case ids
  NoCase,          \* a process that holds no case
  Starters,        \* run_case.py processes
  Pollers,         \* poller processes (one --loop, or overlapping --once runs)
  AgentsFor,       \* the --agent values the operators use for each case_id
  MaxStarts,       \* bound: how often an operator starts the same case_id
  MaxActions,      \* bound: how many actions the gate ever records
  CrashesAllowed,  \* may a process die in the middle of its work?
  ExecutionMayFail,  \* may the execution of an approved write fail?
  Unreadable       \* cases whose status can never be read without an error

ASSUME ProcessAssumption == Starters \cap Pollers = {}
ASSUME CaseAssumption == IsFiniteSet(Cases) /\ NoCase \notin Cases
ASSUME AgentAssumption == AgentsFor \in [Cases -> SUBSET Agents]
ASSUME BoundAssumption == MaxStarts \in Nat /\ MaxActions \in Nat
ASSUME FaultAssumption ==
  /\ CrashesAllowed \in BOOLEAN /\ ExecutionMayFail \in BOOLEAN
  /\ Unreadable \subseteq Cases

VARIABLES
  registry,  \* orchestrator_cases: agent and rank by created_at (0: no row)
  ckpt,      \* the checkpoint LangGraph holds for each thread_id = case_id
  starts,    \* how often each case_id has been given to run_case.py
  proc       \* what each process is doing

vars == <<registry, ckpt, starts, proc, actions, status>>

Procs == Starters \cup Pollers

(* The agents of AGENT_MODULES in the order one sweep visits them. *)
FirstAgent == "order_renewal"
LastAgent == "customer_onboarding"

NoRow == [agent |-> "none", at |-> 0]

IdleProc == [pc |-> "idle", agent |-> FirstAgent, case |-> NoCase,
             todo |-> {}, seen |-> NoId, verdict |-> "none",
             mem |-> NewThread]

Init ==
  /\ registry = [c \in Cases |-> NoRow]
  /\ ckpt = [c \in Cases |-> NewThread]
  /\ starts = [c \in Cases |-> 0]
  /\ proc = [p \in Procs |-> IdleProc]
  /\ GateInit

Registered(c) == registry[c].at # 0

-----------------------------------------------------------------------------
(* start_case: the done guard, the registration and the invocation are     *)
(* three awaits, so other processes run between them.                      *)

(* aget_state on a finished thread raises ValueError: nothing begins. *)
BeginStart(p, c, a) ==
  /\ proc[p].pc = "idle"
  /\ starts[c] < MaxStarts
  /\ ~Done(ckpt[c])
  /\ starts' = [starts EXCEPT ![c] = @ + 1]
  /\ proc' = [proc EXCEPT ![p] = [IdleProc EXCEPT !.pc = "checked",
                                                  !.agent = a, !.case = c]]
  /\ UNCHANGED <<registry, ckpt, gateVars>>

(* INSERT ... ON CONFLICT (case_id) DO NOTHING. *)
Register(p) ==
  LET c == proc[p].case
      row == [agent |-> proc[p].agent,
              at    |-> 1 + Cardinality({d \in Cases : Registered(d)})]
  IN  /\ proc[p].pc = "checked"
      /\ registry' = IF Registered(c) THEN registry
                                      ELSE [registry EXCEPT ![c] = row]
      /\ proc' = [proc EXCEPT ![p] = [@ EXCEPT !.pc = "registered"]]
      /\ UNCHANGED <<ckpt, starts, gateVars>>

(* A checkpoint being written: already there, or still in flight. *)
Checkpoint(c, t) == ckpt' \in {ckpt, [ckpt EXCEPT ![c] = t]}

(* ainvoke(initial): from the entry point, over what the thread holds. *)
InvokeInitial(p) ==
  LET c == proc[p].case
      t == StartedFrom(ckpt[c])
  IN  /\ proc[p].pc = "registered"
      /\ Checkpoint(c, t)
      /\ proc' = [proc EXCEPT ![p] = [@ EXCEPT !.pc = "run", !.mem = t]]
      /\ UNCHANGED <<registry, starts, gateVars>>

-----------------------------------------------------------------------------
(* One node of the graph, run by the process that invoked the thread.      *)

(* What the process does once ainvoke returns: run_case.py ends, the       *)
(* poller goes on with its sweep.                                          *)
Returned(p) ==
  IF p \in Starters
  THEN IdleProc
  ELSE [IdleProc EXCEPT !.pc = "sweep", !.agent = proc[p].agent,
                        !.todo = proc[p].todo]

(* The node leaves the thread as t: run on, or return from ainvoke. *)
Leave(p, t) ==
  LET c == proc[p].case
  IN  \/ /\ t.next # "end" /\ ~t.interrupted
         /\ Checkpoint(c, t)
         /\ proc' = [proc EXCEPT ![p] = [@ EXCEPT !.mem = t,
                                                  !.verdict = "none"]]
      \/ /\ t.next = "end" \/ t.interrupted
         /\ ckpt' = [ckpt EXCEPT ![c] = t]
         /\ proc' = [proc EXCEPT ![p] = Returned(p)]

Running(p, node) == proc[p].pc = "run" /\ proc[p].mem.next = node

(* detect, verify_account / verify_contact, check_blockers: the lookup     *)
(* answers, or a business stop or a ConnectorError ends the case.          *)
RunCheck(p) ==
  LET a == proc[p].agent
      t == proc[p].mem
  IN  \E node \in DOMAIN Continue[a] :
        /\ Running(p, node)
        /\ Leave(p, Passed(a, t)) \/ Leave(p, Stopped(t))
        /\ UNCHANGED <<registry, starts, gateVars>>

(* Faulty: the ConnectorError of a missing packet is not caught here. *)
RunPullUncaught(p) ==
  LET a == proc[p].agent
  IN  /\ Running(p, PullNode[a])
      /\ \/ Leave(p, Pulled(a, proc[p].mem))
         \/ proc' = [proc EXCEPT ![p] = IdleProc] /\ UNCHANGED ckpt
      /\ UNCHANGED <<registry, starts, gateVars>>

(* pull_contract / pull_kickoff_packet never stop the case. *)
RunPull(p) ==
  LET a == proc[p].agent
  IN  /\ Running(p, PullNode[a])
      /\ Leave(p, Pulled(a, proc[p].mem))
      /\ UNCHANGED <<registry, starts, gateVars>>

(* Faulty: a lost answer makes the node try its write again. *)
RunProposeWithRetry(p) ==
  LET a == proc[p].agent
      c == proc[p].case
      t == proc[p].mem
      id == NewId(c, PassesProcessId[a])
  IN  \E s \in StepSet(a) :
        /\ Running(p, ProposeNode[a][s])
        /\ Len(actions) < MaxActions
        /\ RecordAction(c, s, id)
        /\ Leave(p, Proposed(t, s, id, Len(actions) + 1)) \/ Leave(p, t)
        /\ UNCHANGED <<registry, starts>>

(* A propose node.  Its one write call records an action and answers; or   *)
(* fails with nothing recorded; or records it and loses the answer (the    *)
(* client's timeout), which to the node is the same ConnectorError.        *)
RunPropose(p) ==
  LET a == proc[p].agent
      c == proc[p].case
      t == proc[p].mem
      id == NewId(c, PassesProcessId[a])
  IN  \E s \in StepSet(a) :
        /\ Running(p, ProposeNode[a][s])
        /\ \/ /\ Len(actions) < MaxActions
              /\ RecordAction(c, s, id)
              /\ \/ Leave(p, Proposed(t, s, id, Len(actions) + 1))
                 \/ Leave(p, Stopped(t))
           \/ /\ Leave(p, Stopped(t))
              /\ UNCHANGED gateVars
        /\ UNCHANGED <<registry, starts>>

(* wait_for_approval: interrupt() pauses the thread, or returns what       *)
(* resume_case passed.                                                     *)
RunWait(p) ==
  LET t == proc[p].mem
  IN  /\ Running(p, "wait_for_approval")
      /\ IF proc[p].verdict = "none"
         THEN Leave(p, Paused(t))
         ELSE Leave(p, Resumed(proc[p].agent, t, proc[p].verdict))
      /\ UNCHANGED <<registry, starts, gateVars>>

RunRecordOutcome(p) ==
  /\ Running(p, "record_outcome")
  /\ Leave(p, Recorded(proc[p].mem))
  /\ UNCHANGED <<registry, starts, gateVars>>

RunNode(p) ==
  RunCheck(p) \/ RunPull(p) \/ RunPropose(p) \/ RunWait(p) \/ RunRecordOutcome(p)

-----------------------------------------------------------------------------
(* The poller: sweep_once and _sweep_agent.                                *)

Listed(a) == {c \in Cases : registry[c].agent = a}

BeginSweep(p) ==
  /\ proc[p].pc = "idle"
  /\ proc' = [proc EXCEPT ![p] = [IdleProc EXCEPT !.pc = "sweep",
                                                  !.todo = Listed(FirstAgent)]]
  /\ UNCHANGED <<registry, ckpt, starts, gateVars>>

(* Faulty: a pending action is enough, the thread need not be paused. *)
WorthPollingUnpaused(t) == t.pending_action # 0 /\ t.action_id # NoId

(* The poll guards: paused, with a pending action and an id to ask by. *)
WorthPolling(t) ==
  t.interrupted /\ t.pending_action # 0 /\ t.action_id # NoId

(* The next case of the list (ORDER BY created_at), read with aget_state. *)
SweepNext(p) ==
  /\ proc[p].pc = "sweep"
  /\ \E c \in proc[p].todo :
       /\ \A d \in proc[p].todo : registry[c].at <= registry[d].at
       /\ proc' = [proc EXCEPT ![p] =
            IF WorthPolling(ckpt[c])
            THEN [proc[p] EXCEPT !.pc = "poll", !.todo = proc[p].todo \ {c},
                                 !.case = c, !.seen = ckpt[c].action_id]
            ELSE [proc[p] EXCEPT !.todo = proc[p].todo \ {c}]]
  /\ UNCHANGED <<registry, ckpt, starts, gateVars>>

(* The list is done: on to the other agent's, or the sweep returns. *)
SweepAgentDone(p) ==
  /\ proc[p].pc = "sweep"
  /\ proc[p].todo = {}
  /\ proc' = [proc EXCEPT ![p] =
       IF @.agent = FirstAgent
       THEN [@ EXCEPT !.agent = LastAgent, !.todo = Listed(LastAgent)]
       ELSE IdleProc]
  /\ UNCHANGED <<registry, ckpt, starts, gateVars>>

(* Faulty: a result is enough, executed or not. *)
ResolvedByPresence(result) == "approved"

(* What the poller makes of a result: approved=bool(result["executed"]). *)
Resolved(result) == IF result = "approved" THEN "approved" ELSE "rejected"

(* Faulty: only an approval counts as a result to resume with. *)
PollAnsweredApprovedOnly(p) ==
  /\ proc[p].pc = "poll"
  /\ proc[p].case \notin Unreadable
  /\ proc' = [proc EXCEPT ![p] =
       IF StatusOf(proc[p].seen) # "approved"
       THEN Returned(p)
       ELSE [@ EXCEPT !.pc = "resume", !.verdict = "approved"]]
  /\ UNCHANGED <<registry, ckpt, starts, gateVars>>

(* get_action_status answers: not decided yet, or a result to resume with. *)
PollAnswered(p) ==
  LET result == StatusOf(proc[p].seen)
  IN  /\ proc[p].pc = "poll"
      /\ proc[p].case \notin Unreadable
      /\ proc' = [proc EXCEPT ![p] =
           IF result = "none"
           THEN Returned(p)
           ELSE [@ EXCEPT !.pc = "resume", !.verdict = Resolved(result)]]
      /\ UNCHANGED <<registry, ckpt, starts, gateVars>>

(* get_action_status raises: no handler below sweep_once, the sweep ends. *)
PollFails(p) ==
  /\ proc[p].pc = "poll"
  /\ proc' = [proc EXCEPT ![p] = IdleProc]
  /\ UNCHANGED <<registry, ckpt, starts, gateVars>>

(* resume_case: ainvoke(Command(resume)) on the checkpoint of now, which   *)
(* runs nothing when the thread has ended meanwhile, or has moved on to a  *)
(* node this graph does not have.                                          *)
InvokeResume(p) ==
  LET t == ckpt[proc[p].case]
  IN  /\ proc[p].pc = "resume"
      /\ proc' = [proc EXCEPT ![p] =
           IF t.next \in NodesOf(proc[p].agent)
           THEN [@ EXCEPT !.pc = "run", !.mem = t]
           ELSE Returned(p)]
      /\ UNCHANGED <<registry, ckpt, starts, gateVars>>

-----------------------------------------------------------------------------
(* A process is killed, or a node raises something other than a            *)
(* ConnectorError, which ends run_case.py or the sweep: the thread stays   *)
(* at the last checkpoint that was written.                                *)
Dies(p) ==
  /\ CrashesAllowed
  /\ proc[p].pc # "idle"
  /\ proc' = [proc EXCEPT ![p] = IdleProc]
  /\ UNCHANGED <<registry, ckpt, starts, gateVars>>

HumanDecides(n) ==
  /\ \E d \in Outcomes : (d = "failed" => ExecutionMayFail) /\ Decide(n, d)
  /\ UNCHANGED <<registry, ckpt, starts, proc>>

StarterNext(p) ==
  \/ \E c \in Cases : \E a \in AgentsFor[c] : BeginStart(p, c, a)
  \/ Register(p)
  \/ InvokeInitial(p)

PollerNext(p) ==
  \/ BeginSweep(p)
  \/ SweepNext(p)
  \/ SweepAgentDone(p)
  \/ PollAnswered(p)
  \/ PollFails(p)
  \/ InvokeResume(p)

Next ==
  \/ \E p \in Starters : StarterNext(p)
  \/ \E p \in Pollers : PollerNext(p)
  \/ \E p \in Procs : RunNode(p) \/ Dies(p)
  \/ \E n \in 1 .. Len(actions) : HumanDecides(n)

Spec == Init /\ [][Next]_vars

(* Every process that runs keeps running, the poller sweeps for ever       *)
(* (--loop or cron), the human answers every action in the end, and a case *)
(* whose status is polled again and again is answered in the end.          *)
Fairness ==
  /\ \A p \in Starters : WF_vars(Register(p)) /\ WF_vars(InvokeInitial(p))
  /\ \A p \in Procs : WF_vars(RunNode(p))
  /\ \A p \in Pollers : /\ WF_vars(BeginSweep(p))
                        /\ WF_vars(SweepNext(p))
                        /\ WF_vars(SweepAgentDone(p))
                        /\ WF_vars(PollAnswered(p) \/ PollFails(p))
                        /\ WF_vars(InvokeResume(p))
  /\ \A p \in Pollers, c \in Cases :
       SF_vars(PollAnswered(p) /\ proc[p].case = c)
  /\ \A n \in 1 .. MaxActions : WF_vars(n <= Len(actions) /\ HumanDecides(n))

FairSpec == Spec /\ Fairness

-----------------------------------------------------------------------------
(* Types. *)

ActionIds == {NoId} \cup {<<"process", c>> : c \in Cases}
                    \cup {<<"uuid", n>> : n \in 1 .. MaxActions}

Threads ==
  [next : Nodes, interrupted : BOOLEAN, awaiting_step : AllSteps \cup {"none"},
   action_id : ActionIds, pending_action : Nat,
   last_action_result : Decisions \cup {"none"},
   stop_reason : Nodes \cup {"none"},
   final_summary : Summaries \cup {"none"}]

ProcStates ==
  [pc : {"idle", "checked", "registered", "sweep", "poll", "resume", "run"},
   agent : Agents, case : Cases \cup {NoCase}, todo : SUBSET Cases,
   seen : ActionIds, verdict : Decisions \cup {"none"}, mem : Threads]

Actions ==
  [case : Cases, step : AllSteps, id : ActionIds,
   decision : Outcomes \cup {"undecided"}]

(* Every store holds what its columns and fields may hold, and a process   *)
(* at work holds a case. *)
TypeOK ==
  /\ registry \in [Cases -> [agent : Agents \cup {"none"}, at : Nat]]
  /\ ckpt \in [Cases -> Threads]
  /\ starts \in [Cases -> 0 .. MaxStarts]
  /\ proc \in [Procs -> ProcStates]
  /\ \A p \in Procs : proc[p].pc \in {"idle", "sweep"} \/ proc[p].case \in Cases
  /\ actions \in Seq(Actions) /\ Len(actions) <= MaxActions
  /\ DOMAIN status \subseteq ActionIds
  /\ \A i \in DOMAIN status : status[i] \in Outcomes

-----------------------------------------------------------------------------
(* Safety. *)

AgentOf(c) == registry[c].agent

(* Among the first k of acts, one of case c for step s was approved. *)
ApprovedWithin(acts, c, s, k) ==
  \E m \in 1 .. k : /\ acts[m].case = c /\ acts[m].step = s
                    /\ acts[m].decision = "approved"

(* Among acts, one of case c for step s was rejected, or was approved and  *)
(* did not execute.                                                        *)
RejectedIn(acts, c, s) ==
  \E m \in 1 .. Len(acts) : /\ acts[m].case = c /\ acts[m].step = s
                            /\ acts[m].decision \in {"rejected", "failed"}

(* A write is put to the human only after every earlier step of its chain  *)
(* was approved: the propose nodes run in the order of _route_after_wait,  *)
(* each one on the approval of the step before it.                         *)
EveryProposalEarned ==
  \A n \in 1 .. Len(actions) :
    \A s \in Earlier(AgentOf(actions[n].case), actions[n].step) :
      ApprovedWithin(actions, actions[n].case, s, n - 1)

(* record_outcome reports "workflow completed" only for a case whose every *)
(* step a human approved.                                                  *)
CompletionEarned ==
  \A c \in Cases : ckpt[c].final_summary = "completed" =>
    \A s \in StepSet(AgentOf(c)) : ApprovedWithin(actions, c, s, Len(actions))

(* No write of case c is recorded in acts after the nth.                   *)
LatestOf(acts, c, n) == \A m \in n + 1 .. Len(acts) : acts[m].case # c

(* record_outcome reports "the ... step was rejected" only for the last     *)
(* write the case put to a human, and only once it was decided without     *)
(* being executed: the human rejected it, or approved it and its execution *)
(* failed, which the poller does not tell apart (bool(result["executed"])).*)
RejectedIsLastWrite ==
  \A c \in Cases : ckpt[c].final_summary = "rejected" =>
    \E n \in 1 .. Len(actions) :
      /\ actions[n].case = c /\ actions[n].step = ckpt[c].awaiting_step
      /\ actions[n].decision \in {"rejected", "failed"}
      /\ LatestOf(actions, c, n)

(* A process that resumes a paused case hands interrupt() the decision of  *)
(* the very action the case waits for ("until the poller observes the      *)
(* matching action_id resolved").                                          *)
ResumedWithOwnVerdict ==
  \A p \in Procs :
    Running(p, "wait_for_approval") /\ proc[p].verdict # "none" =>
      LET n == proc[p].mem.pending_action
      IN  /\ n \in 1 .. Len(actions)
          /\ actions[n].decision # "undecided"
          /\ proc[p].verdict = "approved" <=> actions[n].decision = "approved"

(* While a case waits for a human, the id it polls with has no result yet  *)
(* (get_action_status: "None while action_id is still awaiting a human     *)
(* decision").                                                             *)
PendingHasNoStatus ==
  \A c \in Cases :
    LET n == ckpt[c].pending_action
    IN  /\ ckpt[c].interrupted
        /\ n \in 1 .. Len(actions)
        /\ actions[n].decision = "undecided"
        => StatusOf(ckpt[c].action_id) = "none"

(* No two processes ever run the graph of one case at the same time. *)
OneRunnerPerCase ==
  \A p, q \in Procs :
    proc[p].pc = "run" /\ proc[q].pc = "run" /\ proc[p].case = proc[q].case
      => p = q

(* A human is never asked twice for the same step of the same case. *)
NoStepProposedTwice ==
  \A m, n \in 1 .. Len(actions) :
    /\ actions[m].case = actions[n].case
    /\ actions[m].step = actions[n].step
    => m = n

(* A registered case that is not finished either waits, where the poller   *)
(* will find it, or is being worked on.                                    *)
NoCaseStranded ==
  \A c \in Cases : Registered(c) /\ ~Done(ckpt[c]) =>
    \/ ckpt[c].interrupted
    \/ \E p \in Procs : /\ proc[p].pc \in {"registered", "resume", "run"}
                       /\ proc[p].case = c

(* A thread that has run a node and did not finish waits, or is being      *)
(* worked on: no thread is left between two nodes ("one thread per case,          *)
(* surviving process restarts", case_graph.py).                            *)
NoThreadStranded ==
  \A c \in Cases : ckpt[c].next \notin {"detect", "end"} /\ ~Done(ckpt[c]) =>
    \/ ckpt[c].interrupted
    \/ \E p \in Procs : /\ proc[p].pc \in {"registered", "resume", "run"}
                       /\ proc[p].case = c

(* What a case reports is its last word: the report stays as it is, and no *)
(* write of the case is put to a human after it.                           *)
ReportIsFinal ==
  [][\A c \in Cases : Done(ckpt[c]) =>
       /\ ckpt'[c].final_summary = ckpt[c].final_summary
       /\ \A n \in Len(actions) + 1 .. Len(actions') : actions'[n].case # c]_vars

(* Among the first k of acts, a call of case c was approved and executed.  *)
CalledWithin(acts, c, k) ==
  \E s \in FirstSteps : ApprovedWithin(acts, c, s, k)

(* Whatever ids are polled, however often a case is started, under either  *)
(* agent, and however many pollers resume it: no later write of a case is  *)
(* put to the human before its call (or kickoff call) was approved and     *)
(* executed.                                                               *)
CallGatesTheChain ==
  \A n \in 1 .. Len(actions) :
    \/ actions[n].step \in FirstSteps
    \/ CalledWithin(actions, actions[n].case, n - 1)

(* ... and whatever a case reports has some ground in what the humans      *)
(* decided about it: it is not completed unless its call was approved and  *)
(* executed, nor rejected unless one of its writes was not.                *)
ReportNotInvented ==
  \A c \in Cases :
    /\ ckpt[c].final_summary = "completed" =>
         CalledWithin(actions, c, Len(actions))
    /\ ckpt[c].final_summary = "rejected" =>
         \E s \in AllSteps : RejectedIn(actions, c, s)

(* Among the first k of acts, one of case c is for step s. *)
AskedWithin(acts, c, s, k) ==
  \E m \in 1 .. k : acts[m].case = c /\ acts[m].step = s

(* Every step but the first is put to a human after the ones before it.    *)
AskedInOrder ==
  \A n \in 1 .. Len(actions) :
    \A s \in Earlier(AgentOf(actions[n].case), actions[n].step) :
      AskedWithin(actions, actions[n].case, s, n - 1)

(* A case run under one agent never leaves out a step of its chain, though *)
(* its writes may share an id, its starts and sweeps overlap, and the      *)
(* processes that run it die: its steps are asked for in order, and a case *)
(* reported as completed has asked for all of them.                        *)
NoStepSkipped ==
  /\ AskedInOrder
  /\ \A c \in Cases : ckpt[c].final_summary = "completed" =>
       \A s \in StepSet(AgentOf(c)) : AskedWithin(actions, c, s, Len(actions))

-----------------------------------------------------------------------------
(* Liveness. *)

(* Every registered case whose status can be read is finished in the end,  *)
(* whatever the human decides and however often a poll fails meanwhile.    *)
EveryCaseFinishes ==
  \A c \in Cases \ Unreadable : Registered(c) ~> Done(ckpt[c])
=============================================================================
