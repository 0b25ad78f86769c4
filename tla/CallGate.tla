------------------------------ MODULE CallGate ------------------------------
(***************************************************************************)
(* What is left of the approval gate in any deployment of CaseRuntime:     *)
(* any number of pollers, a case_id started again and again and under      *)
(* either agent, ids shared by all writes of a case, crashes anywhere and  *)
(* executions that fail.  Steps may then be repeated or answered by the    *)
(* decision of another one, but nothing beyond the call of a case happens  *)
(* before that call was approved and executed.  And if a case_id is always *)
(* started under one agent, no step of its chain is left out either.       *)
(***************************************************************************)
EXTENDS CaseRuntime

(* The nodes that propose anything but a call. *)
LateNodes ==
  UNION {{ProposeNode[a][s] : s \in StepSet(a) \ FirstSteps} : a \in Agents}

Called(acts, c) == CalledWithin(acts, c, Len(acts))

Declined(acts, c) == \E s \in AllSteps : RejectedIn(acts, c, s)

(* The ids a write of case c may have been given. *)
IdsOf(acts, c) == {NoId, <<"process", c>>} \cup
            {<<"uuid", n>> : n \in {m \in 1 .. Len(acts) : acts[m].case = c}}

(* No id belongs to two cases, and every status is the fate of an action. *)
IdsApart ==
  /\ \A n \in 1 .. Len(actions) :
       actions[n].id \in {<<"process", actions[n].case>>, <<"uuid", n>>}
  /\ \A i \in DOMAIN status : \E n \in 1 .. Len(actions) :
       actions[n].id = i /\ actions[n].decision = status[i]

VerdictBacked(acts, c, v) ==
  /\ v = "approved" => Called(acts, c)
  /\ v = "rejected" => Declined(acts, c)

ThreadBacked(acts, c, t) ==
  /\ t.action_id \in IdsOf(acts, c)
  /\ t.next \in LateNodes => Called(acts, c)
  /\ t.next = "record_outcome" /\ t.stop_reason = "none" =>
       /\ t.last_action_result # "none"
       /\ VerdictBacked(acts, c, t.last_action_result)
  /\ t.final_summary = "completed" => Called(acts, c)
  /\ t.final_summary = "rejected" => Declined(acts, c)

ProcBacked(p) ==
  LET c == proc[p].case
  IN  /\ proc[p].pc \in {"idle", "sweep"} => proc[p].verdict = "none"
      /\ proc[p].pc = "poll" => proc[p].seen \in IdsOf(actions, c)
      /\ VerdictBacked(actions, c, proc[p].verdict)
      /\ proc[p].pc = "run" => ThreadBacked(actions, c, proc[p].mem)

(* The inductive invariant: a verdict may answer the wrong step, but it is *)
(* always one that the humans gave on a write of the same case, and the    *)
(* first of those was the call.                                            *)
GateInv ==
  /\ IdsApart
  /\ \A c \in Cases : ThreadBacked(actions, c, ckpt[c])
  /\ \A p \in Procs : ProcBacked(p)
  /\ CallGatesTheChain

-----------------------------------------------------------------------------
(* The chain of a case that is always run under the same agent: only then  *)
(* does every process that runs it follow the same edges.                  *)

OneAgentPerCase == \A c \in Cases : \A a, b \in AgentsFor[c] : a = b

Asked(acts, c, s) == AskedWithin(acts, c, s, Len(acts))

EarlierAsked(acts, a, c, s) == \A e \in Earlier(a, s) : Asked(acts, c, e)

ChainAsked(acts, a, c) == \A s \in StepSet(a) : Asked(acts, c, s)

(* Wherever thread t of case c is on its way along the edges of agent a,   *)
(* the steps behind it were asked for.                                     *)
Reached(acts, a, c, t) ==
  /\ \A s \in StepSet(a) :
       t.next = ProposeNode[a][s] => EarlierAsked(acts, a, c, s)
  /\ t.next = "wait_for_approval" =>
       /\ t.awaiting_step \in StepSet(a)
       /\ Asked(acts, c, t.awaiting_step)
       /\ EarlierAsked(acts, a, c, t.awaiting_step)
  /\ t.next = "record_outcome" /\ t.stop_reason = "none" =>
       t.last_action_result = "rejected" \/ ChainAsked(acts, a, c)
  /\ t.final_summary = "completed" => ChainAsked(acts, a, c)

(* Every process has its case from the operator or from the registry.      *)
ProcOnCourse(p) ==
  LET c == proc[p].case
      a == proc[p].agent
  IN  /\ proc[p].todo \subseteq Listed(a)
      /\ proc[p].pc \notin {"idle", "sweep"} => a \in AgentsFor[c]
      /\ proc[p].pc \in {"registered", "poll", "resume", "run"} => Registered(c)
      /\ proc[p].pc = "run" => Reached(actions, a, c, proc[p].mem)

CourseInv ==
  /\ \A c \in Cases :
       /\ registry[c] = NoRow \/ (Registered(c) /\ AgentOf(c) \in AgentsFor[c])
       /\ registry[c] = NoRow => ckpt[c] = NewThread
       /\ \A a \in AgentsFor[c] : Reached(actions, a, c, ckpt[c])
  /\ \A n \in 1 .. Len(actions) : Registered(actions[n].case)
  /\ \A p \in Procs : ProcOnCourse(p)
  /\ AskedInOrder
=============================================================================
