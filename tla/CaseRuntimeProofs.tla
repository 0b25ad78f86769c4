-------------------------- MODULE CaseRuntimeProofs --------------------------
(* Theorems about CaseRuntime, for every number of cases and processes. *)
EXTENDS CaseInvariant, TLAPS, FiniteSetTheorems, SequenceTheorems

-----------------------------------------------------------------------------
(* The node tables lead where the graphs have nodes. *)

LEMMA TablesLeadToNodes ==
  ASSUME NEW a \in Agents
  PROVE  /\ \A node \in DOMAIN Continue[a] :
              node \in ReadNodes /\ Continue[a][node] \in Nodes
         /\ PullNode[a] \in Nodes
         /\ Len(Steps[a]) \in Nat \ {0}
         /\ \A s \in StepSet(a) : s \in AllSteps /\ ProposeNode[a][s] \in Nodes
         /\ Steps[a][1] \in StepSet(a)
         /\ \A s \in DOMAIN AfterApproval[a] :
              s \in StepSet(a) /\ AfterApproval[a][s] \in Nodes
<1>1. CASE a = "order_renewal"
  BY <1>1 DEF Continue, RenewalContinue, ReadNodes, Nodes, PullNode, Steps,
     StepSet, AllSteps, ProposeNode, RenewalPropose, AfterApproval,
     RenewalAfterApproval
<1>2. CASE a = "customer_onboarding"
  BY <1>2 DEF Continue, OnboardingContinue, ReadNodes, Nodes, PullNode, Steps,
     StepSet, AllSteps, ProposeNode, OnboardingPropose, AfterApproval,
     OnboardingAfterApproval
<1> QED BY <1>1, <1>2 DEF Agents

LEMMA ThreadTypes ==
  ASSUME NEW t \in Threads, NEW a \in Agents
  PROVE  /\ StartedFrom(t) \in Threads
         /\ t.next \in DOMAIN Continue[a] => Passed(a, t) \in Threads
         /\ Stopped(t) \in Threads
         /\ Pulled(a, t) \in Threads
         /\ \A s \in StepSet(a), id \in ActionIds, n \in Nat :
              Proposed(t, s, id, n) \in Threads
         /\ Paused(t) \in Threads
         /\ \A d \in Decisions : Resumed(a, t, d) \in Threads
         /\ Recorded(t) \in Threads
<1> USE TablesLeadToNodes DEF Threads
<1>n. {"record_outcome", "detect", "wait_for_approval", "end"} \subseteq Nodes
  BY DEF Nodes, ReadNodes
<1>1. StartedFrom(t) \in Threads
  BY <1>n DEF StartedFrom
<1>2. ASSUME t.next \in DOMAIN Continue[a] PROVE Passed(a, t) \in Threads
  BY <1>2, <1>n DEF Passed, RouteAfterCheck
<1>3. Stopped(t) \in Threads
  BY <1>n DEF Stopped, RouteAfterCheck
<1>4. Pulled(a, t) \in Threads
  BY DEF Pulled
<1>5. ASSUME NEW s \in StepSet(a), NEW id \in ActionIds, NEW n \in Nat
      PROVE  Proposed(t, s, id, n) \in Threads
  BY <1>n DEF Proposed, RouteAfterCheck
<1>6. Paused(t) \in Threads
  BY DEF Paused
<1>7. ASSUME NEW d \in Decisions PROVE Resumed(a, t, d) \in Threads
  BY <1>n DEF Resumed, RouteAfterWait
<1>8. Recorded(t) \in Threads
  BY <1>n DEF Recorded, Outcome, Summaries
<1> QED BY <1>1, <1>2, <1>3, <1>4, <1>5, <1>6, <1>7, <1>8

-----------------------------------------------------------------------------
(* Type correctness. *)

LEMMA NewThreadType == NewThread \in Threads
BY DEF NewThread, Threads, Nodes, ReadNodes, ActionIds

LEMMA NewThreadRuns == ~NewThread.interrupted /\ ~Done(NewThread)
BY DEF NewThread, Done

LEMMA IdleProcType == IdleProc \in ProcStates
BY NewThreadType DEF IdleProc, ProcStates, FirstAgent, Agents, ActionIds

LEMMA ReturnedType ==
  ASSUME TypeOK, NEW p \in Procs
  PROVE  Returned(p) \in ProcStates /\ Returned(p).pc \in {"idle", "sweep"}
<1>1. proc[p] \in ProcStates
  BY DEF TypeOK
<1> QED BY <1>1, IdleProcType DEF Returned, IdleProc, ProcStates

(* What every node leaves behind is well typed, if the thread it left is. *)
LEMMA LeaveType ==
  ASSUME TypeOK, NEW p \in Procs, NEW t \in Threads, proc[p].pc = "run",
         Leave(p, t)
  PROVE  /\ ckpt' \in [Cases -> Threads]
         /\ proc' \in [Procs -> ProcStates]
         /\ \A q \in Procs :
              proc'[q].pc \in {"idle", "sweep"} \/ proc'[q].case \in Cases
<1>1. proc[p] \in ProcStates /\ proc[p].case \in Cases
  BY DEF TypeOK
<1>2. ckpt' \in [Cases -> Threads]
  BY DEF Leave, Checkpoint, TypeOK
<1>3. CASE proc' = [proc EXCEPT ![p] = Returned(p)]
  BY <1>2, <1>3, ReturnedType DEF TypeOK
<1>4. CASE proc' = [proc EXCEPT ![p] = [@ EXCEPT !.mem = t, !.verdict = "none"]]
  <2>1. [proc[p] EXCEPT !.mem = t, !.verdict = "none"] \in ProcStates
    BY <1>1 DEF ProcStates
  <2> QED BY <1>1, <1>2, <1>4, <2>1 DEF TypeOK
<1> QED BY <1>3, <1>4 DEF Leave

LEMMA GateTypes ==
  ASSUME TypeOK
  PROVE  /\ \A c \in Cases, s \in AllSteps :
              /\ \A b : Len(actions) < MaxActions => NewId(c, b) \in ActionIds
              /\ \A id \in ActionIds :
                   RecordAction(c, s, id) /\ Len(actions) < MaxActions =>
                     /\ actions' \in Seq(Actions) /\ Len(actions') <= MaxActions
                     /\ Len(actions') = Len(actions) + 1
         /\ \A n \in 1 .. Len(actions), d \in Outcomes :
              Decide(n, d) =>
                /\ actions' \in Seq(Actions) /\ Len(actions') = Len(actions)
                /\ DOMAIN status' \subseteq ActionIds
                /\ \A i \in DOMAIN status' : status'[i] \in Outcomes
         /\ \A id : StatusOf(id) \in Outcomes \cup {"none"}
<1>0. Len(actions) \in Nat /\ MaxActions \in Nat
  BY BoundAssumption DEF TypeOK
<1>1. ASSUME NEW c \in Cases, NEW b, Len(actions) < MaxActions
      PROVE  NewId(c, b) \in ActionIds
  BY <1>0, <1>1 DEF NewId, ActionIds
<1>2. ASSUME NEW c \in Cases, NEW s \in AllSteps, NEW id \in ActionIds,
             RecordAction(c, s, id), Len(actions) < MaxActions
      PROVE  /\ actions' \in Seq(Actions) /\ Len(actions') <= MaxActions
             /\ Len(actions') = Len(actions) + 1
  <2>1. [case |-> c, step |-> s, id |-> id, decision |-> "undecided"] \in Actions
    BY DEF Actions
  <2> QED BY <1>0, <1>2, <2>1, AppendProperties DEF RecordAction, TypeOK
<1>3. ASSUME NEW n \in 1 .. Len(actions), NEW d \in Outcomes, Decide(n, d)
      PROVE  /\ actions' \in Seq(Actions) /\ Len(actions') = Len(actions)
             /\ DOMAIN status' \subseteq ActionIds
             /\ \A i \in DOMAIN status' : status'[i] \in Outcomes
  <2>1. actions[n] \in Actions
    BY ElementOfSeq DEF TypeOK
  <2>2. [actions[n] EXCEPT !.decision = d] \in Actions
    BY <2>1 DEF Actions
  <2>3. actions' = [actions EXCEPT ![n] = [actions[n] EXCEPT !.decision = d]]
    BY <1>3 DEF Decide
  <2>4. actions' \in Seq(Actions) /\ Len(actions') = Len(actions)
    BY <2>2, <2>3, ExceptSeq DEF TypeOK
  <2>5. actions[n].id \in ActionIds
    BY <2>1 DEF Actions
  <2> QED BY <1>3, <2>4, <2>5 DEF Decide, TypeOK
<1>4. ASSUME NEW id PROVE StatusOf(id) \in Outcomes \cup {"none"}
  BY DEF StatusOf, TypeOK
<1> QED BY <1>1, <1>2, <1>3, <1>4

LEMMA TypeInit == Init => TypeOK
<1> SUFFICES ASSUME Init PROVE TypeOK
  OBVIOUS
<1>1. registry \in [Cases -> [agent : Agents \cup {"none"}, at : Nat]]
  BY DEF Init, NoRow
<1>2. starts \in [Cases -> 0 .. MaxStarts]
  BY BoundAssumption DEF Init
<1>3. actions \in Seq(Actions) /\ Len(actions) <= MaxActions
  BY BoundAssumption, EmptySeq DEF Init, GateInit
<1>4. DOMAIN status = {}
  BY DEF Init, GateInit
<1> QED
  BY <1>1, <1>2, <1>3, <1>4, NewThreadType, IdleProcType
  DEF Init, TypeOK, IdleProc

(* Each node is one Leave, on a thread the node may leave behind. *)
LEMMA RunNodeType ==
  ASSUME TypeOK, NEW p \in Procs, RunNode(p) PROVE TypeOK'
<1>1. /\ proc[p] \in ProcStates
      /\ proc[p].mem \in Threads /\ proc[p].agent \in Agents
  BY DEF TypeOK, ProcStates
<1>2. proc[p].pc = "run" /\ proc[p].case \in Cases
  BY DEF TypeOK, RunNode, RunCheck, RunPull, RunPropose, RunWait,
     RunRecordOutcome, Running
<1>3. ASSUME NEW t \in Threads, Leave(p, t), UNCHANGED <<registry, starts>>,
             /\ actions' \in Seq(Actions) /\ Len(actions') <= MaxActions
             /\ status' = status
      PROVE  TypeOK'
  BY <1>2, <1>3, LeaveType DEF TypeOK
<1>4. CASE RunCheck(p)
  BY <1>1, <1>3, <1>4, ThreadTypes DEF RunCheck, Running, gateVars, TypeOK
<1>5. CASE RunPull(p)
  BY <1>1, <1>3, <1>5, ThreadTypes DEF RunPull, gateVars, TypeOK
<1>6. CASE RunPropose(p)
  <2> DEFINE c == proc[p].case
             id == NewId(c, PassesProcessId[proc[p].agent])
  <2>1. PICK s \in StepSet(proc[p].agent) :
          /\ \/ /\ Len(actions) < MaxActions
                /\ RecordAction(c, s, id)
                /\ \/ Leave(p, Proposed(proc[p].mem, s, id, Len(actions) + 1))
                   \/ Leave(p, Stopped(proc[p].mem))
             \/ Leave(p, Stopped(proc[p].mem)) /\ UNCHANGED gateVars
          /\ UNCHANGED <<registry, starts>>
    BY <1>6 DEF RunPropose
  <2>2. s \in AllSteps
    BY <1>1, TablesLeadToNodes
  <2>3. Len(actions) + 1 \in Nat
    BY DEF TypeOK
  <2>4. CASE Leave(p, Stopped(proc[p].mem)) /\ UNCHANGED gateVars
    BY <1>1, <1>3, <2>1, <2>4, ThreadTypes DEF gateVars, TypeOK
  <2>5. CASE Len(actions) < MaxActions /\ RecordAction(c, s, id)
    <3>1. /\ id \in ActionIds
          /\ actions' \in Seq(Actions) /\ Len(actions') <= MaxActions
      BY <1>2, <2>2, <2>5, GateTypes
    <3>2. status' = status
      BY <2>5 DEF RecordAction
    <3>3. /\ Proposed(proc[p].mem, s, id, Len(actions) + 1) \in Threads
          /\ Stopped(proc[p].mem) \in Threads
      BY <1>1, <2>3, <3>1, ThreadTypes
    <3>4. \/ Leave(p, Proposed(proc[p].mem, s, id, Len(actions) + 1))
          \/ Leave(p, Stopped(proc[p].mem))
      BY <2>1
    <3> QED BY <1>3, <2>1, <3>1, <3>2, <3>3, <3>4
  <2> QED BY <2>1, <2>4, <2>5
<1>7. CASE RunWait(p)
  <2>1. proc[p].verdict \in Decisions \cup {"none"}
    BY <1>1 DEF ProcStates
  <2> QED BY <1>1, <1>3, <1>7, <2>1, ThreadTypes DEF RunWait, gateVars, TypeOK
<1>8. CASE RunRecordOutcome(p)
  BY <1>1, <1>3, <1>8, ThreadTypes DEF RunRecordOutcome, gateVars, TypeOK
<1> QED BY <1>4, <1>5, <1>6, <1>7, <1>8 DEF RunNode

(* A step of p that only gives p a well-typed state. *)
LEMMA ProcStepType ==
  ASSUME TypeOK, NEW p \in Procs, NEW st \in ProcStates,
         st.pc \in {"idle", "sweep"} \/ st.case \in Cases,
         proc' = [proc EXCEPT ![p] = st]
  PROVE  /\ proc' \in [Procs -> ProcStates]
         /\ \A q \in Procs :
              proc'[q].pc \in {"idle", "sweep"} \/ proc'[q].case \in Cases
BY DEF TypeOK

LEMMA StarterType ==
  ASSUME TypeOK, NEW p \in Starters, StarterNext(p) PROVE TypeOK'
<1>0. p \in Procs /\ proc[p] \in ProcStates
  BY DEF Procs, TypeOK
<1>1. ASSUME NEW c \in Cases, NEW a \in AgentsFor[c], BeginStart(p, c, a)
      PROVE  TypeOK'
  <2> DEFINE st == [IdleProc EXCEPT !.pc = "checked", !.agent = a, !.case = c]
  <2>1. st \in ProcStates /\ st.case \in Cases
    BY IdleProcType, AgentAssumption DEF ProcStates, IdleProc
  <2>2. starts' \in [Cases -> 0 .. MaxStarts]
    <3>1. starts[c] \in 0 .. MaxStarts /\ starts[c] < MaxStarts
      BY <1>1 DEF BeginStart, TypeOK
    <3> QED BY <1>1, <3>1, BoundAssumption DEF BeginStart, TypeOK
  <2>3. proc' = [proc EXCEPT ![p] = st]
    BY <1>1 DEF BeginStart
  <2> HIDE DEF st
  <2> QED BY <1>0, <1>1, <2>1, <2>2, <2>3, ProcStepType
          DEF BeginStart, gateVars, TypeOK
<1>2. CASE Register(p)
  <2> DEFINE st == [proc[p] EXCEPT !.pc = "registered"]
  <2>1. st \in ProcStates /\ st.case \in Cases
    BY <1>0, <1>2 DEF ProcStates, Register, TypeOK
  <2>2. 1 + Cardinality({d \in Cases : Registered(d)}) \in Nat
    BY CaseAssumption, FS_Subset, FS_CardinalityType
  <2>3. registry' \in [Cases -> [agent : Agents \cup {"none"}, at : Nat]]
    BY <1>0, <1>2, <2>2 DEF Register, TypeOK, ProcStates
  <2>4. proc' = [proc EXCEPT ![p] = st]
    BY <1>2 DEF Register
  <2> HIDE DEF st
  <2> QED BY <1>0, <1>2, <2>1, <2>3, <2>4, ProcStepType
          DEF Register, gateVars, TypeOK
<1>3. CASE InvokeInitial(p)
  <2> DEFINE t == StartedFrom(ckpt[proc[p].case])
             st == [proc[p] EXCEPT !.pc = "run", !.mem = t]
  <2>0. proc[p].case \in Cases /\ ckpt[proc[p].case] \in Threads
    BY <1>0, <1>3 DEF InvokeInitial, TypeOK
  <2>1. t \in Threads
    BY <2>0, ThreadTypes DEF Agents
  <2>2. st \in ProcStates /\ st.case \in Cases
    BY <1>0, <2>0, <2>1 DEF ProcStates
  <2>3. ckpt' \in [Cases -> Threads]
    BY <1>3, <2>1 DEF InvokeInitial, Checkpoint, TypeOK
  <2>4. proc' = [proc EXCEPT ![p] = st]
    BY <1>3 DEF InvokeInitial
  <2> HIDE DEF st, t
  <2> QED BY <1>0, <1>3, <2>2, <2>3, <2>4, ProcStepType
          DEF InvokeInitial, gateVars, TypeOK
<1> QED BY <1>1, <1>2, <1>3 DEF StarterNext

LEMMA PollerType ==
  ASSUME TypeOK, NEW p \in Pollers, PollerNext(p) PROVE TypeOK'
<1>0. p \in Procs /\ proc[p] \in ProcStates
  BY DEF Procs, TypeOK
<1>a. ASSUME NEW st \in ProcStates, proc' = [proc EXCEPT ![p] = st],
             st.pc \in {"idle", "sweep"} \/ st.case \in Cases,
             UNCHANGED <<registry, ckpt, starts, gateVars>>
      PROVE  TypeOK'
  BY <1>0, <1>a, ProcStepType DEF TypeOK, gateVars
<1>1. CASE BeginSweep(p)
  <2> DEFINE st == [IdleProc EXCEPT !.pc = "sweep", !.todo = Listed(FirstAgent)]
  <2>1. st \in ProcStates /\ st.pc = "sweep"
    BY IdleProcType DEF ProcStates, IdleProc, Listed
  <2> HIDE DEF st
  <2> QED BY <1>1, <1>a, <2>1 DEF BeginSweep, st
<1>2. CASE SweepNext(p)
  <2>1. PICK c \in proc[p].todo :
          proc' = [proc EXCEPT ![p] =
            IF WorthPolling(ckpt[c])
            THEN [proc[p] EXCEPT !.pc = "poll", !.todo = proc[p].todo \ {c},
                                 !.case = c, !.seen = ckpt[c].action_id]
            ELSE [proc[p] EXCEPT !.todo = proc[p].todo \ {c}]]
    BY <1>2 DEF SweepNext
  <2>2. c \in Cases /\ ckpt[c].action_id \in ActionIds
    BY <1>0 DEF ProcStates, TypeOK, Threads
  <2> DEFINE polled == [proc[p] EXCEPT !.pc = "poll",
                                       !.todo = proc[p].todo \ {c},
                                       !.case = c, !.seen = ckpt[c].action_id]
             passed == [proc[p] EXCEPT !.todo = proc[p].todo \ {c}]
  <2>3. polled \in ProcStates /\ polled.case \in Cases
    BY <1>0, <2>2 DEF ProcStates
  <2>4. passed \in ProcStates /\ passed.pc = "sweep"
    BY <1>0, <1>2 DEF ProcStates, SweepNext
  <2> QED BY <1>2, <1>a, <2>1, <2>3, <2>4 DEF SweepNext
<1>3. CASE SweepAgentDone(p)
  <2> DEFINE st == [proc[p] EXCEPT !.agent = LastAgent, !.todo = Listed(LastAgent)]
  <2>1. st \in ProcStates /\ st.pc = "sweep"
    BY <1>0, <1>3 DEF ProcStates, SweepAgentDone, LastAgent, Agents, Listed
  <2> QED BY <1>3, <1>a, <2>1, IdleProcType DEF SweepAgentDone, IdleProc
<1>4. CASE PollAnswered(p)
  <2> DEFINE result == StatusOf(proc[p].seen)
             st == [proc[p] EXCEPT !.pc = "resume", !.verdict = Resolved(result)]
  <2>1. Resolved(result) \in Decisions
    BY DEF Resolved, Decisions
  <2>2. st \in ProcStates /\ st.case \in Cases
    BY <1>0, <1>4, <2>1 DEF ProcStates, PollAnswered, TypeOK
  <2> QED BY <1>0, <1>4, <1>a, <2>2, ReturnedType DEF PollAnswered
<1>5. CASE PollFails(p)
  BY <1>5, <1>a, IdleProcType DEF PollFails, IdleProc
<1>6. CASE InvokeResume(p)
  <2> DEFINE t == ckpt[proc[p].case]
             st == [proc[p] EXCEPT !.pc = "run", !.mem = t]
  <2>1. proc[p].case \in Cases /\ t \in Threads
    BY <1>0, <1>6 DEF InvokeResume, TypeOK
  <2>2. st \in ProcStates /\ st.case \in Cases
    BY <1>0, <2>1 DEF ProcStates
  <2> QED BY <1>0, <1>6, <1>a, <2>2, ReturnedType DEF InvokeResume
<1> QED BY <1>1, <1>2, <1>3, <1>4, <1>5, <1>6 DEF PollerNext

LEMMA TypeStep == TypeOK /\ [Next]_vars => TypeOK'
<1> SUFFICES ASSUME TypeOK, [Next]_vars PROVE TypeOK'
  OBVIOUS
<1>1. ASSUME NEW p \in Procs, Dies(p) PROVE TypeOK'
  BY <1>1, ProcStepType, IdleProcType DEF Dies, TypeOK, gateVars, IdleProc
<1>2. ASSUME NEW n \in 1 .. Len(actions), HumanDecides(n) PROVE TypeOK'
  BY <1>2, GateTypes DEF HumanDecides, TypeOK
<1>3. CASE UNCHANGED vars
  BY <1>3 DEF vars, TypeOK
<1> QED BY <1>1, <1>2, <1>3, StarterType, PollerType, RunNodeType DEF Next

(* Every store and every process keeps the values its columns, fields and  *)
(* program points allow, for any number of cases, starters and pollers.    *)
THEOREM TypeCorrect == Spec => []TypeOK
BY TypeInit, TypeStep, PTL DEF Spec

-----------------------------------------------------------------------------
(* The agents, and the chains of steps they run. *)

LEMMA RunAgentsTyped == RunAgents \subseteq Agents
BY AgentAssumption DEF RunAgents

LEMMA RenewalChain ==
  /\ StepSet("order_renewal") = {"call", "notice", "record_update"}
  /\ Earlier("order_renewal", "call") = {}
  /\ Earlier("order_renewal", "notice") = {"call"}
  /\ Earlier("order_renewal", "record_update") = {"call", "notice"}
<1> DEFINE S == <<"call", "notice", "record_update">>
<1>1. Steps["order_renewal"] = S
  BY DEF Steps
<1>2. Len(S) = 3 /\ S[1] = "call" /\ S[2] = "notice" /\ S[3] = "record_update"
  OBVIOUS
<1>3. 1 .. 3 = {1, 2, 3}
  OBVIOUS
<1> HIDE DEF S
<1>4. \A s : Earlier("order_renewal", s) =
               {S[i] : i \in {j \in {1, 2, 3} : \E k \in {1, 2, 3} : j < k /\ S[k] = s}}
  BY <1>1, <1>2, <1>3 DEF Earlier
<1>5. StepSet("order_renewal") = {S[i] : i \in {1, 2, 3}}
  BY <1>1, <1>2, <1>3 DEF StepSet
<1> QED BY <1>2, <1>4, <1>5

LEMMA OnboardingChain ==
  /\ StepSet("customer_onboarding") =
       {"kickoff_call", "welcome_notice", "onboarding_ticket", "record_update"}
  /\ Earlier("customer_onboarding", "kickoff_call") = {}
  /\ Earlier("customer_onboarding", "welcome_notice") = {"kickoff_call"}
  /\ Earlier("customer_onboarding", "onboarding_ticket") =
       {"kickoff_call", "welcome_notice"}
  /\ Earlier("customer_onboarding", "record_update") =
       {"kickoff_call", "welcome_notice", "onboarding_ticket"}
<1> DEFINE S == <<"kickoff_call", "welcome_notice", "onboarding_ticket",
                  "record_update">>
<1>1. Steps["customer_onboarding"] = S
  BY DEF Steps
<1>2. /\ Len(S) = 4 /\ S[1] = "kickoff_call" /\ S[2] = "welcome_notice"
      /\ S[3] = "onboarding_ticket" /\ S[4] = "record_update"
  OBVIOUS
<1>3. 1 .. 4 = {1, 2, 3, 4}
  OBVIOUS
<1> HIDE DEF S
<1>4. \A s : Earlier("customer_onboarding", s) =
               {S[i] : i \in {j \in {1, 2, 3, 4} :
                               \E k \in {1, 2, 3, 4} : j < k /\ S[k] = s}}
  BY <1>1, <1>2, <1>3 DEF Earlier
<1>5. StepSet("customer_onboarding") = {S[i] : i \in {1, 2, 3, 4}}
  BY <1>1, <1>2, <1>3 DEF StepSet
<1> QED BY <1>2, <1>4, <1>5

(* Approving a step leads to the step whose predecessors it completes; the *)
(* step that leads nowhere completes the chain; the first has none.        *)
LEMMA ChainOrder ==
  ASSUME NEW a \in Agents
  PROVE  /\ \A s \in DOMAIN AfterApproval[a], r \in StepSet(a) :
              AfterApproval[a][s] = ProposeNode[a][r] =>
                Earlier(a, r) \subseteq Earlier(a, s) \cup {s}
         /\ \A s \in StepSet(a) : s \notin DOMAIN AfterApproval[a] =>
              StepSet(a) \subseteq Earlier(a, s) \cup {s}
         /\ \A r \in StepSet(a) :
              ProposeNode[a][Steps[a][1]] = ProposeNode[a][r] => Earlier(a, r) = {}
<1>1. CASE a = "order_renewal"
  <2>1. Steps[a][1] = "call"
    BY <1>1 DEF Steps
  <2> QED BY <1>1, <2>1, RenewalChain
          DEF AfterApproval, RenewalAfterApproval, ProposeNode, RenewalPropose
<1>2. CASE a = "customer_onboarding"
  <2>1. Steps[a][1] = "kickoff_call"
    BY <1>2 DEF Steps
  <2> QED BY <1>2, <2>1, OnboardingChain
          DEF AfterApproval, OnboardingAfterApproval, ProposeNode,
              OnboardingPropose
<1> QED BY <1>1, <1>2 DEF Agents

(* The nodes that propose are none of the others. *)
LEMMA ProposersApart ==
  ASSUME NEW a \in Agents, NEW s \in StepSet(a)
  PROVE  /\ ProposeNode[a][s] \notin {"wait_for_approval", "record_outcome",
                                      "detect", "end", PullNode[a]}
         /\ \A node \in DOMAIN Continue[a] :
              /\ node \notin {"wait_for_approval", "record_outcome", "end"}
              /\ Continue[a][node] \notin
                   {"wait_for_approval", "record_outcome", "end",
                    ProposeNode[a][s]}
         /\ \A r \in DOMAIN AfterApproval[a] :
              AfterApproval[a][r] \notin {"wait_for_approval", "record_outcome",
                                          "end"}
         /\ PullNode[a] \notin {"wait_for_approval", "record_outcome", "end"}
         /\ ProposeNode[a][Steps[a][1]] \notin
              {"wait_for_approval", "record_outcome", "end"}
<1>1. CASE a = "order_renewal"
  BY <1>1, RenewalChain
  DEF Steps, ProposeNode, RenewalPropose, PullNode, Continue, RenewalContinue,
      AfterApproval, RenewalAfterApproval
<1>2. CASE a = "customer_onboarding"
  BY <1>2, OnboardingChain
  DEF Steps, ProposeNode, OnboardingPropose, PullNode, Continue,
      OnboardingContinue, AfterApproval, OnboardingAfterApproval
<1> QED BY <1>1, <1>2 DEF Agents

-----------------------------------------------------------------------------
(* The gate's record only grows, and a decision once made stays. *)

Grows(old, new) ==
  /\ Len(old) \in Nat /\ Len(new) \in Nat /\ Len(old) <= Len(new)
  /\ \A n \in 1 .. Len(old) :
       /\ new[n].case = old[n].case
       /\ new[n].step = old[n].step
       /\ new[n].id = old[n].id
       /\ old[n].decision # "undecided" => new[n].decision = old[n].decision

LEMMA RecordTyped ==
  ASSUME TypeOK
  PROVE  /\ Len(actions) \in Nat
         /\ \A n \in 1 .. Len(actions) : /\ actions[n] \in Actions
                                        /\ actions[n].case \in Cases
<1>1. actions \in Seq(Actions)
  BY DEF TypeOK
<1>2. \A n \in 1 .. Len(actions) : actions[n] \in Actions
  BY <1>1, ElementOfSeq
<1> QED BY <1>1, <1>2 DEF Actions

LEMMA RecordsGrow ==
  ASSUME TypeOK, NEW c \in Cases, NEW s \in AllSteps, NEW id \in ActionIds,
         RecordAction(c, s, id)
  PROVE  /\ Grows(actions, actions')
         /\ Len(actions') = Len(actions) + 1
         /\ actions'[Len(actions) + 1].case = c
         /\ actions'[Len(actions) + 1].step = s
         /\ actions'[Len(actions) + 1].id = id
         /\ actions'[Len(actions) + 1].decision = "undecided"
         /\ status' = status
<1> DEFINE act == [case |-> c, step |-> s, id |-> id, decision |-> "undecided"]
<1>1. act \in Actions
  BY DEF Actions
<1>2. Len(actions) \in Nat /\ actions \in Seq(Actions)
  BY DEF TypeOK
<1>3. actions' = Append(actions, act) /\ status' = status
  BY DEF RecordAction
<1>4. /\ Len(actions') = Len(actions) + 1
      /\ \A n \in 1 .. Len(actions) : actions'[n] = actions[n]
      /\ actions'[Len(actions) + 1] = act
  BY <1>1, <1>2, <1>3, AppendProperties
<1> QED BY <1>2, <1>3, <1>4 DEF Grows

LEMMA DecisionsGrow ==
  ASSUME TypeOK, NEW n \in 1 .. Len(actions), NEW d \in Outcomes, Decide(n, d)
  PROVE  /\ Grows(actions, actions')
         /\ Len(actions') = Len(actions)
         /\ actions'[n].decision = d
         /\ \A m \in 1 .. Len(actions) : m # n => actions'[m] = actions[m]
<1> DEFINE act == [actions[n] EXCEPT !.decision = d]
<1>1. actions \in Seq(Actions) /\ Len(actions) \in Nat /\ actions[n] \in Actions
  BY ElementOfSeq DEF TypeOK
<1>2. act \in Actions
  BY <1>1 DEF Actions
<1>3. actions' = [actions EXCEPT ![n] = act] /\ actions[n].decision = "undecided"
  BY DEF Decide
<1>4. /\ Len(actions') = Len(actions)
      /\ \A m \in 1 .. Len(actions) :
           actions'[m] = IF m = n THEN act ELSE actions[m]
  BY <1>1, <1>2, <1>3, ExceptSeq
<1>5. /\ act.case = actions[n].case /\ act.step = actions[n].step
      /\ act.id = actions[n].id /\ act.decision = d
  BY <1>1 DEF Actions
<1> HIDE DEF act
<1> QED BY <1>1, <1>3, <1>4, <1>5 DEF Grows

-----------------------------------------------------------------------------
(* Custody: which process has which case in hand.  Every step is the step  *)
(* of one process; what is left to show is what becomes of that process    *)
(* and of the case it has in hand.                                         *)

LEMMA StarterUntouched ==
  ASSUME NEW q \in Starters, StarterInv(q), proc'[q] = proc[q],
         proc[q].pc # "idle" =>
           /\ registry'[proc[q].case] = registry[proc[q].case]
           /\ ckpt'[proc[q].case] = ckpt[proc[q].case]
           /\ starts'[proc[q].case] # 0
  PROVE  StarterInv(q)'
BY DEF StarterInv, Registered, AgentOf

LEMMA PollerUntouched ==
  ASSUME NEW q \in Pollers, PollerInv(q), proc'[q] = proc[q],
         Held(q) => /\ registry'[proc[q].case] = registry[proc[q].case]
                    /\ ckpt'[proc[q].case] = ckpt[proc[q].case],
         Listed(proc[q].agent) \subseteq Listed(proc[q].agent)'
  PROVE  PollerInv(q)'
<1>1. (Held(q) => Registered(proc[q].case) /\ AgentOf(proc[q].case) = proc[q].agent)'
  BY DEF PollerInv, Held, Registered, AgentOf
<1>2. (proc[q].todo \subseteq Listed(proc[q].agent))'
  BY DEF PollerInv, Listed
<1>3. (proc[q].pc \in {"poll", "resume"} =>
         ckpt[proc[q].case].interrupted /\ proc[q].seen = ckpt[proc[q].case].action_id)'
  BY DEF PollerInv, Held
<1> QED BY <1>1, <1>2, <1>3 DEF PollerInv

LEMMA CustodyInit == ASSUME Init PROVE Custody
<1>1. \A p \in Procs : proc[p] = IdleProc
  BY DEF Init
<1>2. Exclusive
  BY <1>1 DEF Exclusive, Held, IdleProc
<1>3. \A p \in Starters : StarterInv(p)
  BY <1>1 DEF Procs, StarterInv, IdleProc
<1>4. \A p \in Pollers : PollerInv(p)
  BY <1>1 DEF Procs, PollerInv, IdleProc, Held
<1>5. RegistryInv
  BY DEF Init, RegistryInv
<1> QED BY <1>2, <1>3, <1>4, <1>5 DEF Custody

LEMMA CustodyMoves ==
  ASSUME TypeOK, Custody, NEW p \in Procs,
         \A q \in Procs : q # p => proc'[q] = proc[q],
         \A q \in Procs : q # p /\ Held(q) =>
           /\ registry'[proc[q].case] = registry[proc[q].case]
           /\ ckpt'[proc[q].case] = ckpt[proc[q].case]
           /\ starts'[proc[q].case] = starts[proc[q].case]
           /\ Held(p)' => proc[q].case # proc'[p].case,
         \A d \in Cases : Registered(d) => registry'[d] = registry[d],
         p \in Starters => StarterInv(p)', p \in Pollers => PollerInv(p)',
         RegistryInv'
  PROVE  Custody'
<1>1. Exclusive'
  <2>1. ASSUME NEW q \in Procs, NEW r \in Procs, Held(q)', Held(r)',
               proc'[q].case = proc'[r].case
        PROVE  q = r
    <3>1. CASE q # p /\ r # p
      BY <2>1, <3>1 DEF Custody, Exclusive, Held
    <3>2. CASE q = p /\ r # p
      BY <2>1, <3>2 DEF Held
    <3>3. CASE q # p /\ r = p
      BY <2>1, <3>3 DEF Held
    <3> QED BY <3>1, <3>2, <3>3
  <2> QED BY <2>1 DEF Exclusive
<1>2. ASSUME NEW q \in Starters PROVE StarterInv(q)'
  <2>1. StarterInv(q) /\ q \in Procs
    BY DEF Custody, Procs
  <2>2. CASE q # p
    <3>1. proc[q].pc # "idle" => Held(q) /\ starts[proc[q].case] # 0
      BY <2>1 DEF StarterInv, Held
    <3> QED BY <2>1, <2>2, <3>1, StarterUntouched
  <2> QED BY <2>2
<1>3. ASSUME NEW q \in Pollers PROVE PollerInv(q)'
  <2>1. PollerInv(q) /\ q \in Procs
    BY DEF Custody, Procs
  <2>2. CASE q # p
    <3>1. proc'[q] = proc[q]
      BY <2>1, <2>2
    <3>2. (Listed(proc[q].agent) \subseteq Listed(proc[q].agent)')
      <4>1. proc[q].agent \in Agents /\ "none" \notin Agents
        BY <2>1 DEF TypeOK, ProcStates, Agents
      <4>2. \A d \in Cases : registry[d].agent = proc[q].agent => Registered(d)
        BY <4>1 DEF Custody, RegistryInv, NoRow
      <4> QED BY <3>1, <4>2 DEF Listed
    <3> QED BY <2>1, <2>2, <3>1, <3>2, PollerUntouched
  <2> QED BY <2>2
<1> QED BY <1>1, <1>2, <1>3 DEF Custody

(* ... and when it leaves the stores alone too. *)
LEMMA CustodyProcOnly ==
  ASSUME TypeOK, Custody, NEW p \in Procs,
         UNCHANGED <<registry, ckpt, starts>>,
         \A q \in Procs : q # p => proc'[q] = proc[q],
         Held(p)' => \A q \in Procs :
           q # p /\ Held(q) => proc[q].case # proc'[p].case,
         p \in Starters => StarterInv(p)', p \in Pollers => PollerInv(p)'
  PROVE  Custody'
<1>1. RegistryInv'
  BY DEF Custody, RegistryInv, Registered, AgentOf
<1> QED BY <1>1, CustodyMoves

(* The process running a case is the only one that has it in hand. *)
LEMMA RunnerHolds ==
  ASSUME TypeOK, Custody, NEW p \in Procs, proc[p].pc = "run"
  PROVE  /\ proc[p].agent \in Agents /\ proc[p].case \in Cases
         /\ proc[p].mem \in Threads /\ proc[p].agent \in RunAgents
         /\ Registered(proc[p].case) /\ AgentOf(proc[p].case) = proc[p].agent
         /\ \A q \in Procs : q # p /\ Held(q) => proc[q].case # proc[p].case
<1>1. /\ proc[p].agent \in Agents /\ proc[p].case \in Cases
      /\ proc[p].mem \in Threads
  BY DEF TypeOK, ProcStates
<1>2. Registered(proc[p].case) /\ AgentOf(proc[p].case) = proc[p].agent /\ Held(p)
  BY DEF Procs, Custody, StarterInv, PollerInv, Held
<1>3. proc[p].agent \in RunAgents
  BY <1>1, <1>2 DEF Custody, RegistryInv, Registered, NoRow
<1> QED BY <1>1, <1>2, <1>3 DEF Custody, Exclusive

LEMMA ReturnedIdles ==
  ASSUME NEW p \in Procs
  PROVE  Returned(p).pc \in {"idle", "sweep"} /\ Returned(p).verdict = "none"
BY DEF Returned, IdleProc

(* What Leave makes of the process and of its case. *)
LEMMA LeaveCases ==
  ASSUME TypeOK, NEW p \in Procs, proc[p].pc = "run", NEW t, Leave(p, t)
  PROVE  /\ \A q \in Procs : q # p => proc'[q] = proc[q]
         /\ \A d \in Cases : d # proc[p].case => ckpt'[d] = ckpt[d]
         /\ \/ /\ t.next # "end" /\ ~t.interrupted
               /\ ckpt'[proc[p].case] = ckpt[proc[p].case] \/ ckpt'[proc[p].case] = t
               /\ proc'[p].pc = "run" /\ proc'[p].case = proc[p].case
               /\ proc'[p].agent = proc[p].agent /\ proc'[p].mem = t
               /\ proc'[p].verdict = "none" /\ proc'[p].todo = proc[p].todo
            \/ /\ t.next = "end" \/ t.interrupted
               /\ ckpt'[proc[p].case] = t
               /\ proc'[p] = Returned(p)
               /\ proc'[p].pc \in {"idle", "sweep"} /\ proc'[p].verdict = "none"
<1> DEFINE c == proc[p].case
           on == [proc[p] EXCEPT !.mem = t, !.verdict = "none"]
<1>1. /\ proc \in [Procs -> ProcStates] /\ proc[p] \in ProcStates
      /\ c \in Cases /\ ckpt \in [Cases -> Threads]
  BY DEF TypeOK
<1>2. /\ on.pc = "run" /\ on.case = c /\ on.agent = proc[p].agent
      /\ on.mem = t /\ on.verdict = "none" /\ on.todo = proc[p].todo
  BY <1>1 DEF ProcStates
<1>3. Returned(p).pc \in {"idle", "sweep"} /\ Returned(p).verdict = "none"
  BY ReturnedIdles
<1>4. \/ /\ t.next # "end" /\ ~t.interrupted
         /\ ckpt' \in {ckpt, [ckpt EXCEPT ![c] = t]}
         /\ proc' = [proc EXCEPT ![p] = on]
      \/ /\ t.next = "end" \/ t.interrupted
         /\ ckpt' = [ckpt EXCEPT ![c] = t]
         /\ proc' = [proc EXCEPT ![p] = Returned(p)]
  BY DEF Leave, Checkpoint
<1> HIDE DEF on, c
<1>5. \A q \in Procs : q # p => proc'[q] = proc[q]
  BY <1>1, <1>4
<1>6. \A d \in Cases : d # c => ckpt'[d] = ckpt[d]
  BY <1>1, <1>4
<1>7. CASE /\ t.next # "end" /\ ~t.interrupted
           /\ ckpt' \in {ckpt, [ckpt EXCEPT ![c] = t]}
           /\ proc' = [proc EXCEPT ![p] = on]
  <2>1. proc'[p] = on /\ (ckpt'[c] = ckpt[c] \/ ckpt'[c] = t)
    BY <1>1, <1>7
  <2> QED BY <1>2, <1>5, <1>6, <1>7, <2>1 DEF c
<1>8. CASE /\ t.next = "end" \/ t.interrupted
           /\ ckpt' = [ckpt EXCEPT ![c] = t]
           /\ proc' = [proc EXCEPT ![p] = Returned(p)]
  <2>1. proc'[p] = Returned(p) /\ ckpt'[c] = t
    BY <1>1, <1>8
  <2> QED BY <1>3, <1>5, <1>6, <1>8, <2>1 DEF c
<1> QED BY <1>4, <1>7, <1>8

LEMMA LeaveCustody ==
  ASSUME TypeOK, Custody, NEW p \in Procs, proc[p].pc = "run", NEW t,
         Leave(p, t), UNCHANGED <<registry, starts>>
  PROVE  Custody'
<1> DEFINE c == proc[p].case
<1>1. /\ c \in Cases /\ Registered(c) /\ AgentOf(c) = proc[p].agent
      /\ \A q \in Procs : q # p /\ Held(q) => proc[q].case # c
  BY RunnerHolds
<1>2. \A q \in Procs : q # p /\ Held(q) => proc[q].case \in Cases
  BY DEF Held, TypeOK
<1>3. Held(p)' => proc'[p].case = c
  BY LeaveCases DEF Held
<1>4. ASSUME p \in Starters PROVE StarterInv(p)'
  <2>1. StarterInv(p)
    BY <1>4 DEF Custody
  <2>2. CASE proc'[p] = Returned(p)
    BY <1>4, <2>2 DEF Returned, StarterInv, IdleProc
  <2>3. CASE proc'[p] # Returned(p)
    BY <1>1, <2>1, <2>3, LeaveCases DEF StarterInv, Registered, AgentOf
  <2> QED BY <2>2, <2>3
<1>5. ASSUME p \in Pollers PROVE PollerInv(p)'
  <2>1. PollerInv(p) /\ p \notin Starters
    BY <1>5, ProcessAssumption DEF Custody
  <2>2. CASE proc'[p] = Returned(p)
    <3>1. /\ proc'[p].pc = "sweep" /\ proc'[p].todo = proc[p].todo
          /\ proc'[p].agent = proc[p].agent
      BY <2>1, <2>2 DEF Returned, IdleProc
    <3> QED BY <2>1, <3>1 DEF PollerInv, Held, Listed
  <2>3. CASE proc'[p] # Returned(p)
    BY <1>1, <2>1, <2>3, LeaveCases
    DEF PollerInv, Held, Registered, AgentOf, Listed
  <2> QED BY <2>2, <2>3
<1>6. RegistryInv'
  <2>1. registry[c] # NoRow
    BY <1>1 DEF Registered, NoRow
  <2> QED BY <1>1, <2>1, LeaveCases DEF Custody, RegistryInv, Registered, AgentOf
<1>7. \A q \in Procs : q # p /\ Held(q) => ckpt'[proc[q].case] = ckpt[proc[q].case]
  BY <1>1, <1>2, LeaveCases
<1>8. \A q \in Procs : q # p => proc'[q] = proc[q]
  BY LeaveCases
<1> QED BY <1>1, <1>3, <1>4, <1>5, <1>6, <1>7, <1>8, CustodyMoves

LEMMA RunNodeCustody ==
  ASSUME TypeOK, Custody, NEW p \in Procs, RunNode(p) PROVE Custody'
<1>1. proc[p].pc = "run" /\ UNCHANGED <<registry, starts>> /\ \E t : Leave(p, t)
  BY DEF RunNode, RunCheck, RunPull, RunPropose, RunWait, RunRecordOutcome,
         Running
<1> QED BY <1>1, LeaveCustody

(* A process that dies, or a poller whose sweep was ended by an error. *)
LEMMA ResetCustody ==
  ASSUME TypeOK, Custody, NEW p \in Procs, proc' = [proc EXCEPT ![p] = IdleProc],
         UNCHANGED <<registry, ckpt, starts>>
  PROVE  Custody'
<1>1. proc'[p] = IdleProc /\ \A q \in Procs : q # p => proc'[q] = proc[q]
  BY DEF TypeOK
<1>2. ~Held(p)'
  BY <1>1 DEF Held, IdleProc
<1>3. (p \in Starters => StarterInv(p)') /\ (p \in Pollers => PollerInv(p)')
  BY <1>1 DEF StarterInv, PollerInv, IdleProc, Held
<1> QED BY <1>1, <1>2, <1>3, CustodyProcOnly

(* A poller that goes on with its list. *)
LEMMA SweepingCustody ==
  ASSUME TypeOK, Custody, NEW p \in Pollers,
         UNCHANGED <<registry, ckpt, starts>>,
         \A q \in Procs : q # p => proc'[q] = proc[q],
         proc'[p].pc = "sweep", proc'[p].todo \subseteq Listed(proc'[p].agent)
  PROVE  Custody'
<1>1. ~Held(p)' /\ p \in Procs /\ p \notin Starters
  BY ProcessAssumption DEF Held, Procs
<1>2. PollerInv(p)'
  BY <1>1 DEF PollerInv, Held, Listed
<1> QED BY <1>1, <1>2, CustodyProcOnly

LEMMA BeginSweepCustody ==
  ASSUME TypeOK, Custody, NEW p \in Pollers, BeginSweep(p) PROVE Custody'
<1>1. /\ \A q \in Procs : q # p => proc'[q] = proc[q]
      /\ proc'[p] = [IdleProc EXCEPT !.pc = "sweep", !.todo = Listed(FirstAgent)]
  BY DEF BeginSweep, TypeOK, Procs
<1>2. /\ proc'[p].pc = "sweep" /\ proc'[p].agent = FirstAgent
      /\ proc'[p].todo = Listed(FirstAgent)
  BY <1>1 DEF IdleProc
<1> QED BY <1>1, <1>2, SweepingCustody DEF BeginSweep

LEMMA SweepAgentDoneCustody ==
  ASSUME TypeOK, Custody, NEW p \in Pollers, SweepAgentDone(p) PROVE Custody'
<1>0. p \in Procs /\ proc[p] \in ProcStates /\ proc[p].pc = "sweep"
  BY DEF Procs, TypeOK, SweepAgentDone
<1>1. CASE proc[p].agent = FirstAgent
  <2> DEFINE l == Listed(LastAgent)
  <2>1. /\ \A q \in Procs : q # p => proc'[q] = proc[q]
        /\ proc'[p] = [proc[p] EXCEPT !.agent = LastAgent, !.todo = l]
    BY <1>0, <1>1 DEF SweepAgentDone, TypeOK
  <2> HIDE DEF l
  <2>2. proc'[p].pc = "sweep" /\ proc'[p].agent = LastAgent /\ proc'[p].todo = l
    BY <1>0, <2>1 DEF ProcStates
  <2> QED BY <2>1, <2>2, SweepingCustody DEF SweepAgentDone, l
<1>2. CASE proc[p].agent # FirstAgent
  BY <1>0, <1>2, ResetCustody DEF SweepAgentDone
<1> QED BY <1>1, <1>2

(* Only a starter could hold the case a poller takes up, and no starter    *)
(* holds a case that is paused.                                            *)
LEMMA NobodyElse ==
  ASSUME OneAtATime, Custody, NEW p \in Pollers, NEW c \in Cases,
         ckpt[c].interrupted, NEW q \in Procs, q # p, Held(q)
  PROVE  proc[q].case # c
<1>1. q \in Starters
  BY DEF OneAtATime, Procs
<1> QED BY <1>1 DEF Custody, StarterInv, Held

LEMMA SweepNextCustody ==
  ASSUME OneAtATime, TypeOK, Custody, NEW p \in Pollers, SweepNext(p)
  PROVE  Custody'
<1>0. /\ p \in Procs /\ proc[p] \in ProcStates /\ p \notin Starters
      /\ proc[p].todo \subseteq Listed(proc[p].agent)
  BY ProcessAssumption DEF Procs, TypeOK, Custody, PollerInv
<1>1. PICK c \in proc[p].todo :
        proc' = [proc EXCEPT ![p] =
          IF WorthPolling(ckpt[c])
          THEN [proc[p] EXCEPT !.pc = "poll", !.todo = proc[p].todo \ {c},
                               !.case = c, !.seen = ckpt[c].action_id]
          ELSE [proc[p] EXCEPT !.todo = proc[p].todo \ {c}]]
  BY DEF SweepNext
<1>2. \A q \in Procs : q # p => proc'[q] = proc[q]
  BY <1>1 DEF TypeOK
<1>3. /\ c \in Cases /\ registry[c].agent = proc[p].agent /\ Registered(c)
  <2>1. c \in Cases /\ registry[c].agent = proc[p].agent
    BY <1>0 DEF Listed
  <2>2. proc[p].agent # "none"
    BY <1>0 DEF ProcStates, Agents
  <2> QED BY <2>1, <2>2 DEF Custody, RegistryInv, NoRow
<1>4. CASE WorthPolling(ckpt[c])
  <2>1. proc'[p] = [proc[p] EXCEPT !.pc = "poll", !.todo = proc[p].todo \ {c},
                                   !.case = c, !.seen = ckpt[c].action_id]
    BY <1>0, <1>1, <1>4 DEF TypeOK
  <2>2. /\ proc'[p].pc = "poll" /\ proc'[p].case = c
        /\ proc'[p].agent = proc[p].agent
        /\ proc'[p].todo \subseteq proc[p].todo
        /\ proc'[p].seen = ckpt[c].action_id
    BY <1>0, <2>1 DEF ProcStates
  <2>3. ckpt[c].interrupted
    BY <1>4 DEF WorthPolling
  <2>4. UNCHANGED <<registry, ckpt, starts>>
    BY DEF SweepNext
  <2>5. PollerInv(p)'
    BY <1>0, <1>3, <2>2, <2>3, <2>4 DEF PollerInv, Held, Listed, Registered, AgentOf
  <2> QED BY <1>0, <1>2, <1>3, <2>2, <2>3, <2>4, <2>5, NobodyElse, CustodyProcOnly
<1>5. CASE ~WorthPolling(ckpt[c])
  <2>1. proc'[p] = [proc[p] EXCEPT !.todo = proc[p].todo \ {c}]
    BY <1>0, <1>1, <1>5 DEF TypeOK
  <2>2. /\ proc'[p].pc = "sweep" /\ proc'[p].agent = proc[p].agent
        /\ proc'[p].todo \subseteq proc[p].todo
    BY <1>0, <2>1 DEF ProcStates, SweepNext
  <2> QED BY <1>0, <1>2, <2>2, SweepingCustody DEF SweepNext
<1> QED BY <1>4, <1>5

LEMMA ReturnedSweeps ==
  ASSUME Custody, NEW p \in Pollers, proc'[p] = Returned(p), UNCHANGED registry
  PROVE  proc'[p].pc = "sweep" /\ proc'[p].todo \subseteq Listed(proc'[p].agent)
<1>1. p \notin Starters
  BY ProcessAssumption
<1>2. /\ proc'[p].pc = "sweep" /\ proc'[p].todo = proc[p].todo
      /\ proc'[p].agent = proc[p].agent
  BY <1>1 DEF Returned, IdleProc
<1> QED BY <1>2 DEF Custody, PollerInv

(* A poller at "poll" or "resume" is the only one to hold the paused case. *)
LEMMA PollerHolds ==
  ASSUME OneAtATime, TypeOK, Custody, NEW p \in Pollers,
         proc[p].pc \in {"poll", "resume"}
  PROVE  /\ p \in Procs /\ p \notin Starters /\ proc[p] \in ProcStates
         /\ PollerInv(p) /\ proc[p].case \in Cases
         /\ Registered(proc[p].case) /\ AgentOf(proc[p].case) = proc[p].agent
         /\ ckpt[proc[p].case].interrupted
         /\ proc[p].seen = ckpt[proc[p].case].action_id
         /\ \A q \in Procs : q # p /\ Held(q) => proc[q].case # proc[p].case
<1>1. /\ p \in Procs /\ p \notin Starters /\ proc[p] \in ProcStates
      /\ PollerInv(p) /\ Held(p) /\ proc[p].case \in Cases
  BY ProcessAssumption DEF Procs, TypeOK, Custody, Held
<1> QED BY <1>1, NobodyElse DEF PollerInv

(* What the three steps after a poll make of the poller. *)
LEMMA PollAnsweredMoves ==
  ASSUME TypeOK, NEW p \in Pollers, PollAnswered(p)
  PROVE  /\ proc[p].pc = "poll" /\ UNCHANGED <<registry, ckpt, starts, gateVars>>
         /\ \A q \in Procs : q # p => proc'[q] = proc[q]
         /\ \/ /\ StatusOf(proc[p].seen) = "none" /\ proc'[p] = Returned(p)
               /\ proc'[p].pc \in {"idle", "sweep"}
            \/ /\ StatusOf(proc[p].seen) # "none"
               /\ proc'[p].pc = "resume" /\ proc'[p].case = proc[p].case
               /\ proc'[p].agent = proc[p].agent /\ proc'[p].todo = proc[p].todo
               /\ proc'[p].seen = proc[p].seen
               /\ proc'[p].verdict = Resolved(StatusOf(proc[p].seen))
<1> DEFINE result == StatusOf(proc[p].seen)
           verdict == Resolved(result)
<1>1. p \in Procs /\ proc[p] \in ProcStates
  BY DEF Procs, TypeOK
<1>2. CASE result = "none"
  BY <1>1, <1>2, ReturnedIdles DEF PollAnswered, TypeOK
<1>3. CASE result # "none"
  <2>1. proc'[p] = [proc[p] EXCEPT !.pc = "resume", !.verdict = verdict]
    BY <1>1, <1>3 DEF PollAnswered, TypeOK
  <2> HIDE DEF verdict
  <2>2. /\ proc'[p].pc = "resume" /\ proc'[p].case = proc[p].case
        /\ proc'[p].agent = proc[p].agent /\ proc'[p].todo = proc[p].todo
        /\ proc'[p].seen = proc[p].seen /\ proc'[p].verdict = verdict
    BY <1>1, <2>1 DEF ProcStates
  <2> QED BY <1>3, <2>2 DEF PollAnswered, TypeOK, verdict
<1> QED BY <1>2, <1>3

LEMMA PollAnsweredCustody ==
  ASSUME OneAtATime, TypeOK, Custody, NEW p \in Pollers, PollAnswered(p)
  PROVE  Custody'
<1>1. CASE proc'[p] = Returned(p)
  BY <1>1, PollAnsweredMoves, ReturnedSweeps, SweepingCustody
<1>2. CASE proc'[p] # Returned(p)
  <2>1. PollerInv(p)'
    BY <1>2, PollAnsweredMoves, PollerHolds
    DEF PollerInv, Held, Listed, Registered, AgentOf
  <2> QED BY <1>2, <2>1, PollAnsweredMoves, PollerHolds, CustodyProcOnly
<1> QED BY <1>1, <1>2

LEMMA InvokeResumeMoves ==
  ASSUME TypeOK, NEW p \in Pollers, InvokeResume(p)
  PROVE  /\ proc[p].pc = "resume" /\ UNCHANGED <<registry, ckpt, starts, gateVars>>
         /\ \A q \in Procs : q # p => proc'[q] = proc[q]
         /\ \/ /\ ckpt[proc[p].case].next \notin NodesOf(proc[p].agent)
               /\ proc'[p] = Returned(p) /\ proc'[p].pc \in {"idle", "sweep"}
            \/ /\ proc'[p].pc = "run" /\ proc'[p].case = proc[p].case
               /\ proc'[p].agent = proc[p].agent /\ proc'[p].todo = proc[p].todo
               /\ proc'[p].verdict = proc[p].verdict
               /\ proc'[p].mem = ckpt[proc[p].case]
<1> DEFINE t == ckpt[proc[p].case]
<1>1. p \in Procs /\ proc[p] \in ProcStates
  BY DEF Procs, TypeOK
<1>2. CASE t.next \notin NodesOf(proc[p].agent)
  BY <1>1, <1>2, ReturnedIdles DEF InvokeResume, TypeOK
<1>3. CASE t.next \in NodesOf(proc[p].agent)
  <2>1. proc'[p] = [proc[p] EXCEPT !.pc = "run", !.mem = t]
    BY <1>1, <1>3 DEF InvokeResume, TypeOK
  <2> QED BY <1>1, <2>1 DEF ProcStates, InvokeResume, TypeOK
<1> QED BY <1>2, <1>3

LEMMA InvokeResumeCustody ==
  ASSUME OneAtATime, TypeOK, Custody, NEW p \in Pollers, InvokeResume(p)
  PROVE  Custody'
<1>1. CASE proc'[p] = Returned(p)
  BY <1>1, InvokeResumeMoves, ReturnedSweeps, SweepingCustody
<1>2. CASE proc'[p] # Returned(p)
  <2>1. PollerInv(p)'
    BY <1>2, InvokeResumeMoves, PollerHolds
    DEF PollerInv, Held, Listed, Registered, AgentOf
  <2> QED BY <1>2, <2>1, InvokeResumeMoves, PollerHolds, CustodyProcOnly
<1> QED BY <1>1, <1>2

(* A case never started before has no row and no thread. *)
LEMMA BeginStartMoves ==
  ASSUME OneAtATime, TypeOK, Custody, NEW p \in Starters, NEW c \in Cases,
         NEW a \in RunAgents, BeginStart(p, c, a)
  PROVE  /\ proc[p].pc = "idle" /\ UNCHANGED <<registry, ckpt, gateVars>>
         /\ starts[c] = 0 /\ starts'[c] = 1
         /\ \A d \in Cases : d # c => starts'[d] = starts[d]
         /\ \A q \in Procs : q # p => proc'[q] = proc[q]
         /\ registry[c] = NoRow /\ ckpt[c] = NewThread /\ ~Registered(c)
         /\ proc'[p].pc = "checked" /\ proc'[p].agent = a /\ proc'[p].case = c
         /\ proc'[p].verdict = "none"
         /\ \A q \in Procs : Held(q) => proc[q].case # c /\ proc[q].case \in Cases
<1>1. p \in Procs /\ starts \in [Cases -> 0 .. MaxStarts]
  BY DEF Procs, TypeOK
<1>2. starts[c] = 0 /\ starts'[c] = 1 /\ MaxStarts = 1
  BY <1>1 DEF BeginStart, OneAtATime
<1>3. /\ proc[p].pc = "idle" /\ UNCHANGED <<registry, ckpt, gateVars>>
      /\ \A d \in Cases : d # c => starts'[d] = starts[d]
      /\ \A q \in Procs : q # p => proc'[q] = proc[q]
  BY <1>1 DEF BeginStart, TypeOK
<1>4. registry[c] = NoRow /\ ckpt[c] = NewThread /\ ~Registered(c)
  BY <1>2 DEF Custody, RegistryInv, Registered, NoRow
<1>5. proc'[p] = [IdleProc EXCEPT !.pc = "checked", !.agent = a, !.case = c]
  BY <1>1 DEF BeginStart, TypeOK
<1>6. /\ proc'[p].pc = "checked" /\ proc'[p].agent = a /\ proc'[p].case = c
      /\ proc'[p].verdict = "none"
  BY <1>5 DEF IdleProc
<1>7. \A q \in Procs : Held(q) => proc[q].case # c /\ proc[q].case \in Cases
  BY <1>2, <1>4 DEF Custody, StarterInv, PollerInv, Held, Procs, TypeOK
<1> QED BY <1>2, <1>3, <1>4, <1>6, <1>7

LEMMA BeginStartCustody ==
  ASSUME OneAtATime, TypeOK, Custody, NEW p \in Starters, NEW c \in Cases,
         NEW a \in RunAgents, BeginStart(p, c, a)
  PROVE  Custody'
<1>0. p \in Procs /\ p \notin Pollers
  BY ProcessAssumption DEF Procs
<1>1. StarterInv(p)'
  <2>1. ~ckpt'[c].interrupted /\ ckpt'[c] = NewThread /\ registry'[c] = NoRow
    BY BeginStartMoves, NewThreadRuns
  <2>2. /\ proc'[p].pc = "checked" /\ proc'[p].agent = a /\ proc'[p].case = c
        /\ proc'[p].verdict = "none" /\ starts'[c] = 1
    BY BeginStartMoves
  <2> QED BY <2>1, <2>2 DEF StarterInv
<1>2. RegistryInv'
  BY BeginStartMoves DEF Custody, RegistryInv, Registered, AgentOf
<1> QED BY <1>0, <1>1, <1>2, BeginStartMoves, CustodyMoves

(* What a starter has in hand before it invokes the graph. *)
LEMMA StarterHolds ==
  ASSUME TypeOK, Custody, NEW p \in Starters,
         proc[p].pc \in {"checked", "registered"}
  PROVE  /\ p \in Procs /\ p \notin Pollers /\ StarterInv(p) /\ Held(p)
         /\ proc[p] \in ProcStates /\ proc[p].case \in Cases
         /\ proc[p].agent \in RunAgents /\ proc[p].agent \in Agents
         /\ proc[p].verdict = "none" /\ starts[proc[p].case] # 0
         /\ ckpt[proc[p].case] = NewThread
         /\ \A q \in Procs : q # p /\ Held(q) =>
              proc[q].case # proc[p].case /\ proc[q].case \in Cases
<1>1. /\ p \in Procs /\ p \notin Pollers /\ StarterInv(p) /\ Held(p)
      /\ proc[p] \in ProcStates /\ proc[p].case \in Cases
      /\ proc[p].agent \in RunAgents /\ proc[p].agent \in Agents
  BY ProcessAssumption, RunAgentsTyped
  DEF Procs, TypeOK, Custody, StarterInv, Held
<1>2. \A q \in Procs : q # p /\ Held(q) =>
        proc[q].case # proc[p].case /\ proc[q].case \in Cases
  BY <1>1 DEF Custody, Exclusive, Held, TypeOK
<1> QED BY <1>1, <1>2 DEF StarterInv

LEMMA RegisterMoves ==
  ASSUME TypeOK, Custody, NEW p \in Starters, Register(p)
  PROVE  /\ proc[p].pc = "checked" /\ UNCHANGED <<ckpt, starts, gateVars>>
         /\ \A q \in Procs : q # p => proc'[q] = proc[q]
         /\ ~Registered(proc[p].case) /\ registry[proc[p].case] = NoRow
         /\ registry'[proc[p].case].at # 0
         /\ registry'[proc[p].case].agent = proc[p].agent
         /\ registry' = [registry EXCEPT ![proc[p].case] = registry'[proc[p].case]]
         /\ \A d \in Cases : d # proc[p].case => registry'[d] = registry[d]
         /\ proc'[p].pc = "registered" /\ proc'[p].agent = proc[p].agent
         /\ proc'[p].case = proc[p].case /\ proc'[p].verdict = proc[p].verdict
<1> DEFINE c == proc[p].case
           row == [agent |-> proc[p].agent,
                   at    |-> 1 + Cardinality({d \in Cases : Registered(d)})]
<1>0. proc[p].pc = "checked"
  BY DEF Register
<1>1. registry[c] = NoRow /\ ~Registered(c)
  BY <1>0, StarterHolds DEF StarterInv, Registered, NoRow
<1>2. row.at # 0 /\ row.agent = proc[p].agent
  <2>1. Cardinality({d \in Cases : Registered(d)}) \in Nat
    BY CaseAssumption, FS_Subset, FS_CardinalityType
  <2> QED BY <2>1
<1>3. registry' = [registry EXCEPT ![c] = row]
  BY <1>1 DEF Register
<1> HIDE DEF row
<1>4. registry'[c] = row /\ \A d \in Cases : d # c => registry'[d] = registry[d]
  BY <1>0, <1>3, StarterHolds DEF TypeOK
<1>5. proc'[p] = [proc[p] EXCEPT !.pc = "registered"]
  BY <1>0, StarterHolds DEF Register, TypeOK
<1>6. /\ proc'[p].pc = "registered" /\ proc'[p].agent = proc[p].agent
      /\ proc'[p].case = c /\ proc'[p].verdict = proc[p].verdict
  BY <1>0, <1>5, StarterHolds DEF ProcStates
<1>7. /\ UNCHANGED <<ckpt, starts, gateVars>>
      /\ \A q \in Procs : q # p => proc'[q] = proc[q]
  BY DEF Register, TypeOK
<1> QED BY <1>0, <1>1, <1>2, <1>3, <1>4, <1>6, <1>7

LEMMA RegisterCustody ==
  ASSUME TypeOK, Custody, NEW p \in Starters, Register(p) PROVE Custody'
<1> DEFINE c == proc[p].case
<1>1. StarterInv(p)'
  <2>1. proc[p].pc = "checked"
    BY RegisterMoves
  <2>2. /\ proc[p].agent \in RunAgents /\ proc[p].verdict = "none"
        /\ starts[c] # 0 /\ ckpt[c] = NewThread /\ ~ckpt[c].interrupted
    BY <2>1, StarterHolds, NewThreadRuns
  <2>3. /\ proc'[p].pc = "registered" /\ proc'[p].agent = proc[p].agent
        /\ proc'[p].case = c /\ proc'[p].verdict = proc[p].verdict
        /\ registry'[c].at # 0 /\ registry'[c].agent = proc[p].agent
        /\ ckpt' = ckpt /\ starts' = starts
    BY RegisterMoves
  <2> QED BY <2>2, <2>3 DEF StarterInv, Registered, AgentOf
<1>2. RegistryInv'
  BY RegisterMoves, StarterHolds
  DEF Custody, RegistryInv, Registered, AgentOf, NoRow
<1> QED BY <1>1, <1>2, RegisterMoves, StarterHolds, CustodyMoves

LEMMA InvokeInitialMoves ==
  ASSUME TypeOK, Custody, NEW p \in Starters, InvokeInitial(p)
  PROVE  LET t == StartedFrom(NewThread)
         IN  /\ proc[p].pc = "registered"
             /\ UNCHANGED <<registry, starts, gateVars>>
             /\ \A q \in Procs : q # p => proc'[q] = proc[q]
             /\ \A d \in Cases : d # proc[p].case => ckpt'[d] = ckpt[d]
             /\ ckpt'[proc[p].case] = NewThread \/ ckpt'[proc[p].case] = t
             /\ Registered(proc[p].case)
             /\ AgentOf(proc[p].case) = proc[p].agent
             /\ proc'[p].pc = "run" /\ proc'[p].agent = proc[p].agent
             /\ proc'[p].case = proc[p].case /\ proc'[p].mem = t
             /\ proc'[p].verdict = "none"
<1> DEFINE c == proc[p].case
           t == StartedFrom(NewThread)
<1>0. proc[p].pc = "registered"
  BY DEF InvokeInitial
<1>1. /\ c \in Cases /\ ckpt[c] = NewThread /\ proc[p].verdict = "none"
      /\ Registered(c) /\ AgentOf(c) = proc[p].agent
  BY <1>0, StarterHolds DEF StarterInv
<1>2. /\ UNCHANGED <<registry, starts, gateVars>>
      /\ ckpt' \in {ckpt, [ckpt EXCEPT ![c] = t]}
      /\ \A q \in Procs : q # p => proc'[q] = proc[q]
  BY <1>1 DEF InvokeInitial, Checkpoint, TypeOK
<1>3. proc'[p] = [proc[p] EXCEPT !.pc = "run", !.mem = t]
  BY <1>0, <1>1, StarterHolds DEF InvokeInitial, TypeOK
<1> HIDE DEF t
<1>4. /\ ckpt'[c] = NewThread \/ ckpt'[c] = t
      /\ \A d \in Cases : d # c => ckpt'[d] = ckpt[d]
  BY <1>1, <1>2 DEF TypeOK
<1>5. /\ proc'[p].pc = "run" /\ proc'[p].agent = proc[p].agent
      /\ proc'[p].case = c /\ proc'[p].verdict = "none" /\ proc'[p].mem = t
  BY <1>0, <1>1, <1>3, StarterHolds DEF ProcStates
<1> QED BY <1>0, <1>1, <1>2, <1>4, <1>5 DEF t

LEMMA InvokeInitialCustody ==
  ASSUME TypeOK, Custody, NEW p \in Starters, InvokeInitial(p) PROVE Custody'
<1> DEFINE c == proc[p].case
           t == StartedFrom(NewThread)
<1>1. ~t.interrupted /\ ~NewThread.interrupted
  BY DEF StartedFrom, NewThread
<1> HIDE DEF t
<1>2. proc[p].pc = "registered" /\ c \in Cases
  BY InvokeInitialMoves, StarterHolds
<1>3. StarterInv(p)'
  BY <1>1, <1>2, InvokeInitialMoves, StarterHolds
  DEF StarterInv, Registered, AgentOf, t
<1>4. RegistryInv'
  <2>1. registry[c] # NoRow
    BY InvokeInitialMoves DEF Registered, NoRow
  <2> QED BY <2>1, InvokeInitialMoves
          DEF Custody, RegistryInv, Registered, AgentOf
<1> QED BY <1>2, <1>3, <1>4, InvokeInitialMoves, StarterHolds, CustodyMoves

LEMMA CustodyStutter ==
  ASSUME Custody, UNCHANGED <<registry, ckpt, starts, proc>> PROVE Custody'
<1>1. Exclusive'
  BY DEF Custody, Exclusive, Held
<1>2. \A p \in Starters : StarterInv(p)'
  BY DEF Custody, StarterInv, Registered, AgentOf
<1>3. \A p \in Pollers : PollerInv(p)'
  BY DEF Custody, PollerInv, Held, Listed, Registered, AgentOf
<1>4. RegistryInv'
  BY DEF Custody, RegistryInv, Registered, AgentOf
<1> QED BY <1>1, <1>2, <1>3, <1>4 DEF Custody

LEMMA CustodyStep ==
  ASSUME OneAtATime, TypeOK, Custody, [Next]_vars PROVE Custody'
<1>1. ASSUME NEW p \in Starters, StarterNext(p) PROVE Custody'
  <2>1. \A c \in Cases : AgentsFor[c] \subseteq RunAgents
    BY DEF RunAgents
  <2> QED BY <1>1, <2>1, BeginStartCustody, RegisterCustody, InvokeInitialCustody
      DEF StarterNext
<1>2. ASSUME NEW p \in Pollers, PollerNext(p) PROVE Custody'
  <2>1. p \in Procs
    BY DEF Procs
  <2>2. CASE PollFails(p)
    BY <2>1, <2>2, ResetCustody DEF PollFails
  <2> QED BY <1>2, <2>2, BeginSweepCustody, SweepNextCustody,
             SweepAgentDoneCustody, PollAnsweredCustody, InvokeResumeCustody
      DEF PollerNext
<1>3. ASSUME NEW p \in Procs, RunNode(p) PROVE Custody'
  BY <1>3, RunNodeCustody
<1>4. ASSUME NEW p \in Procs, Dies(p) PROVE Custody'
  BY <1>4, ResetCustody DEF Dies
<1>5. ASSUME NEW n \in 1 .. Len(actions), HumanDecides(n) PROVE Custody'
  BY <1>5, CustodyStutter DEF HumanDecides
<1>6. CASE UNCHANGED vars
  BY <1>6, CustodyStutter DEF vars
<1> QED BY <1>1, <1>2, <1>3, <1>4, <1>5, <1>6 DEF Next

(* When each case is started once and one poller runs, whatever ids the    *)
(* writes get and whoever dies, every case has at most one process, and    *)
(* the registry, the checkpoints and the processes agree about it.         *)
THEOREM CustodyKept == ASSUME OneAtATime PROVE Spec => [](TypeOK /\ Custody)
<1>1. Init => TypeOK /\ Custody
  BY TypeInit, CustodyInit
<1>2. TypeOK /\ Custody /\ [Next]_vars => TypeOK' /\ Custody'
  BY TypeStep, CustodyStep
<1> QED BY <1>1, <1>2, PTL DEF Spec

(* Two processes never run the graph of the same case at the same time.    *)
THEOREM RunnersExclusive == ASSUME OneAtATime PROVE Spec => []OneRunnerPerCase
<1>1. Custody => OneRunnerPerCase
  BY DEF Custody, Exclusive, OneRunnerPerCase, Held
<1> QED BY <1>1, CustodyKept, PTL

-----------------------------------------------------------------------------
(* No thread that ended is run or resumed.                                 *)

LEMMA UnfinishedInit == Init => Unfinished
BY NewThreadRuns DEF Init, IdleProc, Unfinished

(* What a node makes of an open thread is open, or ended for good. *)
LEMMA NodesLeaveOpen ==
  ASSUME TypeOK, NEW p \in Procs, RunNode(p), OpenThread(proc[p].mem)
  PROVE  \E u : /\ Leave(p, u)
                /\ u.interrupted => OpenThread(u)
                /\ u.next # "end" => ~Done(u)
<1> DEFINE a == proc[p].agent
           t == proc[p].mem
           Quiet == {Passed(a, t), Stopped(t), Pulled(a, t)}
<1>0. a \in Agents /\ t \in Threads
  BY DEF TypeOK, ProcStates
<1>1. /\ ~Done(t) /\ t.next # "end"
      /\ t.interrupted => t.next = "wait_for_approval"
  BY DEF OpenThread
<1>2. \A u \in Quiet : u.interrupted = t.interrupted /\ u.final_summary = t.final_summary
  BY <1>0 DEF Passed, Stopped, Pulled, Threads
<1>3. CASE RunCheck(p) \/ RunPull(p)
  <2>1. /\ t.next \in DOMAIN Continue[a] \/ t.next = PullNode[a]
        /\ \E u \in Quiet : Leave(p, u)
    BY <1>3 DEF RunCheck, RunPull, Running
  <2>2. t.next # "wait_for_approval"
    BY <1>0, <2>1, ProposersApart, TablesLeadToNodes
  <2> HIDE DEF Quiet
  <2> QED BY <1>1, <1>2, <2>1, <2>2 DEF Done
<1>4. CASE RunPropose(p)
  <2>1. PICK s \in StepSet(a) :
          /\ t.next = ProposeNode[a][s]
          /\ \E id, n : Leave(p, Proposed(t, s, id, n)) \/ Leave(p, Stopped(t))
    BY <1>4 DEF RunPropose, Running
  <2>2. t.next # "wait_for_approval"
    BY <1>0, <2>1, ProposersApart
  <2>3. \A id, n : /\ Proposed(t, s, id, n).interrupted = t.interrupted
                   /\ Proposed(t, s, id, n).final_summary = t.final_summary
    BY <1>0 DEF Proposed, Threads
  <2> QED BY <1>1, <1>2, <2>1, <2>2, <2>3 DEF Done
<1>5. CASE RunWait(p)
  <2>1. /\ t.next = "wait_for_approval"
        /\ Leave(p, Paused(t)) \/ Leave(p, Resumed(a, t, proc[p].verdict))
    BY <1>5 DEF RunWait, Running
  <2>2. /\ Paused(t).next = t.next /\ Paused(t).final_summary = t.final_summary
        /\ ~Resumed(a, t, proc[p].verdict).interrupted
        /\ Resumed(a, t, proc[p].verdict).final_summary = t.final_summary
    BY <1>0 DEF Paused, Resumed, Threads
  <2> QED BY <1>1, <2>1, <2>2 DEF Done, OpenThread
<1>6. CASE RunRecordOutcome(p)
  <2>1. t.next = "record_outcome" /\ Leave(p, Recorded(t))
    BY <1>6 DEF RunRecordOutcome, Running
  <2>2. Recorded(t).next = "end" /\ Recorded(t).interrupted = t.interrupted
    BY <1>0 DEF Recorded, Threads
  <2> QED BY <1>1, <2>1, <2>2
<1> QED BY <1>3, <1>4, <1>5, <1>6 DEF RunNode

(* A step of p that only touches the thread of p's case. *)
LEMMA UnfinishedMoves ==
  ASSUME TypeOK, Unfinished, NEW p \in Procs, NEW c,
         \A q \in Procs : q # p => proc'[q] = proc[q],
         \A d \in Cases : d # c => ckpt'[d] = ckpt[d],
         \A q \in Procs : q # p /\ proc[q].pc = "run" => proc[q].case # c,
         c \in Cases /\ ckpt'[c].interrupted => OpenThread(ckpt'[c]),
         proc'[p].pc = "run" =>
           OpenThread(proc'[p].mem) /\ ~Done(ckpt'[proc'[p].case])
  PROVE  Unfinished'
<1>1. \A d \in Cases : ckpt'[d].interrupted => OpenThread(ckpt'[d])
  BY DEF Unfinished
<1>2. ASSUME NEW q \in Procs, q # p, proc'[q].pc = "run"
      PROVE  OpenThread(proc'[q].mem) /\ ~Done(ckpt'[proc'[q].case])
  BY <1>2 DEF Unfinished, TypeOK
<1> QED BY <1>1, <1>2 DEF Unfinished, OpenThread, Done

LEMMA UnfinishedStarter ==
  ASSUME OneAtATime, TypeOK, Custody, Unfinished, NEW p \in Starters, StarterNext(p)
  PROVE  Unfinished'
<1>0. p \in Procs
  BY DEF Procs
<1>1. ASSUME NEW c \in Cases, NEW a \in AgentsFor[c], BeginStart(p, c, a)
      PROVE  Unfinished'
  <2>1. a \in RunAgents
    BY DEF RunAgents
  <2> QED BY <1>0, <1>1, <2>1, BeginStartMoves, UnfinishedMoves DEF Held, Unfinished
<1>2. CASE Register(p)
  BY <1>0, <1>2, RegisterMoves, StarterHolds, UnfinishedMoves DEF Held, Unfinished
<1>3. CASE InvokeInitial(p)
  <2> DEFINE c == proc[p].case
             t == StartedFrom(NewThread)
  <2>1. OpenThread(t) /\ ~t.interrupted /\ ~Done(t)
    BY DEF OpenThread, Done, NewThread, StartedFrom
  <2> HIDE DEF t
  <2>2. /\ \A q \in Procs : q # p => proc'[q] = proc[q]
        /\ \A d \in Cases : d # c => ckpt'[d] = ckpt[d]
        /\ ckpt'[c] = NewThread \/ ckpt'[c] = t
        /\ proc'[p].case = c /\ proc'[p].mem = t /\ proc[p].pc = "registered"
    BY <1>3, InvokeInitialMoves DEF t
  <2>3. \A q \in Procs : q # p /\ proc[q].pc = "run" => proc[q].case # c
    BY <2>2, StarterHolds DEF Held
  <2> QED BY <1>0, <2>1, <2>2, <2>3, NewThreadRuns, UnfinishedMoves
<1> QED BY <1>1, <1>2, <1>3 DEF StarterNext

LEMMA UnfinishedPoller ==
  ASSUME OneAtATime, TypeOK, Custody, Unfinished, NEW p \in Pollers, PollerNext(p)
  PROVE  Unfinished'
<1>0. p \in Procs /\ proc[p] \in ProcStates /\ IdleProc.pc = "idle"
  BY DEF Procs, TypeOK, IdleProc
<1>1. ckpt' = ckpt /\ \A q \in Procs : q # p => proc'[q] = proc[q]
  BY DEF PollerNext, BeginSweep, SweepNext, SweepAgentDone, PollAnswered,
         PollFails, InvokeResume, TypeOK
<1>2. ASSUME proc'[p].pc = "run" =>
               OpenThread(proc'[p].mem) /\ ~Done(ckpt[proc'[p].case])
      PROVE  Unfinished'
  BY <1>1, <1>2 DEF Unfinished
<1>3. CASE InvokeResume(p)
  <2> DEFINE c == proc[p].case
  <2>1. /\ c \in Cases /\ ckpt[c].interrupted
        /\ \/ proc'[p].pc \in {"idle", "sweep"}
           \/ proc'[p].case = c /\ proc'[p].mem = ckpt[c]
    BY <1>3, InvokeResumeMoves, PollerHolds
  <2>2. OpenThread(ckpt[c])
    BY <2>1 DEF Unfinished
  <2> QED BY <1>2, <2>1, <2>2 DEF OpenThread
<1>4. CASE ~InvokeResume(p)
  <2>1. CASE BeginSweep(p)
    BY <1>0, <1>2, <2>1 DEF BeginSweep, TypeOK, IdleProc
  <2>2. CASE SweepNext(p)
    BY <1>0, <1>2, <2>2 DEF SweepNext, TypeOK, ProcStates
  <2>3. CASE SweepAgentDone(p)
    BY <1>0, <1>2, <2>3 DEF SweepAgentDone, TypeOK, ProcStates
  <2>4. CASE PollAnswered(p)
    BY <1>2, <2>4, PollAnsweredMoves
  <2>5. CASE PollFails(p)
    BY <1>0, <1>2, <2>5 DEF PollFails, TypeOK
  <2> QED BY <1>4, <2>1, <2>2, <2>3, <2>4, <2>5 DEF PollerNext
<1> QED BY <1>3, <1>4

LEMMA UnfinishedNode ==
  ASSUME TypeOK, Custody, Unfinished, NEW p \in Procs, RunNode(p)
  PROVE  Unfinished'
<1> DEFINE c == proc[p].case
<1>1. proc[p].pc = "run"
  BY DEF RunNode, RunCheck, RunPull, RunPropose, RunWait, RunRecordOutcome, Running
<1>2. OpenThread(proc[p].mem) /\ ~Done(ckpt[c])
  BY <1>1 DEF Unfinished
<1>3. PICK u : Leave(p, u) /\ (u.interrupted => OpenThread(u)) /\ (u.next # "end" => ~Done(u))
  BY <1>2, NodesLeaveOpen
<1>4. /\ c \in Cases
      /\ \A q \in Procs : q # p /\ proc[q].pc = "run" => proc[q].case # c
  BY <1>1, RunnerHolds DEF Held
<1>5. /\ \A q \in Procs : q # p => proc'[q] = proc[q]
      /\ \A d \in Cases : d # c => ckpt'[d] = ckpt[d]
      /\ ckpt'[c] = ckpt[c] \/ ckpt'[c] = u
      /\ proc'[p].pc = "run" => /\ u.next # "end" /\ ~u.interrupted
                                /\ proc'[p].case = c /\ proc'[p].mem = u
  BY <1>1, <1>3, LeaveCases
<1>6. ckpt'[c].interrupted => OpenThread(ckpt'[c])
  BY <1>3, <1>4, <1>5 DEF Unfinished
<1>7. proc'[p].pc = "run" => OpenThread(proc'[p].mem) /\ ~Done(ckpt'[proc'[p].case])
  BY <1>2, <1>3, <1>5 DEF OpenThread
<1> QED BY <1>4, <1>5, <1>6, <1>7, UnfinishedMoves

LEMMA UnfinishedStep ==
  ASSUME OneAtATime, TypeOK, Custody, Unfinished, [Next]_vars PROVE Unfinished'
<1>1. ASSUME NEW p \in Procs, Dies(p) PROVE Unfinished'
  <2>1. IdleProc.pc = "idle"
    BY DEF IdleProc
  <2>2. /\ \A q \in Procs : q # p => proc'[q] = proc[q]
        /\ proc'[p].pc # "run" /\ ckpt' = ckpt
    BY <1>1, <2>1 DEF Dies, TypeOK
  <2> QED BY <2>2 DEF Unfinished
<1>2. CASE UNCHANGED <<ckpt, proc>>
  BY <1>2 DEF Unfinished
<1> QED BY <1>1, <1>2, UnfinishedStarter, UnfinishedPoller, UnfinishedNode
        DEF Next, HumanDecides, vars

(* One step leaves a finished case as it reported. *)
LEMMA FinishedStays ==
  ASSUME TypeOK, Custody, Unfinished, [Next]_vars, NEW c \in Cases, Done(ckpt[c])
  PROVE  /\ ckpt'[c].final_summary = ckpt[c].final_summary
         /\ \A n \in Len(actions) + 1 .. Len(actions') : actions'[n].case # c
<1>0. Len(actions) \in Nat /\ (Len(actions') = Len(actions) =>
         \A n \in Len(actions) + 1 .. Len(actions') : FALSE)
  BY RecordTyped
<1>1. ASSUME NEW p \in Starters, StarterNext(p)
      PROVE  ckpt'[c] = ckpt[c] /\ actions' = actions
  <2>1. CASE InvokeInitial(p)
    <3>1. ckpt[proc[p].case] = NewThread /\ actions' = actions
      BY <2>1, InvokeInitialMoves, StarterHolds DEF gateVars
    <3>2. proc[p].case # c
      BY <3>1, NewThreadRuns
    <3> QED BY <2>1, <3>1, <3>2, InvokeInitialMoves
  <2> QED BY <1>1, <2>1 DEF StarterNext, BeginStart, Register, gateVars
<1>2. ASSUME NEW p \in Pollers, PollerNext(p)
      PROVE  ckpt' = ckpt /\ actions' = actions
  BY <1>2 DEF PollerNext, BeginSweep, SweepNext, SweepAgentDone, PollAnswered,
              PollFails, InvokeResume, gateVars
<1>3. ASSUME NEW p \in Procs, RunNode(p)
      PROVE  /\ ckpt'[c] = ckpt[c]
             /\ \A n \in Len(actions) + 1 .. Len(actions') : actions'[n].case # c
  <2>1. proc[p].pc = "run" /\ \E u : Leave(p, u)
    BY <1>3 DEF RunNode, RunCheck, RunPull, RunPropose, RunWait,
                RunRecordOutcome, Running
  <2>2. proc[p].case # c
    BY <2>1 DEF Unfinished
  <2>3. ckpt'[c] = ckpt[c]
    BY <2>1, <2>2, LeaveCases
  <2>4. CASE actions' = actions
    BY <1>0, <2>3, <2>4
  <2>5. CASE actions' # actions
    <3> DEFINE id == NewId(proc[p].case, PassesProcessId[proc[p].agent])
    <3>1. PICK s \in StepSet(proc[p].agent) :
            Len(actions) < MaxActions /\ RecordAction(proc[p].case, s, id)
      BY <1>3, <2>5 DEF RunNode, RunCheck, RunPull, RunPropose, RunWait,
                        RunRecordOutcome, gateVars
    <3>2. proc[p].case \in Cases /\ proc[p].agent \in Agents
      BY <2>1, RunnerHolds
    <3>3. s \in AllSteps /\ id \in ActionIds
      BY <3>1, <3>2, TablesLeadToNodes, GateTypes
    <3>4. /\ Len(actions') = Len(actions) + 1
          /\ actions'[Len(actions) + 1].case = proc[p].case
      BY <3>1, <3>2, <3>3, RecordsGrow
    <3> QED BY <1>0, <2>2, <2>3, <3>4
  <2> QED BY <2>4, <2>5
<1>4. ASSUME NEW n \in 1 .. Len(actions), HumanDecides(n)
      PROVE  ckpt' = ckpt /\ Len(actions') = Len(actions)
  BY <1>4, DecisionsGrow DEF HumanDecides
<1>5. CASE UNCHANGED vars \/ \E p \in Procs : Dies(p)
  BY <1>0, <1>5 DEF vars, Dies, gateVars
<1> QED BY <1>0, <1>1, <1>2, <1>3, <1>4, <1>5 DEF Next

(* Nothing changes what a case reported, and nothing of it is put to a     *)
(* human afterwards, whichever processes die and whichever ids are shared. *)
THEOREM LastWordStands == ASSUME OneAtATime PROVE Spec => ReportIsFinal
<1> DEFINE LastWord ==
      \A c \in Cases : Done(ckpt[c]) =>
        /\ ckpt'[c].final_summary = ckpt[c].final_summary
        /\ \A n \in Len(actions) + 1 .. Len(actions') : actions'[n].case # c
<1>1. Init => TypeOK /\ Custody /\ Unfinished
  BY TypeInit, CustodyInit, UnfinishedInit
<1>2. TypeOK /\ Custody /\ Unfinished /\ [Next]_vars =>
        TypeOK' /\ Custody' /\ Unfinished' /\ [LastWord]_vars
  BY TypeStep, CustodyStep, UnfinishedStep, FinishedStays
<1>3. ReportIsFinal <=> [][LastWord]_vars
  BY DEF ReportIsFinal
<1> HIDE DEF LastWord
<1> QED BY <1>1, <1>2, <1>3, PTL DEF Spec

-----------------------------------------------------------------------------
(* Turns: no step of a case is asked for twice, as long as nobody dies.    *)

LEMMA TurnOrder ==
  ASSUME NEW a \in Agents
  PROVE  /\ \A s \in StepSet(a) : s \notin Earlier(a, s)
         /\ \A s \in DOMAIN AfterApproval[a], r \in StepSet(a) :
              AfterApproval[a][s] = ProposeNode[a][r] =>
                Earlier(a, s) \cup {s} \subseteq Earlier(a, r)
         /\ \A s \in DOMAIN AfterApproval[a] :
              AfterApproval[a][s] \notin DOMAIN Continue[a] \cup {PullNode[a]}
         /\ \A s \in StepSet(a) : ProposeNode[a][s] \notin DOMAIN Continue[a]
         /\ {"record_outcome", "wait_for_approval", "end"}
              \cap (DOMAIN Continue[a] \cup {PullNode[a]}) = {}
<1>1. CASE a = "order_renewal"
  BY <1>1, RenewalChain
  DEF AfterApproval, RenewalAfterApproval, ProposeNode, RenewalPropose,
      Continue, RenewalContinue, PullNode
<1>2. CASE a = "customer_onboarding"
  BY <1>2, OnboardingChain
  DEF AfterApproval, OnboardingAfterApproval, ProposeNode, OnboardingPropose,
      Continue, OnboardingContinue, PullNode
<1> QED BY <1>1, <1>2 DEF Agents

(* A thread whose case has asked for nothing is in turn wherever it runs.  *)
LEMMA NothingAsked ==
  ASSUME NEW acts, NEW a, NEW c, NEW t, AskedOnly(acts, c, {}),
         ~t.interrupted, t.next # "wait_for_approval"
  PROVE  InTurn(acts, a, c, t)
<1>1. \A X : AskedOnly(acts, c, X)
  BY DEF AskedOnly
<1> QED BY <1>1 DEF InTurn

(* A thread on its way to its outcome asks for nothing more. *)
LEMMA OutcomeInTurn ==
  ASSUME NEW acts, NEW a \in Agents, NEW c, NEW t, ~t.interrupted,
         t.next \in {"record_outcome", "end"}
  PROVE  InTurn(acts, a, c, t)
<1>1. \A s \in StepSet(a) : t.next # ProposeNode[a][s]
  BY ProposersApart
<1> QED BY <1>1, TurnOrder DEF InTurn

LEMMA ResumedInTurn ==
  ASSUME NEW acts, NEW a \in Agents, NEW c, NEW t \in Threads, NEW d,
         InTurn(acts, a, c, t), t.next = "wait_for_approval"
  PROVE  InTurn(acts, a, c, Resumed(a, t, d)) /\ Resumed(a, t, d).next # "end"
<1> DEFINE u == Resumed(a, t, d)
           w == t.awaiting_step
<1>1. /\ ~u.interrupted
      /\ u.next = IF d = "approved" /\ w \in DOMAIN AfterApproval[a]
                  THEN AfterApproval[a][w] ELSE "record_outcome"
  BY DEF Resumed, RouteAfterWait, Threads
<1>2. w \in StepSet(a) /\ AskedOnly(acts, c, Earlier(a, w) \cup {w})
  BY DEF InTurn
<1> HIDE DEF u, w
<1>3. CASE d = "approved" /\ w \in DOMAIN AfterApproval[a]
  <2>1. u.next = AfterApproval[a][w]
    BY <1>1, <1>3
  <2>2. /\ u.next \notin {"wait_for_approval", "end"}
        /\ u.next \notin DOMAIN Continue[a] \cup {PullNode[a]}
    BY <1>2, <1>3, <2>1, ProposersApart, TurnOrder
  <2>3. \A s \in StepSet(a) :
          u.next = ProposeNode[a][s] => AskedOnly(acts, c, Earlier(a, s))
    BY <1>2, <1>3, <2>1, TurnOrder DEF AskedOnly
  <2>4. InTurn(acts, a, c, u)
    BY <1>1, <2>2, <2>3 DEF InTurn
  <2> QED BY <2>2, <2>4 DEF u
<1>4. CASE ~(d = "approved" /\ w \in DOMAIN AfterApproval[a])
  BY <1>1, <1>4, OutcomeInTurn DEF u
<1> QED BY <1>3, <1>4

(* What the gate has recorded of the cases other than c stays as it is. *)
SameElsewhere(old, new, c) ==
  \A n \in 1 .. Len(new) : new[n].case # c =>
    /\ n \in 1 .. Len(old)
    /\ new[n].case = old[n].case /\ new[n].step = old[n].step

LEMMA TurnKept ==
  ASSUME NEW old, NEW new, NEW c, NEW d, d # c, SameElsewhere(old, new, c)
  PROVE  /\ \A X : AskedOnly(old, d, X) => AskedOnly(new, d, X)
         /\ \A a, t : InTurn(old, a, d, t) => InTurn(new, a, d, t)
<1>1. \A X : AskedOnly(old, d, X) => AskedOnly(new, d, X)
  BY DEF AskedOnly, SameElsewhere
<1>2. ASSUME NEW a, NEW t, InTurn(old, a, d, t) PROVE InTurn(new, a, d, t)
  BY <1>1, <1>2 DEF InTurn
<1> QED BY <1>1, <1>2

LEMMA TurnsInit == Init => Turns
<1> SUFFICES ASSUME Init PROVE Turns
  OBVIOUS
<1>1. Len(actions) = 0 /\ \A p \in Procs : proc[p].pc = "idle"
  BY DEF Init, GateInit, IdleProc
<1>2. \A c \in Cases : ~Registered(c) /\ AskedOnly(actions, c, {})
  BY <1>1 DEF Init, Registered, NoRow, AskedOnly
<1> QED BY <1>1, <1>2 DEF Turns, NoStepProposedTwice

(* A node that leaves its thread in turn. *)
LEMMA LeaveTurns ==
  ASSUME TypeOK, Custody, Turns, NEW p \in Procs, proc[p].pc = "run",
         NEW t, Leave(p, t), UNCHANGED <<registry, starts>>,
         SameElsewhere(actions, actions', proc[p].case),
         InTurn(actions', proc[p].agent, proc[p].case, t),
         t.next = "end" => Done(t), NoStepProposedTwice'
  PROVE  Turns'
<1> DEFINE c == proc[p].case
<1>1. /\ c \in Cases /\ Registered(c) /\ AgentOf(c) = proc[p].agent
      /\ \A q \in Procs : q # p /\ Held(q) => proc[q].case # c
  BY RunnerHolds
<1>2. /\ \A q \in Procs : q # p => proc'[q] = proc[q]
      /\ \A d \in Cases : d # c => ckpt'[d] = ckpt[d]
      /\ \/ /\ proc'[p].pc = "run" /\ proc'[p].case = c
            /\ proc'[p].agent = proc[p].agent /\ proc'[p].mem = t
         \/ /\ t.next = "end" \/ t.interrupted
            /\ ckpt'[c] = t /\ proc'[p].pc \in {"idle", "sweep"}
  BY LeaveCases
<1>3. \A d : d # c =>
        /\ \A X : AskedOnly(actions, d, X) => AskedOnly(actions', d, X)
        /\ \A a, u : InTurn(actions, a, d, u) => InTurn(actions', a, d, u)
  BY TurnKept
<1>4. ASSUME NEW q \in Procs
      PROVE  /\ proc'[q].pc = "registered" => AskedOnly(actions', proc'[q].case, {})
             /\ proc'[q].pc = "run" =>
                  InTurn(actions', proc'[q].agent, proc'[q].case, proc'[q].mem)
  <2>1. CASE q = p
    BY <1>2, <2>1
  <2>2. CASE q # p
    <3>1. proc[q].pc \in {"registered", "run"} => proc[q].case # c
      BY <1>1, <2>2 DEF Held
    <3> QED BY <1>2, <1>3, <2>2, <3>1 DEF Turns
  <2> QED BY <2>1, <2>2
<1>5. ASSUME NEW d \in Cases
      PROVE  (IF Registered(d) THEN InHand(d) \/ AtRest(d)
                               ELSE AskedOnly(actions, d, {}))'
  <2>1. CASE d = c /\ proc'[p].pc = "run"
    BY <1>1, <1>2, <2>1 DEF InHand, Registered
  <2>2. CASE d = c /\ proc'[p].pc # "run"
    <3>1. ckpt'[c] = t /\ (t.next = "end" \/ t.interrupted)
      BY <1>2, <2>2
    <3>2. t.interrupted \/ (Done(t) /\ ~t.interrupted)
      BY <3>1 DEF InTurn
    <3>3. AgentOf(d)' = proc[p].agent /\ Registered(d)'
      BY <1>1, <2>2 DEF AgentOf, Registered
    <3>4. AtRest(d)'
      BY <2>2, <3>1, <3>2, <3>3 DEF AtRest
    <3> QED BY <3>3, <3>4
  <2>3. CASE d # c
    <3>1. InHand(d) => InHand(d)'
      BY <1>2, <2>3 DEF InHand
    <3>2. AtRest(d) => AtRest(d)'
      BY <1>2, <1>3, <2>3 DEF AtRest, AgentOf
    <3>3. AskedOnly(actions, d, {}) => AskedOnly(actions, d, {})'
      BY <1>3, <2>3
    <3> QED BY <3>1, <3>2, <3>3 DEF Turns, Registered
  <2> QED BY <2>1, <2>2, <2>3
<1> QED BY <1>4, <1>5 DEF Turns

(* A node that makes no write call. *)
LEMMA QuietLeaveTurns ==
  ASSUME TypeOK, Custody, Turns, NEW p \in Procs, proc[p].pc = "run",
         NEW t, Leave(p, t), UNCHANGED <<registry, starts, gateVars>>,
         InTurn(actions, proc[p].agent, proc[p].case, t),
         t.next = "end" => Done(t)
  PROVE  Turns'
<1>1. actions' = actions
  BY DEF gateVars
<1>2. SameElsewhere(actions, actions', proc[p].case)
  BY <1>1 DEF SameElsewhere
<1>3. NoStepProposedTwice'
  BY <1>1 DEF Turns, NoStepProposedTwice
<1> QED BY <1>1, <1>2, <1>3, LeaveTurns

LEMMA RunProposeTurns ==
  ASSUME TypeOK, Custody, Turns, NEW p \in Procs, RunPropose(p)
  PROVE  Turns'
<1> DEFINE a == proc[p].agent
           c == proc[p].case
           t == proc[p].mem
           id == NewId(c, PassesProcessId[a])
           N == Len(actions) + 1
<1>1. PICK s \in StepSet(a) :
        /\ Running(p, ProposeNode[a][s])
        /\ \/ /\ Len(actions) < MaxActions
              /\ RecordAction(c, s, id)
              /\ Leave(p, Proposed(t, s, id, N)) \/ Leave(p, Stopped(t))
           \/ Leave(p, Stopped(t)) /\ UNCHANGED gateVars
        /\ UNCHANGED <<registry, starts>>
  BY DEF RunPropose
<1>2. proc[p].pc = "run" /\ t.next = ProposeNode[a][s]
  BY <1>1 DEF Running
<1>3. a \in Agents /\ c \in Cases /\ t \in Threads
  BY <1>2, RunnerHolds
<1>4. ~t.interrupted /\ AskedOnly(actions, c, Earlier(a, s))
  BY <1>1, <1>2, <1>3, ProposersApart DEF Turns, InTurn
<1>5. Stopped(t).next = "record_outcome" /\ ~Stopped(t).interrupted
  <2>1. "none" \notin Nodes
    BY DEF Nodes, ReadNodes
  <2> QED BY <1>3, <1>4, <2>1 DEF Stopped, RouteAfterCheck, Threads
<1>6. CASE Leave(p, Stopped(t)) /\ UNCHANGED gateVars
  BY <1>1, <1>2, <1>3, <1>5, <1>6, OutcomeInTurn, QuietLeaveTurns
<1>7. CASE Len(actions) < MaxActions /\ RecordAction(c, s, id)
  <2>1. s \in AllSteps /\ id \in ActionIds
    BY <1>3, <1>7, TablesLeadToNodes, GateTypes
  <2>2. /\ Grows(actions, actions') /\ Len(actions') = N
        /\ actions'[N].case = c /\ actions'[N].step = s
    BY <1>3, <1>7, <2>1, RecordsGrow
  <2>3. Len(actions) \in Nat /\ \A n \in 1 .. N : n = N \/ n \in 1 .. Len(actions)
    BY RecordTyped
  <2> HIDE DEF N
  <2>4. SameElsewhere(actions, actions', c)
    BY <2>2, <2>3 DEF SameElsewhere, Grows
  <2>5. AskedOnly(actions', c, Earlier(a, s) \cup {s})
    BY <1>4, <2>2, <2>3 DEF AskedOnly, Grows
  <2>6. NoStepProposedTwice'
    <3>1. ASSUME NEW m \in 1 .. Len(actions)
          PROVE  actions[m].case = c => actions[m].step # s
      BY <1>1, <1>3, <1>4, TurnOrder DEF AskedOnly
    <3>2. ASSUME NEW m \in 1 .. N, NEW n \in 1 .. N,
                 actions'[m].case = actions'[n].case,
                 actions'[m].step = actions'[n].step
          PROVE  m = n
      <4>1. \A k \in 1 .. Len(actions) : /\ actions'[k].case = actions[k].case
                                        /\ actions'[k].step = actions[k].step
        BY <2>2 DEF Grows
      <4>2. CASE m = N \/ n = N
        BY <2>2, <2>3, <3>1, <3>2, <4>1, <4>2
      <4>3. CASE m \in 1 .. Len(actions) /\ n \in 1 .. Len(actions)
        BY <3>2, <4>1, <4>3 DEF Turns, NoStepProposedTwice
      <4> QED BY <2>3, <4>2, <4>3
    <3> QED BY <2>2, <3>2 DEF NoStepProposedTwice
  <2>7. CASE Leave(p, Stopped(t))
    BY <1>1, <1>2, <1>3, <1>5, <2>4, <2>6, <2>7, OutcomeInTurn, LeaveTurns
  <2>8. CASE Leave(p, Proposed(t, s, id, N))
    <3> DEFINE u == Proposed(t, s, id, N)
    <3>1. /\ ~u.interrupted /\ u.awaiting_step = s
          /\ u.next \in {"wait_for_approval", "record_outcome"}
      BY <1>3, <1>4 DEF Proposed, RouteAfterCheck, Threads
    <3>2. \A r \in StepSet(a) : u.next # ProposeNode[a][r]
      BY <1>3, <3>1, ProposersApart
    <3>3. InTurn(actions', a, c, u)
      BY <1>1, <1>3, <2>5, <3>1, <3>2, TurnOrder DEF InTurn
    <3> QED BY <1>1, <1>2, <2>4, <2>6, <2>8, <3>1, <3>3, LeaveTurns
  <2> QED BY <1>1, <1>5, <1>7, <2>7, <2>8 DEF N
<1> QED BY <1>1, <1>6, <1>7

LEMMA RunNodeTurns ==
  ASSUME TypeOK, Custody, Turns, NEW p \in Procs, RunNode(p) PROVE Turns'
<1> DEFINE a == proc[p].agent
           c == proc[p].case
           t == proc[p].mem
<1>0. proc[p].pc = "run"
  BY DEF RunNode, RunCheck, RunPull, RunPropose, RunWait, RunRecordOutcome,
         Running
<1>1. /\ a \in Agents /\ c \in Cases /\ t \in Threads
      /\ InTurn(actions, a, c, t)
      /\ t.next # "wait_for_approval" => ~t.interrupted
  BY <1>0, RunnerHolds DEF Turns, InTurn
<1>2. CASE RunCheck(p)
  <2>1. /\ t.next \in DOMAIN Continue[a]
        /\ Leave(p, Passed(a, t)) \/ Leave(p, Stopped(t))
        /\ UNCHANGED <<registry, starts, gateVars>>
    BY <1>2 DEF RunCheck, Running
  <2>2. AskedOnly(actions, c, {}) /\ ~t.interrupted
    BY <1>1, <2>1, TurnOrder DEF InTurn
  <2>3. Continue[a][t.next] \notin {"wait_for_approval", "record_outcome", "end"}
    BY <1>1, <2>1, ProposersApart, TablesLeadToNodes
  <2>4. /\ Passed(a, t).next \notin {"wait_for_approval", "end"}
        /\ ~Passed(a, t).interrupted
    BY <1>1, <2>1, <2>2, <2>3, TablesLeadToNodes
    DEF Passed, RouteAfterCheck, Threads
  <2>5. /\ Stopped(t).next \notin {"wait_for_approval", "end"}
        /\ ~Stopped(t).interrupted
    BY <1>1, <2>2 DEF Stopped, RouteAfterCheck, Threads
  <2> QED BY <1>0, <2>1, <2>2, <2>4, <2>5, NothingAsked, QuietLeaveTurns
<1>3. CASE RunPull(p)
  <2>1. /\ t.next = PullNode[a] /\ Leave(p, Pulled(a, t))
        /\ UNCHANGED <<registry, starts, gateVars>>
    BY <1>3 DEF RunPull, Running
  <2>2. AskedOnly(actions, c, {}) /\ ~t.interrupted
    BY <1>1, <2>1, TurnOrder DEF InTurn
  <2>3. Pulled(a, t).next \notin {"wait_for_approval", "end"}
        /\ ~Pulled(a, t).interrupted
    BY <1>1, <2>2, TablesLeadToNodes, ProposersApart DEF Pulled, Threads
  <2> QED BY <1>0, <2>1, <2>2, <2>3, NothingAsked, QuietLeaveTurns
<1>4. CASE RunPropose(p)
  BY <1>4, RunProposeTurns
<1>5. CASE RunWait(p)
  <2>1. /\ t.next = "wait_for_approval"
        /\ Leave(p, Paused(t)) \/ Leave(p, Resumed(a, t, proc[p].verdict))
        /\ UNCHANGED <<registry, starts, gateVars>>
    BY <1>5 DEF RunWait, Running
  <2>2. InTurn(actions, a, c, Paused(t)) /\ Paused(t).next # "end"
    BY <1>1, <2>1 DEF Paused, Threads, InTurn
  <2>3. /\ InTurn(actions, a, c, Resumed(a, t, proc[p].verdict))
        /\ Resumed(a, t, proc[p].verdict).next # "end"
    BY <1>1, <2>1, ResumedInTurn
  <2> QED BY <1>0, <2>1, <2>2, <2>3, QuietLeaveTurns
<1>6. CASE RunRecordOutcome(p)
  <2>1. /\ t.next = "record_outcome" /\ Leave(p, Recorded(t))
        /\ UNCHANGED <<registry, starts, gateVars>>
    BY <1>6 DEF RunRecordOutcome, Running
  <2>2. /\ ~Recorded(t).interrupted /\ Recorded(t).next = "end"
        /\ Done(Recorded(t))
    BY <1>1, <2>1 DEF Recorded, Outcome, Done, Threads
  <2> QED BY <1>0, <1>1, <2>1, <2>2, OutcomeInTurn, QuietLeaveTurns
<1> QED BY <1>2, <1>3, <1>4, <1>5, <1>6 DEF RunNode

(* A step of a process that had no graph in hand, and leaves the stores.   *)
LEMMA ProcOnlyTurns ==
  ASSUME TypeOK, Turns, NEW p \in Procs, UNCHANGED <<registry, ckpt, gateVars>>,
         \A q \in Procs : q # p => proc'[q] = proc[q],
         proc[p].pc \notin {"registered", "run"}, proc'[p].pc # "registered",
         proc'[p].pc = "run" =>
           InTurn(actions, proc'[p].agent, proc'[p].case, proc'[p].mem)
  PROVE  Turns'
<1>1. actions' = actions
  BY DEF gateVars
<1>2. \A c \in Cases : InHand(c) => InHand(c)'
  BY DEF InHand
<1>3. \A c \in Cases : (AtRest(c) => AtRest(c)') /\ (Registered(c)' <=> Registered(c))
  BY <1>1 DEF AtRest, AgentOf, Registered
<1>4. NoStepProposedTwice'
  BY <1>1 DEF Turns, NoStepProposedTwice
<1>5. ASSUME NEW q \in Procs
      PROVE  /\ proc'[q].pc = "registered" => AskedOnly(actions', proc'[q].case, {})
             /\ proc'[q].pc = "run" =>
                  InTurn(actions', proc'[q].agent, proc'[q].case, proc'[q].mem)
  BY <1>1 DEF Turns
<1>6. \A c \in Cases : (IF Registered(c) THEN InHand(c) \/ AtRest(c)
                                        ELSE AskedOnly(actions, c, {}))'
  BY <1>1, <1>2, <1>3 DEF Turns
<1> QED BY <1>4, <1>5, <1>6 DEF Turns

LEMMA IdlingTurns ==
  ASSUME TypeOK, Turns, NEW p \in Procs, UNCHANGED <<registry, ckpt, gateVars>>,
         proc[p].pc \notin {"registered", "run"},
         \E st : /\ proc' = [proc EXCEPT ![p] = st]
                 /\ st.pc \notin {"registered", "run"}
  PROVE  Turns'
<1>1. /\ proc'[p].pc \notin {"registered", "run"}
      /\ \A q \in Procs : q # p => proc'[q] = proc[q]
  BY DEF TypeOK
<1> QED BY <1>1, ProcOnlyTurns

LEMMA InvokeResumeTurns ==
  ASSUME OneAtATime, TypeOK, Custody, Turns, NEW p \in Pollers, InvokeResume(p)
  PROVE  Turns'
<1> DEFINE c == proc[p].case
<1>1. /\ p \in Procs /\ proc[p].pc = "resume"
      /\ UNCHANGED <<registry, ckpt, starts, gateVars>>
      /\ \A q \in Procs : q # p => proc'[q] = proc[q]
      /\ \/ proc'[p].pc \in {"idle", "sweep"}
         \/ /\ proc'[p].pc = "run" /\ proc'[p].case = c
            /\ proc'[p].agent = proc[p].agent /\ proc'[p].mem = ckpt[c]
  BY InvokeResumeMoves DEF Procs
<1>2. /\ c \in Cases /\ Registered(c) /\ AgentOf(c) = proc[p].agent
      /\ ckpt[c].interrupted /\ ~InHand(c)
  BY <1>1, PollerHolds DEF InHand, Held
<1>3. InTurn(actions, proc[p].agent, c, ckpt[c])
  BY <1>2 DEF Turns, AtRest
<1> QED BY <1>1, <1>3, ProcOnlyTurns

LEMMA PollerTurns ==
  ASSUME OneAtATime, TypeOK, Custody, Turns, NEW p \in Pollers, PollerNext(p)
  PROVE  Turns'
<1>0. p \in Procs /\ proc[p] \in ProcStates /\ IdleProc.pc = "idle"
  BY DEF Procs, TypeOK, IdleProc
<1>1. CASE BeginSweep(p)
  <2>1. [IdleProc EXCEPT !.pc = "sweep", !.todo = Listed(FirstAgent)].pc = "sweep"
    BY DEF IdleProc
  <2> QED BY <1>0, <1>1, <2>1, IdlingTurns DEF BeginSweep
<1>2. CASE SweepNext(p)
  <2>1. PICK c \in proc[p].todo :
          proc' = [proc EXCEPT ![p] =
            IF WorthPolling(ckpt[c])
            THEN [proc[p] EXCEPT !.pc = "poll", !.todo = proc[p].todo \ {c},
                                 !.case = c, !.seen = ckpt[c].action_id]
            ELSE [proc[p] EXCEPT !.todo = proc[p].todo \ {c}]]
    BY <1>2 DEF SweepNext
  <2>2. /\ proc[p].pc = "sweep"
        /\ [proc[p] EXCEPT !.pc = "poll", !.todo = proc[p].todo \ {c},
                           !.case = c, !.seen = ckpt[c].action_id].pc = "poll"
        /\ [proc[p] EXCEPT !.todo = proc[p].todo \ {c}].pc = "sweep"
    BY <1>0, <1>2 DEF ProcStates, SweepNext
  <2> QED BY <1>0, <1>2, <2>1, <2>2, IdlingTurns DEF SweepNext
<1>3. CASE SweepAgentDone(p)
  <2>1. /\ proc[p].pc = "sweep"
        /\ [proc[p] EXCEPT !.agent = LastAgent, !.todo = Listed(LastAgent)].pc = "sweep"
    BY <1>0, <1>3 DEF ProcStates, SweepAgentDone
  <2>2. proc[p].agent = FirstAgent \/ proc[p].agent # FirstAgent
    OBVIOUS
  <2> QED BY <1>0, <1>3, <2>1, <2>2, IdlingTurns DEF SweepAgentDone
<1>4. CASE PollAnswered(p)
  <2>1. /\ proc[p].pc = "poll" /\ proc'[p].pc \notin {"registered", "run"}
        /\ UNCHANGED <<registry, ckpt, starts, gateVars>>
        /\ \A q \in Procs : q # p => proc'[q] = proc[q]
    BY <1>4, PollAnsweredMoves
  <2> QED BY <1>0, <2>1, ProcOnlyTurns
<1>5. CASE PollFails(p)
  BY <1>0, <1>5, IdlingTurns DEF PollFails
<1>6. CASE InvokeResume(p)
  BY <1>6, InvokeResumeTurns
<1> QED BY <1>1, <1>2, <1>3, <1>4, <1>5, <1>6 DEF PollerNext

LEMMA StarterTurns ==
  ASSUME OneAtATime, TypeOK, Custody, Turns, NEW p \in Starters, StarterNext(p)
  PROVE  Turns'
<1> DEFINE c == proc[p].case
<1>0. p \in Procs
  BY DEF Procs
<1>1. ASSUME NEW d \in Cases, NEW a \in AgentsFor[d], BeginStart(p, d, a)
      PROVE  Turns'
  <2>1. a \in RunAgents
    BY DEF RunAgents
  <2>2. /\ proc[p].pc = "idle" /\ proc'[p].pc = "checked"
        /\ UNCHANGED <<registry, ckpt, gateVars>>
        /\ \A q \in Procs : q # p => proc'[q] = proc[q]
    BY <1>1, <2>1, BeginStartMoves
  <2> QED BY <1>0, <2>2, ProcOnlyTurns
<1>2. CASE Register(p)
  <2>1. /\ UNCHANGED <<ckpt, starts>> /\ actions' = actions
        /\ \A q \in Procs : q # p => proc'[q] = proc[q]
        /\ proc[p].pc = "checked" /\ ~Registered(c)
        /\ \A d \in Cases : d # c => registry'[d] = registry[d]
        /\ proc'[p].pc = "registered" /\ proc'[p].case = c
    BY <1>2, RegisterMoves DEF gateVars
  <2>2. c \in Cases /\ \A q \in Procs : q # p /\ Held(q) => proc[q].case # c
    BY <2>1, StarterHolds
  <2>3. AskedOnly(actions, c, {})
    BY <2>1, <2>2 DEF Turns
  <2>4. \A d \in Cases : d # c =>
          /\ InHand(d) => InHand(d)'
          /\ AtRest(d) => AtRest(d)'
          /\ Registered(d)' <=> Registered(d)
    BY <2>1 DEF InHand, AtRest, AgentOf, Registered
  <2>5. ASSUME NEW d \in Cases, d = c PROVE InHand(d)'
    BY <1>0, <2>1, <2>5 DEF InHand
  <2>6. ASSUME NEW q \in Procs
        PROVE  /\ proc'[q].pc = "registered" => AskedOnly(actions', proc'[q].case, {})
               /\ proc'[q].pc = "run" =>
                    InTurn(actions', proc'[q].agent, proc'[q].case, proc'[q].mem)
    BY <2>1, <2>3 DEF Turns
  <2>7. ASSUME NEW d \in Cases
        PROVE  (IF Registered(d) THEN InHand(d) \/ AtRest(d)
                                 ELSE AskedOnly(actions, d, {}))'
    BY <2>1, <2>3, <2>4, <2>5 DEF Turns
  <2>8. NoStepProposedTwice'
    BY <2>1 DEF Turns, NoStepProposedTwice
  <2> QED BY <2>6, <2>7, <2>8 DEF Turns
<1>3. CASE InvokeInitial(p)
  <2> DEFINE t == StartedFrom(NewThread)
  <2>1. /\ proc[p].pc = "registered" /\ registry' = registry /\ actions' = actions
        /\ \A q \in Procs : q # p => proc'[q] = proc[q]
        /\ \A d \in Cases : d # c => ckpt'[d] = ckpt[d]
        /\ proc'[p].pc = "run" /\ proc'[p].agent = proc[p].agent
        /\ proc'[p].case = c /\ proc'[p].mem = t
    BY <1>3, InvokeInitialMoves DEF gateVars
  <2>2. ~t.interrupted /\ t.next # "wait_for_approval"
    BY DEF StartedFrom, NewThread
  <2> HIDE DEF t
  <2>3. InTurn(actions, proc[p].agent, c, t)
    BY <1>0, <2>1, <2>2, NothingAsked DEF Turns
  <2>4. \A d \in Cases : /\ InHand(d) => InHand(d)'
                         /\ d # c /\ AtRest(d) => AtRest(d)'
                         /\ Registered(d)' <=> Registered(d)
    BY <1>0, <2>1 DEF InHand, AtRest, AgentOf, Registered
  <2>5. ASSUME NEW d \in Cases, d = c PROVE InHand(d)'
    BY <1>0, <2>1, <2>5 DEF InHand
  <2>6. ASSUME NEW q \in Procs
        PROVE  /\ proc'[q].pc = "registered" => AskedOnly(actions', proc'[q].case, {})
               /\ proc'[q].pc = "run" =>
                    InTurn(actions', proc'[q].agent, proc'[q].case, proc'[q].mem)
    BY <2>1, <2>3 DEF Turns
  <2>7. ASSUME NEW d \in Cases
        PROVE  (IF Registered(d) THEN InHand(d) \/ AtRest(d)
                                 ELSE AskedOnly(actions, d, {}))'
    BY <2>1, <2>4, <2>5 DEF Turns
  <2>8. NoStepProposedTwice'
    BY <2>1 DEF Turns, NoStepProposedTwice
  <2> QED BY <2>6, <2>7, <2>8 DEF Turns
<1> QED BY <1>1, <1>2, <1>3 DEF StarterNext

LEMMA HumanDecidesTurns ==
  ASSUME TypeOK, Turns, NEW n \in 1 .. Len(actions), HumanDecides(n)
  PROVE  Turns'
<1>1. PICK d \in Outcomes : Decide(n, d)
  BY DEF HumanDecides
<1>2. UNCHANGED <<registry, ckpt, starts, proc>>
  BY DEF HumanDecides
<1>3. /\ Len(actions') = Len(actions)
      /\ \A m \in 1 .. Len(actions) :
           actions'[m].case = actions[m].case /\ actions'[m].step = actions[m].step
  BY <1>1, DecisionsGrow DEF Grows
<1>4. \A c, X : AskedOnly(actions, c, X) => AskedOnly(actions', c, X)
  BY <1>3 DEF AskedOnly
<1>5. \A a, c, t : InTurn(actions, a, c, t) => InTurn(actions', a, c, t)
  BY <1>4 DEF InTurn
<1>6. \A c \in Cases : /\ InHand(c) => InHand(c)'
                       /\ AtRest(c) => AtRest(c)'
                       /\ Registered(c)' <=> Registered(c)
  BY <1>2, <1>5 DEF InHand, AtRest, AgentOf, Registered
<1>7. NoStepProposedTwice'
  BY <1>3 DEF Turns, NoStepProposedTwice
<1>8. \A c \in Cases : (IF Registered(c) THEN InHand(c) \/ AtRest(c)
                                        ELSE AskedOnly(actions, c, {}))'
  BY <1>4, <1>6 DEF Turns
<1>9. ASSUME NEW q \in Procs
      PROVE  /\ proc'[q].pc = "registered" => AskedOnly(actions', proc'[q].case, {})
             /\ proc'[q].pc = "run" =>
                  InTurn(actions', proc'[q].agent, proc'[q].case, proc'[q].mem)
  BY <1>2, <1>4, <1>5 DEF Turns
<1> QED BY <1>7, <1>8, <1>9 DEF Turns

LEMMA TurnsStutter == ASSUME Turns, UNCHANGED vars PROVE Turns'
<1>1. /\ registry' = registry /\ ckpt' = ckpt /\ proc' = proc
      /\ actions' = actions
  BY DEF vars
<1> QED BY <1>1 DEF Turns, InHand, AtRest, Registered, AgentOf,
                    NoStepProposedTwice

LEMMA TurnsStep ==
  ASSUME OneAtATime, CrashesAllowed = FALSE, TypeOK, Custody, Turns, [Next]_vars
  PROVE  Turns'
<1>1. ASSUME NEW p \in Procs PROVE ~Dies(p)
  BY DEF Dies
<1> QED BY <1>1, StarterTurns, PollerTurns, RunNodeTurns, HumanDecidesTurns,
           TurnsStutter DEF Next

(* When each case is started once, one poller runs and nobody dies, a case *)
(* asks for the steps of its chain one after another, and rests only when  *)
(* it has finished or waits, whatever ids its writes share.                *)
THEOREM Orderly ==
  ASSUME OneAtATime, CrashesAllowed = FALSE
  PROVE  Spec => [](TypeOK /\ OrderlyInv)
<1>1. Init => TypeOK /\ OrderlyInv
  BY TypeInit, CustodyInit, TurnsInit DEF OrderlyInv
<1>2. TypeOK /\ OrderlyInv /\ [Next]_vars => TypeOK' /\ OrderlyInv'
  BY TypeStep, CustodyStep, TurnsStep DEF OrderlyInv
<1> QED BY <1>1, <1>2, PTL DEF Spec

(* No human is asked twice for the same step of the same case.             *)
THEOREM StepsProposedOnce ==
  ASSUME OneAtATime, CrashesAllowed = FALSE
  PROVE  Spec => []NoStepProposedTwice
<1>1. OrderlyInv => NoStepProposedTwice
  BY DEF OrderlyInv, Turns
<1> QED BY <1>1, Orderly, PTL

(* An unfinished case waits where the poller will find it, or is in hand.  *)
THEOREM NobodyStranded ==
  ASSUME OneAtATime, CrashesAllowed = FALSE
  PROVE  Spec => []NoCaseStranded
<1>1. OrderlyInv => NoCaseStranded
  BY DEF OrderlyInv, Turns, AtRest, InHand, NoCaseStranded
<1> QED BY <1>1, Orderly, PTL
=============================================================================
