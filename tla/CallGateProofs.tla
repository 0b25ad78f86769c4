--------------------------- MODULE CallGateProofs ---------------------------
(* The call gates the chain in every deployment: no discipline is assumed. *)
(* Nor is a step of it skipped, if every case_id keeps to one agent.       *)
EXTENDS CallGate, CaseSafetyProofs

-----------------------------------------------------------------------------
(* Which nodes are late. *)

LEMMA LateOnes ==
  LateNodes = {"propose_notice", "propose_record_update",
               "propose_welcome_notice", "propose_onboarding_ticket"}
<1>1. {ProposeNode["order_renewal"][s] :
         s \in StepSet("order_renewal") \ FirstSteps} =
      {"propose_notice", "propose_record_update"}
  BY RenewalChain DEF FirstSteps, ProposeNode, RenewalPropose
<1>2. {ProposeNode["customer_onboarding"][s] :
         s \in StepSet("customer_onboarding") \ FirstSteps} =
      {"propose_welcome_notice", "propose_onboarding_ticket",
       "propose_record_update"}
  BY OnboardingChain DEF FirstSteps, ProposeNode, OnboardingPropose
<1> QED BY <1>1, <1>2 DEF LateNodes, Agents

LEMMA NotLate ==
  ASSUME NEW a \in Agents
  PROVE  /\ {"wait_for_approval", "record_outcome", "detect", "end"}
              \cap LateNodes = {}
         /\ \A node \in DOMAIN Continue[a] :
              node \notin LateNodes /\ Continue[a][node] \notin LateNodes
         /\ PullNode[a] \notin LateNodes
         /\ ProposeNode[a][Steps[a][1]] \notin LateNodes
         /\ \A s \in StepSet(a) :
              s \in FirstSteps \/ ProposeNode[a][s] \in LateNodes
<1>1. CASE a = "order_renewal"
  BY <1>1, LateOnes, RenewalChain
  DEF Continue, RenewalContinue, PullNode, ProposeNode, RenewalPropose, Steps,
      FirstSteps
<1>2. CASE a = "customer_onboarding"
  BY <1>2, LateOnes, OnboardingChain
  DEF Continue, OnboardingContinue, PullNode, ProposeNode, OnboardingPropose,
      Steps, FirstSteps
<1> QED BY <1>1, <1>2 DEF Agents

-----------------------------------------------------------------------------
(* What the gate has recorded stays. *)

LEMMA CalledGrows ==
  ASSUME NEW old, NEW new, Grows(old, new), NEW c,
         NEW j \in Nat, NEW k \in Nat, j <= k, j <= Len(old),
         CalledWithin(old, c, j)
  PROVE  CalledWithin(new, c, k)
BY ApprovedGrows DEF CalledWithin

LEMMA BackingGrows ==
  ASSUME NEW old, NEW new, Grows(old, new), NEW c
  PROVE  /\ Called(old, c) => Called(new, c)
         /\ Declined(old, c) => Declined(new, c)
         /\ IdsOf(old, c) \subseteq IdsOf(new, c)
         /\ \A v : VerdictBacked(old, c, v) => VerdictBacked(new, c, v)
         /\ \A t : ThreadBacked(old, c, t) => ThreadBacked(new, c, t)
<1>1. /\ Len(old) \in Nat /\ Len(new) \in Nat /\ Len(old) <= Len(new)
      /\ \A n \in 1 .. Len(old) : n \in 1 .. Len(new) /\ new[n].case = old[n].case
  BY DEF Grows
<1>2. Called(old, c) => Called(new, c)
  BY <1>1, CalledGrows DEF Called
<1>3. Declined(old, c) => Declined(new, c)
  BY RejectedGrows DEF Declined
<1>4. IdsOf(old, c) \subseteq IdsOf(new, c)
  BY <1>1 DEF IdsOf
<1>5. \A v : VerdictBacked(old, c, v) => VerdictBacked(new, c, v)
  BY <1>2, <1>3 DEF VerdictBacked
<1> QED BY <1>2, <1>3, <1>4, <1>5 DEF ThreadBacked

LEMMA ChainGateGrows ==
  ASSUME TypeOK, Grows(actions, actions'), Len(actions') = Len(actions),
         CallGatesTheChain
  PROVE  CallGatesTheChain'
<1> SUFFICES ASSUME NEW n \in 1 .. Len(actions), actions[n].step \notin FirstSteps
             PROVE  CalledWithin(actions', actions[n].case, n - 1)
  BY DEF CallGatesTheChain, Grows
<1>1. CalledWithin(actions, actions[n].case, n - 1)
  BY DEF CallGatesTheChain
<1>2. Len(actions) \in Nat /\ n - 1 \in Nat /\ n - 1 <= Len(actions)
  BY DEF TypeOK
<1> QED BY <1>1, <1>2, CalledGrows

(* Any approved action of a case shows that its call was approved. *)
LEMMA ApprovalShowsCall ==
  ASSUME TypeOK, CallGatesTheChain, NEW n \in 1 .. Len(actions),
         actions[n].decision = "approved"
  PROVE  Called(actions, actions[n].case)
<1>0. Len(actions) \in Nat
  BY DEF TypeOK
<1>1. CASE actions[n].step \in FirstSteps
  BY <1>0, <1>1 DEF Called, CalledWithin, ApprovedWithin
<1>2. CASE actions[n].step \notin FirstSteps
  <2>1. CalledWithin(actions, actions[n].case, n - 1)
    BY <1>2 DEF CallGatesTheChain
  <2> QED BY <1>0, <2>1 DEF Called, CalledWithin, ApprovedWithin
<1> QED BY <1>1, <1>2

(* An id of a case that has a status names an action of that case. *)
LEMMA StatusOfCase ==
  ASSUME TypeOK, IdsApart, NEW c \in Cases, NEW i \in IdsOf(actions, c),
         i \in DOMAIN status
  PROVE  \E n \in 1 .. Len(actions) :
           actions[n].case = c /\ actions[n].decision = status[i]
<1>1. PICK n \in 1 .. Len(actions) :
        actions[n].id = i /\ actions[n].decision = status[i]
  BY DEF IdsApart
<1>2. actions[n].id \in {<<"process", actions[n].case>>, <<"uuid", n>>}
  BY DEF IdsApart
<1>3. i # NoId
  <2>1. Len(i) = 2
    BY <1>1, <1>2
  <2> QED BY <2>1 DEF NoId
<1>4. CASE i = <<"process", c>>
  <2>1. i[1] = "process" /\ i[2] = c
    BY <1>4
  <2>2. i = <<"process", actions[n].case>>
    BY <1>1, <1>2, <2>1
  <2> QED BY <1>1, <2>1, <2>2
<1>5. ASSUME NEW m \in 1 .. Len(actions), actions[m].case = c, i = <<"uuid", m>>
      PROVE  actions[n].case = c
  <2>1. i[1] = "uuid" /\ i[2] = m
    BY <1>5
  <2>2. i = <<"uuid", n>>
    BY <1>1, <1>2, <2>1
  <2> QED BY <1>5, <2>1, <2>2
<1> QED BY <1>1, <1>3, <1>4, <1>5 DEF IdsOf

(* Whatever a poller makes of a status, the humans gave cause for it. *)
LEMMA PolledVerdictBacked ==
  ASSUME TypeOK, IdsApart, CallGatesTheChain,
         NEW c \in Cases, NEW i \in IdsOf(actions, c), StatusOf(i) # "none"
  PROVE  VerdictBacked(actions, c, Resolved(StatusOf(i)))
<1>1. i \in DOMAIN status /\ StatusOf(i) = status[i] /\ status[i] \in Outcomes
  BY DEF StatusOf, TypeOK
<1>2. PICK n \in 1 .. Len(actions) :
        actions[n].case = c /\ actions[n].decision = status[i]
  BY <1>1, StatusOfCase
<1>3. actions[n].step \in AllSteps
  BY RecordTyped DEF Actions
<1>4. CASE status[i] = "approved"
  BY <1>1, <1>2, <1>4, ApprovalShowsCall DEF VerdictBacked, Resolved
<1>5. CASE status[i] \in {"rejected", "failed"}
  BY <1>1, <1>2, <1>3, <1>5 DEF VerdictBacked, Resolved, Declined, RejectedIn
<1> QED BY <1>1, <1>4, <1>5 DEF Outcomes

-----------------------------------------------------------------------------
(* Each node leaves a backed thread backed. *)

LEMMA NewThreadBacked ==
  ASSUME NEW acts, NEW c PROVE ThreadBacked(acts, c, NewThread)
BY LateOnes DEF ThreadBacked, NewThread, IdsOf

LEMMA StartedBacked ==
  ASSUME NEW t \in Threads, NEW acts, NEW c, ThreadBacked(acts, c, t)
  PROVE  ThreadBacked(acts, c, StartedFrom(t))
<1> DEFINE u == StartedFrom(t)
<1> SUFFICES ThreadBacked(acts, c, u)
  OBVIOUS
<1>1. /\ u.next = "detect" /\ u.action_id = t.action_id
      /\ u.final_summary = t.final_summary
  BY DEF StartedFrom, Threads
<1> HIDE DEF u
<1> QED BY <1>1, LateOnes DEF ThreadBacked

LEMMA PassedBacked ==
  ASSUME NEW a \in Agents, NEW t \in Threads, NEW acts, NEW c,
         ThreadBacked(acts, c, t), t.next \in DOMAIN Continue[a]
  PROVE  ThreadBacked(acts, c, Passed(a, t))
<1> DEFINE u == Passed(a, t)
<1> SUFFICES ThreadBacked(acts, c, u)
  OBVIOUS
<1>1. /\ u.action_id = t.action_id /\ u.final_summary = t.final_summary
      /\ u.stop_reason = t.stop_reason
      /\ \/ u.next = "record_outcome" /\ u.stop_reason # "none"
         \/ u.next = Continue[a][t.next]
  BY DEF Passed, RouteAfterCheck, Threads
<1>2. Continue[a][t.next] \notin LateNodes /\ Continue[a][t.next] # "record_outcome"
  BY NotLate, ProposersApart, TablesLeadToNodes
<1> HIDE DEF u
<1> QED BY <1>1, <1>2, LateOnes DEF ThreadBacked

LEMMA StoppedBacked ==
  ASSUME NEW t \in Threads, NEW acts, NEW c, ThreadBacked(acts, c, t)
  PROVE  ThreadBacked(acts, c, Stopped(t))
<1> DEFINE u == Stopped(t)
<1> SUFFICES ThreadBacked(acts, c, u)
  OBVIOUS
<1>0. "none" \notin Nodes
  BY DEF Nodes, ReadNodes
<1>1. /\ u.action_id = t.action_id /\ u.final_summary = t.final_summary
      /\ u.next = "record_outcome" /\ u.stop_reason # "none"
  BY <1>0 DEF Stopped, RouteAfterCheck, Threads
<1> HIDE DEF u
<1> QED BY <1>1, LateOnes DEF ThreadBacked

LEMMA PulledBacked ==
  ASSUME NEW a \in Agents, NEW t \in Threads, NEW acts, NEW c,
         ThreadBacked(acts, c, t)
  PROVE  ThreadBacked(acts, c, Pulled(a, t))
<1> DEFINE u == Pulled(a, t)
<1> SUFFICES ThreadBacked(acts, c, u)
  OBVIOUS
<1>1. /\ u.action_id = t.action_id /\ u.final_summary = t.final_summary
      /\ u.next = ProposeNode[a][Steps[a][1]]
  BY DEF Pulled, Threads
<1>2. u.next \notin LateNodes /\ u.next # "record_outcome"
  BY <1>1, NotLate, ProposersApart, TablesLeadToNodes
<1> HIDE DEF u
<1> QED BY <1>1, <1>2 DEF ThreadBacked

LEMMA ProposedBacked ==
  ASSUME NEW t \in Threads, NEW acts, NEW c, NEW s, NEW n,
         NEW id \in IdsOf(acts, c), ThreadBacked(acts, c, t)
  PROVE  ThreadBacked(acts, c, Proposed(t, s, id, n))
<1> DEFINE u == Proposed(t, s, id, n)
<1> SUFFICES ThreadBacked(acts, c, u)
  OBVIOUS
<1>1. /\ u.action_id = id /\ u.final_summary = t.final_summary
      /\ u.stop_reason = t.stop_reason
      /\ \/ u.next = "wait_for_approval"
         \/ u.next = "record_outcome" /\ u.stop_reason # "none"
  BY DEF Proposed, RouteAfterCheck, Threads
<1> HIDE DEF u
<1> QED BY <1>1, LateOnes DEF ThreadBacked

LEMMA PausedBacked ==
  ASSUME NEW t \in Threads, NEW acts, NEW c, ThreadBacked(acts, c, t)
  PROVE  ThreadBacked(acts, c, Paused(t))
<1> DEFINE u == Paused(t)
<1> SUFFICES ThreadBacked(acts, c, u)
  OBVIOUS
<1>1. /\ u.action_id = t.action_id /\ u.final_summary = t.final_summary
      /\ u.stop_reason = t.stop_reason /\ u.next = t.next
      /\ u.last_action_result = t.last_action_result
  BY DEF Paused, Threads
<1> HIDE DEF u
<1> QED BY <1>1 DEF ThreadBacked

(* The one node that leads on to late nodes: on an approval, and only then. *)
LEMMA ResumedBacked ==
  ASSUME NEW a \in Agents, NEW t \in Threads, NEW acts, NEW c,
         NEW v \in Decisions, ThreadBacked(acts, c, t), VerdictBacked(acts, c, v)
  PROVE  ThreadBacked(acts, c, Resumed(a, t, v))
<1> DEFINE u == Resumed(a, t, v)
<1> SUFFICES ThreadBacked(acts, c, u)
  OBVIOUS
<1>1. /\ u.action_id = t.action_id /\ u.final_summary = t.final_summary
      /\ u.last_action_result = v
      /\ v = "approved" \/ u.next = "record_outcome"
  BY DEF Resumed, RouteAfterWait, Threads
<1>2. v # "none"
  BY DEF Decisions
<1> HIDE DEF u
<1> QED BY <1>1, <1>2, LateOnes DEF ThreadBacked, VerdictBacked

LEMMA RecordedBacked ==
  ASSUME NEW t \in Threads, NEW acts, NEW c, ThreadBacked(acts, c, t),
         t.next = "record_outcome"
  PROVE  ThreadBacked(acts, c, Recorded(t))
<1> DEFINE u == Recorded(t)
<1> SUFFICES ThreadBacked(acts, c, u)
  OBVIOUS
<1>1. /\ u.action_id = t.action_id /\ u.final_summary = Outcome(t)
      /\ u.next = "end"
  BY DEF Recorded, Threads
<1>2. t.last_action_result \in {"approved", "rejected", "none"}
  BY DEF Threads, Decisions
<1>3. /\ Outcome(t) = "completed" => Called(acts, c)
      /\ Outcome(t) = "rejected" => Declined(acts, c)
  BY <1>2 DEF Outcome, ThreadBacked, VerdictBacked
<1> HIDE DEF u
<1> QED BY <1>1, <1>3, LateOnes DEF ThreadBacked

-----------------------------------------------------------------------------
(* One process at a time. *)

LEMMA IdleBacked ==
  ASSUME NEW acts, NEW c PROVE VerdictBacked(acts, c, "none")
BY DEF VerdictBacked

(* A step of process p that leaves p and the checkpoint of its case backed. *)
LEMMA StepBacked ==
  ASSUME TypeOK, GateInv, NEW p \in Procs, Grows(actions, actions'),
         IdsApart', CallGatesTheChain',
         \A q \in Procs : q # p => proc'[q] = proc[q],
         \A c \in Cases : ckpt'[c] = ckpt[c] \/ ThreadBacked(actions', c, ckpt'[c]),
         proc'[p].pc \in {"idle", "sweep"} => proc'[p].verdict = "none",
         proc'[p].pc = "poll" => proc'[p].seen \in IdsOf(actions', proc'[p].case),
         VerdictBacked(actions', proc'[p].case, proc'[p].verdict),
         proc'[p].pc = "run" =>
           ThreadBacked(actions', proc'[p].case, proc'[p].mem)
  PROVE  GateInv'
<1>1. \A c \in Cases : ThreadBacked(actions', c, ckpt'[c])
  BY BackingGrows DEF GateInv
<1>2. ASSUME NEW q \in Procs PROVE ProcBacked(q)'
  <2>1. CASE q = p
    BY <2>1 DEF ProcBacked
  <2>2. CASE q # p
    <3>1. ProcBacked(q) /\ proc'[q] = proc[q]
      BY <2>2 DEF GateInv
    <3> QED BY <3>1, BackingGrows DEF ProcBacked
  <2> QED BY <2>1, <2>2
<1> QED BY <1>1, <1>2 DEF GateInv

(* ... the gate unseen. *)
LEMMA QuietBacked ==
  ASSUME TypeOK, GateInv, NEW p \in Procs, UNCHANGED gateVars,
         \A q \in Procs : q # p => proc'[q] = proc[q],
         \A c \in Cases : ckpt'[c] = ckpt[c] \/ ThreadBacked(actions, c, ckpt'[c]),
         proc'[p].pc \in {"idle", "sweep"} => proc'[p].verdict = "none",
         proc'[p].pc = "poll" => proc'[p].seen \in IdsOf(actions, proc'[p].case),
         VerdictBacked(actions, proc'[p].case, proc'[p].verdict),
         proc'[p].pc = "run" =>
           ThreadBacked(actions, proc'[p].case, proc'[p].mem)
  PROVE  GateInv'
<1>1. actions' = actions /\ status' = status /\ Grows(actions, actions')
  BY GrowsRefl DEF gateVars
<1>2. IdsApart' /\ CallGatesTheChain'
  BY <1>1 DEF GateInv, IdsApart, CallGatesTheChain
<1> QED BY <1>1, <1>2, StepBacked

LEMMA ResetBacked ==
  ASSUME TypeOK, GateInv, NEW p \in Procs, proc' = [proc EXCEPT ![p] = IdleProc],
         UNCHANGED <<ckpt, gateVars>>
  PROVE  GateInv'
<1>1. proc'[p] = IdleProc /\ \A q \in Procs : q # p => proc'[q] = proc[q]
  BY DEF TypeOK
<1>2. proc'[p].pc = "idle" /\ proc'[p].verdict = "none"
  BY <1>1 DEF IdleProc
<1> QED BY <1>1, <1>2, IdleBacked, QuietBacked

(* A node that leaves a backed thread. *)
LEMMA LeaveBacked ==
  ASSUME TypeOK, GateInv, NEW p \in Procs, proc[p].pc = "run",
         NEW t \in Threads, Leave(p, t), Grows(actions, actions'),
         IdsApart', CallGatesTheChain',
         ThreadBacked(actions', proc[p].case, t)
  PROVE  GateInv'
<1> DEFINE c == proc[p].case
           on == [proc[p] EXCEPT !.mem = t, !.verdict = "none"]
<1>1. proc[p] \in ProcStates /\ c \in Cases /\ ckpt \in [Cases -> Threads]
  BY DEF TypeOK
<1>2. \A q \in Procs : q # p => proc'[q] = proc[q]
  BY DEF Leave, TypeOK
<1>3. ckpt' \in {ckpt, [ckpt EXCEPT ![c] = t]}
  BY DEF Leave, Checkpoint
<1>4. \A d \in Cases : ckpt'[d] = ckpt[d] \/ ThreadBacked(actions', d, ckpt'[d])
  BY <1>1, <1>3
<1>5. proc'[p] = on \/ proc'[p] = Returned(p)
  BY DEF Leave, TypeOK
<1>6. CASE proc'[p] = on
  <2>1. /\ proc'[p].pc = "run" /\ proc'[p].case = c /\ proc'[p].mem = t
        /\ proc'[p].verdict = "none"
    BY <1>1, <1>6 DEF ProcStates
  <2> HIDE DEF on
  <2> QED BY <1>2, <1>4, <2>1, IdleBacked, StepBacked
<1>7. CASE proc'[p] = Returned(p)
  <2>1. proc'[p].pc \in {"idle", "sweep"} /\ proc'[p].verdict = "none"
    BY <1>7 DEF Returned, IdleProc
  <2> QED BY <1>2, <1>4, <2>1, IdleBacked, StepBacked
<1> QED BY <1>5, <1>6, <1>7

LEMMA QuietLeaveBacked ==
  ASSUME TypeOK, GateInv, NEW p \in Procs, proc[p].pc = "run",
         NEW t \in Threads, Leave(p, t), UNCHANGED gateVars,
         ThreadBacked(actions, proc[p].case, t)
  PROVE  GateInv'
<1>1. actions' = actions /\ status' = status /\ Grows(actions, actions')
  BY GrowsRefl DEF gateVars
<1>2. IdsApart' /\ CallGatesTheChain'
  BY <1>1 DEF GateInv, IdsApart, CallGatesTheChain
<1> QED BY <1>1, <1>2, LeaveBacked

-----------------------------------------------------------------------------
(* The nodes. *)

LEMMA RunnerBacked ==
  ASSUME TypeOK, GateInv, NEW p \in Procs, proc[p].pc = "run"
  PROVE  /\ proc[p].agent \in Agents /\ proc[p].case \in Cases
         /\ proc[p].mem \in Threads
         /\ proc[p].verdict \in Decisions \cup {"none"}
         /\ ThreadBacked(actions, proc[p].case, proc[p].mem)
         /\ VerdictBacked(actions, proc[p].case, proc[p].verdict)
<1>1. proc[p] \in ProcStates /\ proc[p].case \in Cases
  BY DEF TypeOK
<1>2. ProcBacked(p)
  BY DEF GateInv
<1> QED BY <1>1, <1>2 DEF ProcStates, ProcBacked

(* The write of a node is recorded under an id of its case; and unless it  *)
(* is the call, its thread is at a late node.                              *)
LEMMA RecordedBackedIds ==
  ASSUME TypeOK, GateInv, NEW c \in Cases, NEW s \in AllSteps, NEW b,
         NewId(c, b) \in ActionIds, RecordAction(c, s, NewId(c, b)),
         s \in FirstSteps \/ Called(actions, c)
  PROVE  /\ Grows(actions, actions') /\ IdsApart' /\ CallGatesTheChain'
         /\ NewId(c, b) \in IdsOf(actions', c)
<1> DEFINE N == Len(actions) + 1
           id == NewId(c, b)
<1>1. /\ Grows(actions, actions') /\ Len(actions') = N
      /\ actions'[N].case = c /\ actions'[N].step = s /\ actions'[N].id = id
      /\ status' = status
  BY RecordsGrow
<1>2. Len(actions) \in Nat /\ \A m \in 1 .. N : m = N \/ m \in 1 .. Len(actions)
  BY RecordTyped
<1>3. id \in {<<"process", c>>, <<"uuid", N>>}
  BY DEF NewId
<1> HIDE DEF id
<1>4. id \in IdsOf(actions', c)
  BY <1>1, <1>2, <1>3 DEF IdsOf
<1>5. ASSUME NEW n \in 1 .. N
      PROVE  actions'[n].id \in {<<"process", actions'[n].case>>, <<"uuid", n>>}
  <2>1. CASE n = N
    BY <1>1, <1>3, <2>1
  <2>2. CASE n \in 1 .. Len(actions)
    BY <1>1, <2>2 DEF GateInv, IdsApart, Grows
  <2> QED BY <1>2, <2>1, <2>2
<1>6. ASSUME NEW i \in DOMAIN status
      PROVE  \E n \in 1 .. N : actions'[n].id = i /\ actions'[n].decision = status[i]
  <2>1. PICK n \in 1 .. Len(actions) :
          actions[n].id = i /\ actions[n].decision = status[i]
    BY DEF GateInv, IdsApart
  <2>2. status[i] \in Outcomes /\ "undecided" \notin Outcomes
    BY DEF TypeOK, Outcomes
  <2>3. n \in 1 .. N
    BY <1>2
  <2> QED BY <1>1, <2>1, <2>2, <2>3 DEF Grows
<1>7. IdsApart'
  BY <1>1, <1>5, <1>6 DEF IdsApart
<1>8. ASSUME NEW n \in 1 .. N, actions'[n].step \notin FirstSteps
      PROVE  CalledWithin(actions', actions'[n].case, n - 1)
  <2>1. CASE n = N
    <3>1. CalledWithin(actions, c, Len(actions))
      BY <1>1, <1>8, <2>1 DEF Called
    <3> QED BY <1>1, <1>2, <2>1, <3>1, CalledGrows
  <2>2. CASE n \in 1 .. Len(actions)
    <3>1. actions'[n].case = actions[n].case /\ actions'[n].step = actions[n].step
      BY <1>1, <2>2 DEF Grows
    <3>2. CalledWithin(actions, actions[n].case, n - 1)
      BY <1>8, <2>2, <3>1 DEF GateInv, CallGatesTheChain
    <3>3. n - 1 \in Nat /\ n - 1 <= Len(actions)
      BY <1>2, <2>2
    <3> QED BY <1>1, <3>1, <3>2, <3>3, CalledGrows
  <2> QED BY <1>2, <2>1, <2>2
<1>9. CallGatesTheChain'
  BY <1>1, <1>8 DEF CallGatesTheChain
<1> QED BY <1>1, <1>4, <1>7, <1>9 DEF id

LEMMA RunProposeBacked ==
  ASSUME TypeOK, GateInv, NEW p \in Procs, RunPropose(p) PROVE GateInv'
<1> DEFINE a == proc[p].agent
           c == proc[p].case
           t == proc[p].mem
           id == NewId(c, PassesProcessId[a])
<1>1. PICK s \in StepSet(a) :
        /\ Running(p, ProposeNode[a][s])
        /\ \/ /\ Len(actions) < MaxActions
              /\ RecordAction(c, s, id)
              /\ \/ Leave(p, Proposed(t, s, id, Len(actions) + 1))
                 \/ Leave(p, Stopped(t))
           \/ Leave(p, Stopped(t)) /\ UNCHANGED gateVars
  BY DEF RunPropose
<1>2. proc[p].pc = "run" /\ t.next = ProposeNode[a][s]
  BY <1>1 DEF Running
<1>3. /\ a \in Agents /\ c \in Cases /\ t \in Threads
      /\ ThreadBacked(actions, c, t)
  BY <1>2, RunnerBacked
<1>4. Stopped(t) \in Threads /\ ThreadBacked(actions, c, Stopped(t))
  BY <1>3, ThreadTypes, StoppedBacked
<1>5. CASE Leave(p, Stopped(t)) /\ UNCHANGED gateVars
  BY <1>2, <1>4, <1>5, QuietLeaveBacked
<1>6. CASE Len(actions) < MaxActions /\ RecordAction(c, s, id)
  <2>1. s \in AllSteps /\ id \in ActionIds /\ Len(actions) + 1 \in Nat
    BY <1>3, <1>6, TablesLeadToNodes, GateTypes, RecordTyped
  <2>2. s \in FirstSteps \/ Called(actions, c)
    BY <1>2, <1>3, NotLate DEF ThreadBacked
  <2>3. /\ Grows(actions, actions') /\ IdsApart' /\ CallGatesTheChain'
        /\ id \in IdsOf(actions', c)
    BY <1>3, <1>6, <2>1, <2>2, RecordedBackedIds
  <2> HIDE DEF id
  <2>4. ThreadBacked(actions', c, t) /\ ThreadBacked(actions', c, Stopped(t))
    BY <1>3, <1>4, <2>3, BackingGrows
  <2>5. /\ Proposed(t, s, id, Len(actions) + 1) \in Threads
        /\ ThreadBacked(actions', c, Proposed(t, s, id, Len(actions) + 1))
    BY <1>3, <2>1, <2>3, <2>4, ThreadTypes, ProposedBacked
  <2>6. CASE Leave(p, Stopped(t))
    BY <1>2, <1>4, <2>3, <2>4, <2>6, LeaveBacked
  <2>7. CASE Leave(p, Proposed(t, s, id, Len(actions) + 1))
    BY <1>2, <2>3, <2>5, <2>7, LeaveBacked
  <2>8. \/ Leave(p, Proposed(t, s, id, Len(actions) + 1))
        \/ Leave(p, Stopped(t))
    BY <1>1, <1>4
  <2> QED BY <2>6, <2>7, <2>8
<1> QED BY <1>1, <1>5, <1>6

LEMMA RunNodeBacked ==
  ASSUME TypeOK, GateInv, NEW p \in Procs, RunNode(p) PROVE GateInv'
<1> DEFINE a == proc[p].agent
           c == proc[p].case
           t == proc[p].mem
           v == proc[p].verdict
<1>1. CASE RunCheck(p)
  <2>1. /\ proc[p].pc = "run" /\ t.next \in DOMAIN Continue[a]
        /\ Leave(p, Passed(a, t)) \/ Leave(p, Stopped(t))
        /\ UNCHANGED gateVars
    BY <1>1 DEF RunCheck, Running
  <2>2. Passed(a, t) \in Threads /\ Stopped(t) \in Threads
    BY <2>1, RunnerBacked, ThreadTypes
  <2>3. ThreadBacked(actions, c, Passed(a, t)) /\ ThreadBacked(actions, c, Stopped(t))
    BY <2>1, RunnerBacked, PassedBacked, StoppedBacked
  <2> QED BY <2>1, <2>2, <2>3, QuietLeaveBacked
<1>2. CASE RunPull(p)
  <2>1. proc[p].pc = "run" /\ Leave(p, Pulled(a, t)) /\ UNCHANGED gateVars
    BY <1>2 DEF RunPull, Running
  <2>2. Pulled(a, t) \in Threads /\ ThreadBacked(actions, c, Pulled(a, t))
    BY <2>1, RunnerBacked, ThreadTypes, PulledBacked
  <2> QED BY <2>1, <2>2, QuietLeaveBacked
<1>3. CASE RunPropose(p)
  BY <1>3, RunProposeBacked
<1>4. CASE RunWait(p)
  <2>1. proc[p].pc = "run" /\ UNCHANGED gateVars
    BY <1>4 DEF RunWait, Running
  <2>2. CASE v = "none"
    <3>1. Leave(p, Paused(t))
      BY <1>4, <2>2 DEF RunWait
    <3>2. Paused(t) \in Threads /\ ThreadBacked(actions, c, Paused(t))
      BY <2>1, RunnerBacked, ThreadTypes, PausedBacked
    <3> QED BY <2>1, <3>1, <3>2, QuietLeaveBacked
  <2>3. CASE v # "none"
    <3>1. Leave(p, Resumed(a, t, v)) /\ v \in Decisions
      BY <1>4, <2>1, <2>3, RunnerBacked DEF RunWait
    <3>2. /\ Resumed(a, t, v) \in Threads
          /\ ThreadBacked(actions, c, Resumed(a, t, v))
      BY <2>1, <3>1, RunnerBacked, ThreadTypes, ResumedBacked
    <3> QED BY <2>1, <3>1, <3>2, QuietLeaveBacked
  <2> QED BY <2>2, <2>3
<1>5. CASE RunRecordOutcome(p)
  <2>1. /\ proc[p].pc = "run" /\ t.next = "record_outcome"
        /\ Leave(p, Recorded(t)) /\ UNCHANGED gateVars
    BY <1>5 DEF RunRecordOutcome, Running
  <2>2. Recorded(t) \in Threads /\ ThreadBacked(actions, c, Recorded(t))
    BY <2>1, RunnerBacked, ThreadTypes, RecordedBacked
  <2> QED BY <2>1, <2>2, QuietLeaveBacked
<1> QED BY <1>1, <1>2, <1>3, <1>4, <1>5 DEF RunNode

-----------------------------------------------------------------------------
(* Starters, pollers and the human. *)

LEMMA StarterBacked ==
  ASSUME TypeOK, GateInv, NEW p \in Starters, StarterNext(p) PROVE GateInv'
<1>0. p \in Procs /\ proc[p] \in ProcStates /\ ProcBacked(p)
  BY DEF Procs, TypeOK, GateInv
<1>1. ASSUME NEW c \in Cases, NEW a \in AgentsFor[c], BeginStart(p, c, a)
      PROVE  GateInv'
  <2>1. /\ \A q \in Procs : q # p => proc'[q] = proc[q]
        /\ proc'[p] = [IdleProc EXCEPT !.pc = "checked", !.agent = a, !.case = c]
        /\ UNCHANGED <<ckpt, gateVars>>
    BY <1>0, <1>1 DEF BeginStart, TypeOK
  <2>2. proc'[p].pc = "checked" /\ proc'[p].verdict = "none"
    BY <2>1 DEF IdleProc
  <2>3. /\ VerdictBacked(actions, proc'[p].case, proc'[p].verdict)
        /\ UNCHANGED gateVars /\ ckpt' = ckpt
    BY <2>1, <2>2, IdleBacked
  <2>4. proc'[p].pc \notin {"poll", "run"}
    BY <2>2
  <2> QED BY <1>0, <2>1, <2>2, <2>3, <2>4, QuietBacked
<1>2. CASE Register(p)
  <2>1. /\ \A q \in Procs : q # p => proc'[q] = proc[q]
        /\ proc'[p] = [proc[p] EXCEPT !.pc = "registered"]
        /\ UNCHANGED <<ckpt, gateVars>>
    BY <1>0, <1>2 DEF Register, TypeOK
  <2>2. /\ proc'[p].pc = "registered" /\ proc'[p].verdict = proc[p].verdict
        /\ proc'[p].case = proc[p].case
    BY <1>0, <2>1 DEF ProcStates
  <2> QED BY <1>0, <2>1, <2>2, QuietBacked DEF ProcBacked
<1>3. CASE InvokeInitial(p)
  <2> DEFINE c == proc[p].case
             t == StartedFrom(ckpt[c])
  <2>1. c \in Cases /\ ckpt[c] \in Threads
    BY <1>0, <1>3 DEF InvokeInitial, TypeOK
  <2>2. ThreadBacked(actions, c, t)
    BY <2>1, StartedBacked DEF GateInv
  <2>3. /\ \A q \in Procs : q # p => proc'[q] = proc[q]
        /\ proc'[p] = [proc[p] EXCEPT !.pc = "run", !.mem = t]
        /\ ckpt' \in {ckpt, [ckpt EXCEPT ![c] = t]} /\ UNCHANGED gateVars
    BY <1>0, <1>3 DEF InvokeInitial, Checkpoint, TypeOK
  <2> HIDE DEF t
  <2>4. /\ proc'[p].pc = "run" /\ proc'[p].verdict = proc[p].verdict
        /\ proc'[p].case = c /\ proc'[p].mem = t
    BY <1>0, <2>3 DEF ProcStates
  <2>5. \A d \in Cases : ckpt'[d] = ckpt[d] \/ ThreadBacked(actions, d, ckpt'[d])
    BY <2>1, <2>2, <2>3 DEF TypeOK
  <2> QED BY <1>0, <2>2, <2>3, <2>4, <2>5, QuietBacked DEF ProcBacked
<1> QED BY <1>1, <1>2, <1>3 DEF StarterNext

LEMMA PollerBacked ==
  ASSUME TypeOK, GateInv, NEW p \in Pollers, PollerNext(p) PROVE GateInv'
<1>0. p \in Procs /\ proc[p] \in ProcStates /\ ProcBacked(p)
  BY DEF Procs, TypeOK, GateInv
<1>a. ASSUME NEW st \in ProcStates, proc' = [proc EXCEPT ![p] = st],
             st.pc \in {"idle", "sweep"}, st.verdict = "none",
             UNCHANGED <<ckpt, gateVars>>
      PROVE  GateInv'
  <2>1. proc'[p] = st /\ \A q \in Procs : q # p => proc'[q] = proc[q]
    BY <1>0, <1>a DEF TypeOK
  <2> QED BY <1>0, <1>a, <2>1, IdleBacked, QuietBacked
<1>b. ASSUME proc' = [proc EXCEPT ![p] = Returned(p)], UNCHANGED <<ckpt, gateVars>>
      PROVE  GateInv'
  <2>1. Returned(p).verdict = "none"
    BY DEF Returned, IdleProc
  <2> QED BY <1>0, <1>a, <1>b, <2>1, ReturnedType
<1>1. CASE BeginSweep(p)
  <2> DEFINE st == [IdleProc EXCEPT !.pc = "sweep", !.todo = Listed(FirstAgent)]
  <2>1. st \in ProcStates /\ st.pc = "sweep" /\ st.verdict = "none"
    BY IdleProcType DEF ProcStates, IdleProc, Listed
  <2> HIDE DEF st
  <2> QED BY <1>1, <1>a, <2>1 DEF BeginSweep, st
<1>2. CASE SweepNext(p)
  <2>1. PICK c \in proc[p].todo :
          proc' = [proc EXCEPT ![p] =
            IF WorthPolling(ckpt[c])
            THEN [proc[p] EXCEPT !.pc = "poll", !.todo = proc[p].todo \ {c},
                                 !.case = c, !.seen = ckpt[c].action_id]
            ELSE [proc[p] EXCEPT !.todo = proc[p].todo \ {c}]]
    BY <1>2 DEF SweepNext
  <2>2. c \in Cases /\ \A q \in Procs : q # p => proc'[q] = proc[q]
    BY <1>0, <2>1 DEF ProcStates, TypeOK
  <2>3. CASE WorthPolling(ckpt[c])
    <3>1. proc'[p] = [proc[p] EXCEPT !.pc = "poll", !.todo = proc[p].todo \ {c},
                                     !.case = c, !.seen = ckpt[c].action_id]
      BY <1>0, <2>1, <2>3 DEF TypeOK
    <3>2. /\ proc'[p].pc = "poll" /\ proc'[p].case = c
          /\ proc'[p].seen = ckpt[c].action_id
          /\ proc'[p].verdict = proc[p].verdict
      BY <1>0, <3>1 DEF ProcStates
    <3>3. ckpt[c].action_id \in IdsOf(actions, c)
      BY <2>2 DEF GateInv, ThreadBacked
    <3>4. VerdictBacked(actions, c, proc[p].verdict)
      BY <1>2, <1>0, IdleBacked DEF SweepNext, ProcBacked
    <3>5. UNCHANGED gateVars /\ ckpt' = ckpt
      BY <1>2 DEF SweepNext
    <3> QED BY <1>0, <2>2, <3>2, <3>3, <3>4, <3>5, QuietBacked
  <2>4. CASE ~WorthPolling(ckpt[c])
    <3>1. proc'[p] = [proc[p] EXCEPT !.todo = proc[p].todo \ {c}]
      BY <1>0, <2>1, <2>4 DEF TypeOK
    <3>2. /\ proc'[p].pc = "sweep" /\ proc'[p].case = proc[p].case
          /\ proc'[p].verdict = proc[p].verdict
      BY <1>0, <1>2, <3>1 DEF ProcStates, SweepNext
    <3> QED BY <1>0, <1>2, <2>2, <3>2, QuietBacked DEF SweepNext, ProcBacked
  <2> QED BY <2>3, <2>4
<1>3. CASE SweepAgentDone(p)
  <2> DEFINE st == [proc[p] EXCEPT !.agent = LastAgent, !.todo = Listed(LastAgent)]
  <2>1. st \in ProcStates /\ st.pc = "sweep" /\ st.verdict = "none"
    BY <1>0, <1>3
    DEF ProcStates, SweepAgentDone, LastAgent, Agents, Listed, ProcBacked
  <2>2. CASE proc' = [proc EXCEPT ![p] = st]
    BY <1>3, <1>a, <2>1, <2>2 DEF SweepAgentDone
  <2>3. CASE proc' = [proc EXCEPT ![p] = IdleProc]
    BY <1>0, <1>3, <2>3, ResetBacked DEF SweepAgentDone
  <2> QED BY <1>3, <2>2, <2>3 DEF SweepAgentDone
<1>4. CASE PollAnswered(p)
  <2> DEFINE result == StatusOf(proc[p].seen)
             c == proc[p].case
  <2>1. CASE result = "none"
    BY <1>4, <1>b, <2>1 DEF PollAnswered
  <2>2. CASE result # "none"
    <3>1. /\ proc'[p] = [proc[p] EXCEPT !.pc = "resume",
                                        !.verdict = Resolved(result)]
          /\ \A q \in Procs : q # p => proc'[q] = proc[q]
      BY <1>0, <1>4, <2>2 DEF PollAnswered, TypeOK
    <3>2. c \in Cases /\ proc[p].seen \in IdsOf(actions, c)
      BY <1>0, <1>4 DEF PollAnswered, TypeOK, ProcBacked
    <3>3. VerdictBacked(actions, c, Resolved(result))
      BY <2>2, <3>2, PolledVerdictBacked DEF GateInv
    <3>4. /\ proc'[p].pc = "resume" /\ proc'[p].case = c
          /\ proc'[p].verdict = Resolved(result)
      BY <1>0, <3>1 DEF ProcStates
    <3> QED BY <1>0, <1>4, <3>1, <3>3, <3>4, QuietBacked DEF PollAnswered
  <2> QED BY <2>1, <2>2
<1>5. CASE PollFails(p)
  BY <1>0, <1>5, ResetBacked DEF PollFails
<1>6. CASE InvokeResume(p)
  <2> DEFINE c == proc[p].case
  <2>1. c \in Cases
    BY <1>0, <1>6 DEF InvokeResume, TypeOK
  <2>2. CASE proc' = [proc EXCEPT ![p] = Returned(p)]
    BY <1>6, <1>b, <2>2 DEF InvokeResume
  <2>3. CASE proc' = [proc EXCEPT ![p] = [proc[p] EXCEPT !.pc = "run",
                                                         !.mem = ckpt[c]]]
    <3>1. /\ proc'[p] = [proc[p] EXCEPT !.pc = "run", !.mem = ckpt[c]]
          /\ \A q \in Procs : q # p => proc'[q] = proc[q]
      BY <1>0, <2>3 DEF TypeOK
    <3>2. /\ proc'[p].pc = "run" /\ proc'[p].case = c
          /\ proc'[p].mem = ckpt[c] /\ proc'[p].verdict = proc[p].verdict
      BY <1>0, <3>1 DEF ProcStates
    <3>3. ThreadBacked(actions, c, ckpt[c])
      BY <2>1 DEF GateInv
    <3> QED BY <1>0, <1>6, <3>1, <3>2, <3>3, QuietBacked
            DEF InvokeResume, ProcBacked
  <2> QED BY <1>6, <2>2, <2>3 DEF InvokeResume
<1> QED BY <1>1, <1>2, <1>3, <1>4, <1>5, <1>6 DEF PollerNext

LEMMA HumanDecidesBacked ==
  ASSUME TypeOK, GateInv, NEW n \in 1 .. Len(actions), HumanDecides(n)
  PROVE  GateInv'
<1>0. PICK d \in Outcomes : Decide(n, d)
  BY DEF HumanDecides
<1>1. UNCHANGED <<ckpt, proc>>
  BY DEF HumanDecides
<1>2. /\ Grows(actions, actions') /\ Len(actions') = Len(actions)
      /\ actions'[n].decision = d
      /\ \A m \in 1 .. Len(actions) : m # n => actions'[m] = actions[m]
  BY <1>0, DecisionsGrow
<1>3. \A m \in 1 .. Len(actions) :
        actions'[m].id = actions[m].id /\ actions'[m].case = actions[m].case
  BY <1>2 DEF Grows
<1>4. IdsApart'
  <2>1. ASSUME NEW m \in 1 .. Len(actions')
        PROVE  actions'[m].id \in {<<"process", actions'[m].case>>, <<"uuid", m>>}
    BY <1>2, <1>3 DEF GateInv, IdsApart
  <2>2. ASSUME NEW i \in DOMAIN status'
        PROVE  \E m \in 1 .. Len(actions') :
                 actions'[m].id = i /\ actions'[m].decision = status'[i]
    <3>1. CASE i = actions[n].id
      BY <1>0, <1>2, <1>3, <3>1 DEF Decide
    <3>2. CASE i # actions[n].id
      <4>1. i \in DOMAIN status /\ status'[i] = status[i]
        BY <1>0, <2>2, <3>2 DEF Decide
      <4>2. PICK m \in 1 .. Len(actions) :
              actions[m].id = i /\ actions[m].decision = status[i]
        BY <4>1 DEF GateInv, IdsApart
      <4>3. m # n
        BY <3>2, <4>2
      <4> QED BY <1>2, <4>1, <4>2, <4>3
    <3> QED BY <3>1, <3>2
  <2> QED BY <2>1, <2>2 DEF IdsApart
<1>5. CallGatesTheChain'
  BY <1>2, ChainGateGrows DEF GateInv
<1>6. \A c \in Cases : ThreadBacked(actions', c, ckpt'[c])
  BY <1>1, <1>2, BackingGrows DEF GateInv
<1>7. ASSUME NEW q \in Procs PROVE ProcBacked(q)'
  <2>1. ProcBacked(q) /\ proc'[q] = proc[q]
    BY <1>1 DEF GateInv
  <2> QED BY <1>2, <2>1, BackingGrows DEF ProcBacked
<1> QED BY <1>4, <1>5, <1>6, <1>7 DEF GateInv

-----------------------------------------------------------------------------
(* The invariant, for every deployment. *)

LEMMA GateInvInit ==
  ASSUME Init PROVE GateInv
<1>1. actions = <<>> /\ DOMAIN status = {}
  BY DEF Init, GateInit
<1>2. Len(actions) = 0
  BY <1>1
<1>3. IdsApart /\ CallGatesTheChain
  BY <1>1, <1>2 DEF IdsApart, CallGatesTheChain
<1>4. \A c \in Cases : ThreadBacked(actions, c, ckpt[c])
  BY NewThreadBacked DEF Init
<1>5. ASSUME NEW p \in Procs PROVE ProcBacked(p)
  <2>1. proc[p] = IdleProc
    BY DEF Init
  <2>2. proc[p].pc = "idle" /\ proc[p].verdict = "none"
    BY <2>1 DEF IdleProc
  <2> QED BY <2>2, IdleBacked DEF ProcBacked
<1> QED BY <1>3, <1>4, <1>5 DEF GateInv

LEMMA GateStep ==
  ASSUME TypeOK, GateInv, [Next]_vars PROVE GateInv'
<1>1. ASSUME NEW p \in Starters, StarterNext(p) PROVE GateInv'
  BY <1>1, StarterBacked
<1>2. ASSUME NEW p \in Pollers, PollerNext(p) PROVE GateInv'
  BY <1>2, PollerBacked
<1>3. ASSUME NEW p \in Procs, RunNode(p) PROVE GateInv'
  BY <1>3, RunNodeBacked
<1>4. ASSUME NEW p \in Procs, Dies(p) PROVE GateInv'
  BY <1>4, ResetBacked DEF Dies
<1>5. ASSUME NEW n \in 1 .. Len(actions), HumanDecides(n) PROVE GateInv'
  BY <1>5, HumanDecidesBacked
<1>6. CASE UNCHANGED vars
  <2>1. UNCHANGED <<actions, status, ckpt, proc>>
    BY <1>6 DEF vars, gateVars
  <2> QED BY <2>1 DEF GateInv, IdsApart, ProcBacked, CallGatesTheChain
<1> QED BY <1>1, <1>2, <1>3, <1>4, <1>5, <1>6 DEF Next

(* Whatever is run at once, crashes or fails: every verdict a process      *)
(* holds, every id a thread waits on and every outcome a thread reports    *)
(* goes back to a decision on a write of the same case.                    *)
THEOREM GateInvariance == Spec => []GateInv
<1>1. Init => GateInv
  BY GateInvInit
<1>2. TypeOK /\ GateInv /\ [Next]_vars => GateInv'
  BY GateStep
<1> QED BY <1>1, <1>2, TypeCorrect, PTL DEF Spec

(* No write beyond the call of a case is put to a human unless a call of   *)
(* that case was approved and executed before it.                          *)
THEOREM CallGates == Spec => []CallGatesTheChain
<1>1. GateInv => CallGatesTheChain
  BY DEF GateInv
<1> QED BY <1>1, GateInvariance, PTL

(* No case ends as completed without an executed call, nor as rejected     *)
(* without a decision, or a failed execution, that says so.                *)
THEOREM ReportsNotInvented == Spec => []ReportNotInvented
<1>1. GateInv => ReportNotInvented
  BY DEF GateInv, ThreadBacked, ReportNotInvented, Called, Declined
<1> QED BY <1>1, GateInvariance, PTL


-----------------------------------------------------------------------------
(* The chain of a case that is always run under one agent: what was asked  *)
(* for stays asked for, and each node leaves a thread on its course.       *)

LEMMA AskedGrows ==
  ASSUME NEW old, NEW new, Grows(old, new), NEW c, NEW s,
         NEW j \in Nat, NEW k \in Nat, j <= k, j <= Len(old),
         AskedWithin(old, c, s, j)
  PROVE  AskedWithin(new, c, s, k)
BY DEF Grows, AskedWithin

LEMMA ReachedGrows ==
  ASSUME NEW old, NEW new, Grows(old, new), NEW a, NEW c
  PROVE  /\ \A s : Asked(old, c, s) => Asked(new, c, s)
         /\ \A s : EarlierAsked(old, a, c, s) => EarlierAsked(new, a, c, s)
         /\ \A t : Reached(old, a, c, t) => Reached(new, a, c, t)
<1>1. Len(old) \in Nat /\ Len(new) \in Nat /\ Len(old) <= Len(new)
  BY DEF Grows
<1>2. \A s : Asked(old, c, s) => Asked(new, c, s)
  BY <1>1, AskedGrows DEF Asked
<1>3. \A s : EarlierAsked(old, a, c, s) => EarlierAsked(new, a, c, s)
  BY <1>2 DEF EarlierAsked
<1>4. ChainAsked(old, a, c) => ChainAsked(new, a, c)
  BY <1>2 DEF ChainAsked
<1> QED BY <1>2, <1>3, <1>4 DEF Reached

(* A thread at none of the nodes that ask, wait or report. *)
LEMMA ElsewhereReached ==
  ASSUME NEW a \in Agents, NEW acts, NEW c, NEW t, NEW u,
         Reached(acts, a, c, t), u.final_summary = t.final_summary,
         u.next \notin {"wait_for_approval", "record_outcome"},
         \A s \in StepSet(a) : u.next # ProposeNode[a][s]
  PROVE  Reached(acts, a, c, u)
BY DEF Reached

(* ... and one that is about to report that it stopped. *)
LEMMA StoppingReached ==
  ASSUME NEW a \in Agents, NEW acts, NEW c, NEW t, NEW u,
         Reached(acts, a, c, t), u.final_summary = t.final_summary,
         u.next = "record_outcome", u.stop_reason # "none"
  PROVE  Reached(acts, a, c, u)
<1>1. \A s \in StepSet(a) : u.next # ProposeNode[a][s]
  BY ProposersApart
<1> QED BY <1>1 DEF Reached

LEMMA NewThreadReached ==
  ASSUME NEW a \in Agents, NEW acts, NEW c PROVE Reached(acts, a, c, NewThread)
<1>1. \A s \in StepSet(a) : NewThread.next # ProposeNode[a][s]
  BY ProposersApart DEF NewThread
<1> QED BY <1>1 DEF Reached, NewThread

LEMMA StartedReached ==
  ASSUME NEW a \in Agents, NEW t \in Threads, NEW acts, NEW c, Reached(acts, a, c, t)
  PROVE  Reached(acts, a, c, StartedFrom(t))
<1> DEFINE u == StartedFrom(t)
<1>1. u.next = "detect" /\ u.final_summary = t.final_summary
  BY DEF StartedFrom, Threads
<1>2. \A s \in StepSet(a) : u.next # ProposeNode[a][s]
  BY <1>1, ProposersApart
<1> HIDE DEF u
<1>3. Reached(acts, a, c, u)
  BY <1>1, <1>2, ElsewhereReached
<1> QED BY <1>3 DEF u

LEMMA PassedReached ==
  ASSUME NEW a \in Agents, NEW t \in Threads, NEW acts, NEW c,
         Reached(acts, a, c, t), t.next \in DOMAIN Continue[a]
  PROVE  Reached(acts, a, c, Passed(a, t))
<1> DEFINE u == Passed(a, t)
<1>1. /\ u.final_summary = t.final_summary
      /\ \/ u.next = "record_outcome" /\ u.stop_reason # "none"
         \/ u.next = Continue[a][t.next]
  BY DEF Passed, RouteAfterCheck, Threads
<1>2. /\ Continue[a][t.next] \notin {"wait_for_approval", "record_outcome"}
      /\ \A s \in StepSet(a) : Continue[a][t.next] # ProposeNode[a][s]
  BY ProposersApart, TablesLeadToNodes
<1> HIDE DEF u
<1>3. Reached(acts, a, c, u)
  BY <1>1, <1>2, ElsewhereReached, StoppingReached
<1> QED BY <1>3 DEF u

LEMMA StoppedReached ==
  ASSUME NEW a \in Agents, NEW t \in Threads, NEW acts, NEW c, Reached(acts, a, c, t)
  PROVE  Reached(acts, a, c, Stopped(t))
<1> DEFINE u == Stopped(t)
<1>0. "none" \notin Nodes
  BY DEF Nodes, ReadNodes
<1>1. /\ u.final_summary = t.final_summary
      /\ u.next = "record_outcome" /\ u.stop_reason # "none"
  BY <1>0 DEF Stopped, RouteAfterCheck, Threads
<1> HIDE DEF u
<1>2. Reached(acts, a, c, u)
  BY <1>1, StoppingReached
<1> QED BY <1>2 DEF u

LEMMA PulledReached ==
  ASSUME NEW a \in Agents, NEW t \in Threads, NEW acts, NEW c, Reached(acts, a, c, t)
  PROVE  Reached(acts, a, c, Pulled(a, t))
<1> DEFINE u == Pulled(a, t)
<1>1. u.final_summary = t.final_summary /\ u.next = ProposeNode[a][Steps[a][1]]
  BY DEF Pulled, Threads
<1>2. u.next \notin {"wait_for_approval", "record_outcome"}
  BY <1>1, ProposersApart, TablesLeadToNodes
<1>3. \A s \in StepSet(a) : u.next = ProposeNode[a][s] => EarlierAsked(acts, a, c, s)
  BY <1>1, ChainOrder DEF EarlierAsked
<1> HIDE DEF u
<1>4. Reached(acts, a, c, u)
  BY <1>1, <1>2, <1>3 DEF Reached
<1> QED BY <1>4 DEF u

LEMMA ProposedReached ==
  ASSUME NEW a \in Agents, NEW t \in Threads, NEW acts, NEW c, NEW s \in StepSet(a),
         NEW id, NEW n, Reached(acts, a, c, t),
         Asked(acts, c, s), EarlierAsked(acts, a, c, s)
  PROVE  Reached(acts, a, c, Proposed(t, s, id, n))
<1> DEFINE u == Proposed(t, s, id, n)
<1> SUFFICES Reached(acts, a, c, u)
  OBVIOUS
<1>1. /\ u.final_summary = t.final_summary /\ u.awaiting_step = s
      /\ \/ u.next = "wait_for_approval"
         \/ u.next = "record_outcome" /\ u.stop_reason # "none"
  BY DEF Proposed, RouteAfterCheck, Threads
<1> HIDE DEF u
<1>2. CASE u.next = "wait_for_approval"
  <2>1. \A r \in StepSet(a) : u.next # ProposeNode[a][r]
    BY <1>2, ProposersApart
  <2> QED BY <1>1, <1>2, <2>1 DEF Reached
<1>3. CASE u.next # "wait_for_approval"
  BY <1>1, <1>3, StoppingReached
<1> QED BY <1>2, <1>3

LEMMA PausedReached ==
  ASSUME NEW a, NEW t \in Threads, NEW acts, NEW c, Reached(acts, a, c, t)
  PROVE  Reached(acts, a, c, Paused(t))
<1> DEFINE u == Paused(t)
<1>1. /\ u.final_summary = t.final_summary /\ u.stop_reason = t.stop_reason
      /\ u.next = t.next /\ u.awaiting_step = t.awaiting_step
      /\ u.last_action_result = t.last_action_result
  BY DEF Paused, Threads
<1> HIDE DEF u
<1>2. Reached(acts, a, c, u)
  BY <1>1 DEF Reached
<1> QED BY <1>2 DEF u

(* Whichever step the verdict was about, the thread goes on from the step  *)
(* it awaits, and that one was asked for.                                  *)
LEMMA ResumedReached ==
  ASSUME NEW a \in Agents, NEW t \in Threads, NEW acts, NEW c,
         NEW v \in Decisions, Reached(acts, a, c, t), t.next = "wait_for_approval"
  PROVE  Reached(acts, a, c, Resumed(a, t, v))
<1> DEFINE u == Resumed(a, t, v)
           w == t.awaiting_step
<1> SUFFICES Reached(acts, a, c, u)
  OBVIOUS
<1>1. u.final_summary = t.final_summary /\ u.last_action_result = v
  BY DEF Resumed, Threads
<1>2. u.next = IF v = "approved" /\ w \in DOMAIN AfterApproval[a]
               THEN AfterApproval[a][w] ELSE "record_outcome"
  BY DEF Resumed, RouteAfterWait, Threads
<1>3. w \in StepSet(a) /\ Asked(acts, c, w) /\ EarlierAsked(acts, a, c, w)
  BY DEF Reached
<1> HIDE DEF u, w
<1>4. CASE v = "approved" /\ w \in DOMAIN AfterApproval[a]
  <2>1. u.next = AfterApproval[a][w]
    BY <1>2, <1>4
  <2>2. u.next \notin {"wait_for_approval", "record_outcome"}
    BY <1>3, <1>4, <2>1, ProposersApart
  <2>3. \A s \in StepSet(a) : u.next = ProposeNode[a][s] => EarlierAsked(acts, a, c, s)
    <3>1. ASSUME NEW s \in StepSet(a), AfterApproval[a][w] = ProposeNode[a][s]
          PROVE  Earlier(a, s) \subseteq Earlier(a, w) \cup {w}
      BY <1>4, <3>1, ChainOrder
    <3> QED BY <1>3, <2>1, <3>1 DEF EarlierAsked
  <2> QED BY <1>1, <2>2, <2>3 DEF Reached
<1>5. CASE ~(v = "approved" /\ w \in DOMAIN AfterApproval[a])
  <2>1. u.next = "record_outcome"
    BY <1>2, <1>5
  <2>2. \A s \in StepSet(a) : u.next # ProposeNode[a][s]
    BY <2>1, ProposersApart
  <2>3. v = "rejected" \/ ChainAsked(acts, a, c)
    BY <1>3, <1>5, ChainOrder DEF EarlierAsked, ChainAsked, Decisions
  <2> QED BY <1>1, <2>1, <2>2, <2>3 DEF Reached
<1> QED BY <1>4, <1>5

LEMMA RecordedReached ==
  ASSUME NEW a \in Agents, NEW t \in Threads, NEW acts, NEW c,
         Reached(acts, a, c, t), t.next = "record_outcome"
  PROVE  Reached(acts, a, c, Recorded(t))
<1> DEFINE u == Recorded(t)
<1>1. u.final_summary = Outcome(t) /\ u.next = "end"
  BY DEF Recorded, Threads
<1>2. Outcome(t) = "completed" => ChainAsked(acts, a, c)
  BY DEF Outcome, Reached
<1>3. \A s \in StepSet(a) : u.next # ProposeNode[a][s]
  BY <1>1, ProposersApart
<1> HIDE DEF u
<1>4. Reached(acts, a, c, u)
  BY <1>1, <1>2, <1>3 DEF Reached
<1> QED BY <1>4 DEF u


-----------------------------------------------------------------------------
(* One process at a time: what a step does to the registry and the record, *)
(* and to the process that takes it.                                       *)

RowsGrow(old, new) ==
  \A c \in Cases :
    \/ new[c] = old[c]
    \/ old[c] = NoRow /\ new[c].at # 0 /\ new[c].agent \in AgentsFor[c]

LEMMA AgentsTyped ==
  ASSUME NEW c \in Cases, NEW a \in AgentsFor[c] PROVE a \in Agents
BY AgentAssumption

LEMMA ListedRegistered ==
  ASSUME CourseInv, NEW a \in Agents, NEW c \in Listed(a)
  PROVE  /\ c \in Cases /\ Registered(c) /\ a \in AgentsFor[c]
         /\ registry[c] # NoRow
BY DEF CourseInv, Listed, NoRow, Agents, AgentOf

LEMMA CourseMoves ==
  ASSUME TypeOK, CourseInv, NEW p \in Procs,
         Grows(actions, actions'), RowsGrow(registry, registry'),
         \A q \in Procs : q # p => proc'[q] = proc[q],
         \A c \in Cases : \/ ckpt'[c] = ckpt[c]
                          \/ /\ registry[c] # NoRow
                             /\ \A a \in AgentsFor[c] :
                                  Reached(actions', a, c, ckpt'[c]),
         \A n \in 1 .. Len(actions') : registry'[actions'[n].case].at # 0,
         AskedInOrder', ProcOnCourse(p)'
  PROVE  CourseInv'
<1>0. NoRow.at = 0 /\ NoRow.agent \notin Agents
  BY DEF NoRow, Agents
<1>1. ASSUME NEW c \in Cases
      PROVE  /\ registry'[c] = NoRow \/ (Registered(c)' /\ AgentOf(c)' \in AgentsFor[c])
             /\ registry'[c] = NoRow => ckpt'[c] = NewThread
             /\ \A a \in AgentsFor[c] : Reached(actions', a, c, ckpt'[c])
  <2>1. /\ registry[c] = NoRow \/ (Registered(c) /\ AgentOf(c) \in AgentsFor[c])
        /\ registry[c] = NoRow => ckpt[c] = NewThread
        /\ \A a \in AgentsFor[c] : Reached(actions, a, c, ckpt[c])
    BY DEF CourseInv
  <2>2. \A a \in AgentsFor[c] : Reached(actions', a, c, ckpt'[c])
    BY <2>1, ReachedGrows
  <2>3. \/ registry'[c] = registry[c]
        \/ /\ registry[c] = NoRow /\ registry'[c].at # 0
           /\ registry'[c].agent \in AgentsFor[c]
    BY DEF RowsGrow
  <2> QED BY <1>0, <2>1, <2>2, <2>3 DEF Registered, AgentOf
<1>2. ASSUME NEW q \in Procs, q # p PROVE ProcOnCourse(q)'
  <2> DEFINE a == proc[q].agent
  <2>0. a \in Agents
    BY DEF TypeOK, ProcStates
  <2>1. ProcOnCourse(q) /\ proc'[q] = proc[q]
    BY <1>2 DEF CourseInv
  <2>2. Listed(a) \subseteq {c \in Cases : registry'[c].agent = a}
    BY <2>0, ListedRegistered DEF RowsGrow, Listed
  <2>3. proc[q].pc \in {"registered", "poll", "resume", "run"} =>
          proc[q].case \in Cases /\ registry'[proc[q].case].at # 0
    <3>1. proc[q].pc \in {"idle", "sweep"} \/ proc[q].case \in Cases
      BY DEF TypeOK
    <3> QED BY <1>0, <2>1, <3>1 DEF RowsGrow, ProcOnCourse, Registered
  <2>4. proc[q].pc = "run" => Reached(actions', a, proc[q].case, proc[q].mem)
    BY <2>1, ReachedGrows DEF ProcOnCourse
  <2> QED BY <2>1, <2>2, <2>3, <2>4 DEF ProcOnCourse, Listed, Registered
<1>3. (\A n \in 1 .. Len(actions) : Registered(actions[n].case))'
  BY DEF Registered
<1> QED BY <1>1, <1>2, <1>3 DEF CourseInv, Registered

(* ... the gate unseen, and at most the checkpoint of one case written. *)
LEMMA QuietCourse ==
  ASSUME TypeOK, CourseInv, NEW p \in Procs, UNCHANGED <<registry, gateVars>>,
         \A q \in Procs : q # p => proc'[q] = proc[q],
         \A c \in Cases : \/ ckpt'[c] = ckpt[c]
                          \/ /\ registry[c] # NoRow
                             /\ \A a \in AgentsFor[c] :
                                  Reached(actions, a, c, ckpt'[c]),
         proc'[p].todo \subseteq Listed(proc'[p].agent),
         proc'[p].pc \notin {"idle", "sweep"} =>
           proc'[p].agent \in AgentsFor[proc'[p].case],
         proc'[p].pc \in {"registered", "poll", "resume", "run"} =>
           Registered(proc'[p].case),
         proc'[p].pc = "run" =>
           Reached(actions, proc'[p].agent, proc'[p].case, proc'[p].mem)
  PROVE  CourseInv'
<1>1. actions' = actions /\ registry' = registry /\ Grows(actions, actions')
  BY GrowsRefl DEF gateVars
<1>2. RowsGrow(registry, registry')
  BY <1>1 DEF RowsGrow
<1>3. \A n \in 1 .. Len(actions') : registry'[actions'[n].case].at # 0
  BY <1>1 DEF CourseInv, Registered
<1>4. AskedInOrder'
  BY <1>1 DEF CourseInv, AskedInOrder, AgentOf
<1>5. ProcOnCourse(p)'
  BY <1>1 DEF ProcOnCourse, Listed, Registered
<1> QED BY <1>1, <1>2, <1>3, <1>4, <1>5, CourseMoves

(* A process that has no case in hand afterwards. *)
LEMMA IdlingCourse ==
  ASSUME TypeOK, CourseInv, NEW p \in Procs, UNCHANGED <<registry, ckpt, gateVars>>,
         NEW st, proc' = [proc EXCEPT ![p] = st], st.pc \in {"idle", "sweep"},
         st.todo \subseteq Listed(st.agent)
  PROVE  CourseInv'
<1>1. proc'[p] = st /\ \A q \in Procs : q # p => proc'[q] = proc[q]
  BY DEF TypeOK
<1>2. st.pc \notin {"registered", "poll", "resume", "run"}
  OBVIOUS
<1> QED BY <1>1, <1>2, QuietCourse

LEMMA ReturnedCourse ==
  ASSUME TypeOK, CourseInv, NEW p \in Procs
  PROVE  /\ Returned(p).pc \in {"idle", "sweep"}
         /\ Returned(p).todo \subseteq Listed(Returned(p).agent)
<1>1. /\ IdleProc.pc = "idle" /\ IdleProc.todo = {}
  BY DEF IdleProc
<1>2. ProcOnCourse(p)
  BY DEF CourseInv
<1>3. CASE p \in Starters
  BY <1>1, <1>3 DEF Returned
<1>4. CASE p \notin Starters
  <2>1. /\ Returned(p).pc = "sweep" /\ Returned(p).todo = proc[p].todo
        /\ Returned(p).agent = proc[p].agent
    BY <1>4 DEF Returned, IdleProc
  <2> QED BY <1>2, <2>1 DEF ProcOnCourse
<1> QED BY <1>3, <1>4

LEMMA ResetCourse ==
  ASSUME TypeOK, CourseInv, NEW p \in Procs, UNCHANGED <<registry, ckpt, gateVars>>,
         proc' = [proc EXCEPT ![p] = IdleProc]
  PROVE  CourseInv'
<1>1. IdleProc.pc = "idle" /\ IdleProc.todo = {}
  BY DEF IdleProc
<1> HIDE DEF IdleProc
<1> QED BY <1>1, IdlingCourse

-----------------------------------------------------------------------------
(* The nodes. *)

LEMMA RunnerOnCourse ==
  ASSUME TypeOK, CourseInv, NEW p \in Procs, proc[p].pc = "run"
  PROVE  /\ proc[p].case \in Cases /\ proc[p].agent \in AgentsFor[proc[p].case]
         /\ proc[p].agent \in Agents /\ proc[p].mem \in Threads
         /\ proc[p].verdict \in Decisions \cup {"none"}
         /\ Registered(proc[p].case) /\ registry[proc[p].case] # NoRow
         /\ Reached(actions, proc[p].agent, proc[p].case, proc[p].mem)
<1>1. proc[p] \in ProcStates /\ proc[p].case \in Cases
  BY DEF TypeOK
<1>2. ProcOnCourse(p)
  BY DEF CourseInv
<1>3. NoRow.at = 0
  BY DEF NoRow
<1> QED BY <1>1, <1>2, <1>3 DEF ProcStates, ProcOnCourse, Registered

LEMMA LeaveCourse ==
  ASSUME OneAgentPerCase, TypeOK, CourseInv, NEW p \in Procs, proc[p].pc = "run",
         NEW t \in Threads, Leave(p, t), UNCHANGED registry,
         Grows(actions, actions'), AskedInOrder',
         \A n \in 1 .. Len(actions') : registry[actions'[n].case].at # 0,
         Reached(actions', proc[p].agent, proc[p].case, t)
  PROVE  CourseInv'
<1> DEFINE c == proc[p].case
           on == [proc[p] EXCEPT !.mem = t, !.verdict = "none"]
<1>1. /\ c \in Cases /\ proc[p].agent \in AgentsFor[c]
      /\ Registered(c) /\ registry[c] # NoRow
      /\ proc[p] \in ProcStates /\ ProcOnCourse(p)
  BY RunnerOnCourse DEF TypeOK, CourseInv
<1>2. \A q \in Procs : q # p => proc'[q] = proc[q]
  BY DEF Leave, TypeOK
<1>3. ckpt' \in {ckpt, [ckpt EXCEPT ![c] = t]}
  BY DEF Leave, Checkpoint
<1>4. \A a \in AgentsFor[c] : Reached(actions', a, c, t)
  BY <1>1 DEF OneAgentPerCase
<1>5. ASSUME NEW d \in Cases
      PROVE  \/ ckpt'[d] = ckpt[d]
             \/ /\ registry[d] # NoRow
                /\ \A a \in AgentsFor[d] : Reached(actions', a, d, ckpt'[d])
  BY <1>1, <1>3, <1>4 DEF TypeOK
<1>6. RowsGrow(registry, registry')
  BY DEF RowsGrow
<1>7. CASE proc'[p] = on
  <2>1. /\ proc'[p].pc = "run" /\ proc'[p].case = c /\ proc'[p].mem = t
        /\ proc'[p].agent = proc[p].agent /\ proc'[p].todo = proc[p].todo
    BY <1>1, <1>7 DEF ProcStates
  <2> HIDE DEF on
  <2>2. ProcOnCourse(p)'
    BY <1>1, <2>1 DEF ProcOnCourse, Listed, Registered
  <2> QED BY <1>2, <1>5, <1>6, <2>2, CourseMoves
<1>8. CASE proc'[p] = Returned(p)
  <2> DEFINE r == Returned(p)
  <2>1. r.pc \in {"idle", "sweep"} /\ r.todo \subseteq Listed(r.agent)
    BY ReturnedCourse
  <2>2. proc'[p].pc \in {"idle", "sweep"} /\ proc'[p].todo \subseteq Listed(proc'[p].agent)
    BY <1>8, <2>1
  <2> HIDE DEF r
  <2>3. ProcOnCourse(p)'
    BY <2>2 DEF ProcOnCourse, Listed
  <2> QED BY <1>2, <1>5, <1>6, <2>3, CourseMoves
<1>9. proc'[p] = on \/ proc'[p] = Returned(p)
  BY DEF Leave, TypeOK
<1> QED BY <1>7, <1>8, <1>9

LEMMA QuietLeaveCourse ==
  ASSUME OneAgentPerCase, TypeOK, CourseInv, NEW p \in Procs, proc[p].pc = "run",
         NEW t \in Threads, Leave(p, t), UNCHANGED <<registry, gateVars>>,
         Reached(actions, proc[p].agent, proc[p].case, t)
  PROVE  CourseInv'
<1>1. actions' = actions /\ Grows(actions, actions')
  BY GrowsRefl DEF gateVars
<1>2. AskedInOrder'
  BY <1>1 DEF CourseInv, AskedInOrder, AgentOf
<1>3. \A n \in 1 .. Len(actions') : registry[actions'[n].case].at # 0
  BY <1>1 DEF CourseInv, Registered
<1> QED BY <1>1, <1>2, <1>3, LeaveCourse


(* A write is recorded for the node its thread has reached. *)
LEMMA RecordedInOrder ==
  ASSUME TypeOK, CourseInv, NEW c \in Cases, NEW s \in AllSteps,
         NEW id \in ActionIds, RecordAction(c, s, id), UNCHANGED registry,
         Registered(c), EarlierAsked(actions, AgentOf(c), c, s)
  PROVE  /\ Grows(actions, actions') /\ AskedInOrder' /\ Asked(actions', c, s)
         /\ \A n \in 1 .. Len(actions') : registry[actions'[n].case].at # 0
<1> DEFINE N == Len(actions) + 1
<1>1. /\ Grows(actions, actions') /\ Len(actions') = N
      /\ actions'[N].case = c /\ actions'[N].step = s
  BY RecordsGrow
<1>2. /\ Len(actions) \in Nat /\ N \in 1 .. N
      /\ \A m \in 1 .. N : m = N \/ m \in 1 .. Len(actions)
  BY RecordTyped
<1>3. \A n \in 1 .. N : registry[actions'[n].case].at # 0
  BY <1>1, <1>2 DEF CourseInv, Registered, Grows
<1>4. Asked(actions', c, s)
  BY <1>1, <1>2 DEF Asked, AskedWithin
<1>5. ASSUME NEW n \in 1 .. N,
             NEW e \in Earlier(registry[actions'[n].case].agent, actions'[n].step)
      PROVE  AskedWithin(actions', actions'[n].case, e, n - 1)
  <2>1. CASE n = N
    <3>1. AskedWithin(actions, c, e, Len(actions))
      BY <1>1, <1>5, <2>1 DEF EarlierAsked, Asked, AgentOf
    <3> QED BY <1>1, <1>2, <2>1, <3>1, AskedGrows
  <2>2. CASE n \in 1 .. Len(actions)
    <3>1. actions'[n].case = actions[n].case /\ actions'[n].step = actions[n].step
      BY <1>1, <2>2 DEF Grows
    <3>2. AskedWithin(actions, actions[n].case, e, n - 1)
      BY <1>5, <2>2, <3>1 DEF CourseInv, AskedInOrder, AgentOf
    <3>3. n - 1 \in Nat /\ n - 1 <= Len(actions)
      BY <1>2, <2>2
    <3> QED BY <1>1, <3>1, <3>2, <3>3, AskedGrows
  <2> QED BY <1>2, <2>1, <2>2
<1>6. AskedInOrder'
  BY <1>1, <1>5 DEF AskedInOrder, AgentOf
<1> QED BY <1>1, <1>3, <1>4, <1>6

LEMMA RunProposeCourse ==
  ASSUME OneAgentPerCase, TypeOK, CourseInv, NEW p \in Procs, RunPropose(p)
  PROVE  CourseInv'
<1> DEFINE a == proc[p].agent
           c == proc[p].case
           t == proc[p].mem
           id == NewId(c, PassesProcessId[a])
<1>1. PICK s \in StepSet(a) :
        /\ Running(p, ProposeNode[a][s])
        /\ \/ /\ Len(actions) < MaxActions
              /\ RecordAction(c, s, id)
              /\ \/ Leave(p, Proposed(t, s, id, Len(actions) + 1))
                 \/ Leave(p, Stopped(t))
           \/ Leave(p, Stopped(t)) /\ UNCHANGED gateVars
        /\ UNCHANGED registry
  BY DEF RunPropose
<1>2. proc[p].pc = "run" /\ t.next = ProposeNode[a][s]
  BY <1>1 DEF Running
<1>3. /\ a \in Agents /\ c \in Cases /\ t \in Threads /\ a \in AgentsFor[c]
      /\ Registered(c) /\ Reached(actions, a, c, t)
  BY <1>2, RunnerOnCourse
<1>4. Stopped(t) \in Threads /\ Reached(actions, a, c, Stopped(t))
  BY <1>3, ThreadTypes, StoppedReached
<1>5. CASE Leave(p, Stopped(t)) /\ UNCHANGED gateVars
  BY <1>1, <1>2, <1>4, <1>5, QuietLeaveCourse
<1>6. CASE Len(actions) < MaxActions /\ RecordAction(c, s, id)
  <2>1. s \in AllSteps /\ id \in ActionIds /\ Len(actions) + 1 \in Nat
    BY <1>3, <1>6, TablesLeadToNodes, GateTypes, RecordTyped
  <2>2. AgentOf(c) = a
    <3>1. registry[c] = NoRow \/ AgentOf(c) \in AgentsFor[c]
      BY <1>3 DEF CourseInv
    <3>2. registry[c] # NoRow
      BY <1>3 DEF Registered, NoRow
    <3> QED BY <1>3, <3>1, <3>2 DEF OneAgentPerCase
  <2>3. EarlierAsked(actions, a, c, s)
    BY <1>2, <1>3 DEF Reached
  <2> HIDE DEF id
  <2>4. /\ Grows(actions, actions') /\ AskedInOrder' /\ Asked(actions', c, s)
        /\ \A n \in 1 .. Len(actions') : registry[actions'[n].case].at # 0
    BY <1>1, <1>3, <1>6, <2>1, <2>2, <2>3, RecordedInOrder
  <2>5. /\ EarlierAsked(actions', a, c, s)
        /\ Reached(actions', a, c, t) /\ Reached(actions', a, c, Stopped(t))
    BY <1>3, <1>4, <2>3, <2>4, ReachedGrows
  <2>6. /\ Proposed(t, s, id, Len(actions) + 1) \in Threads
        /\ Reached(actions', a, c, Proposed(t, s, id, Len(actions) + 1))
    BY <1>3, <2>1, <2>4, <2>5, ThreadTypes, ProposedReached
  <2>7. CASE Leave(p, Stopped(t))
    BY <1>1, <1>2, <1>4, <2>4, <2>5, <2>7, LeaveCourse
  <2>8. CASE Leave(p, Proposed(t, s, id, Len(actions) + 1))
    BY <1>1, <1>2, <2>4, <2>6, <2>8, LeaveCourse
  <2>9. \/ Leave(p, Proposed(t, s, id, Len(actions) + 1))
        \/ Leave(p, Stopped(t))
    BY <1>1, <1>4 DEF id
  <2> QED BY <2>7, <2>8, <2>9
<1> QED BY <1>1, <1>5, <1>6

LEMMA RunNodeCourse ==
  ASSUME OneAgentPerCase, TypeOK, CourseInv, NEW p \in Procs, RunNode(p)
  PROVE  CourseInv'
<1> DEFINE a == proc[p].agent
           c == proc[p].case
           t == proc[p].mem
           v == proc[p].verdict
<1>1. CASE RunCheck(p)
  <2>1. /\ proc[p].pc = "run" /\ t.next \in DOMAIN Continue[a]
        /\ Leave(p, Passed(a, t)) \/ Leave(p, Stopped(t))
        /\ UNCHANGED <<registry, gateVars>>
    BY <1>1 DEF RunCheck, Running
  <2>2. /\ Passed(a, t) \in Threads /\ Stopped(t) \in Threads
        /\ Reached(actions, a, c, Passed(a, t)) /\ Reached(actions, a, c, Stopped(t))
    BY <2>1, RunnerOnCourse, ThreadTypes, PassedReached, StoppedReached
  <2> QED BY <2>1, <2>2, QuietLeaveCourse
<1>2. CASE RunPull(p)
  <2>1. /\ proc[p].pc = "run" /\ Leave(p, Pulled(a, t))
        /\ UNCHANGED <<registry, gateVars>>
    BY <1>2 DEF RunPull, Running
  <2>2. Pulled(a, t) \in Threads /\ Reached(actions, a, c, Pulled(a, t))
    BY <2>1, RunnerOnCourse, ThreadTypes, PulledReached
  <2> QED BY <2>1, <2>2, QuietLeaveCourse
<1>3. CASE RunPropose(p)
  BY <1>3, RunProposeCourse
<1>4. CASE RunWait(p)
  <2>1. /\ proc[p].pc = "run" /\ t.next = "wait_for_approval"
        /\ UNCHANGED <<registry, gateVars>>
    BY <1>4 DEF RunWait, Running
  <2>2. CASE v = "none"
    <3>1. Leave(p, Paused(t))
      BY <1>4, <2>2 DEF RunWait
    <3>2. Paused(t) \in Threads /\ Reached(actions, a, c, Paused(t))
      BY <2>1, RunnerOnCourse, ThreadTypes, PausedReached
    <3> QED BY <2>1, <3>1, <3>2, QuietLeaveCourse
  <2>3. CASE v # "none"
    <3>1. Leave(p, Resumed(a, t, v)) /\ v \in Decisions
      BY <1>4, <2>1, <2>3, RunnerOnCourse DEF RunWait
    <3>2. /\ Resumed(a, t, v) \in Threads
          /\ Reached(actions, a, c, Resumed(a, t, v))
      BY <2>1, <3>1, RunnerOnCourse, ThreadTypes, ResumedReached
    <3> QED BY <2>1, <3>1, <3>2, QuietLeaveCourse
  <2> QED BY <2>2, <2>3
<1>5. CASE RunRecordOutcome(p)
  <2>1. /\ proc[p].pc = "run" /\ t.next = "record_outcome"
        /\ Leave(p, Recorded(t)) /\ UNCHANGED <<registry, gateVars>>
    BY <1>5 DEF RunRecordOutcome, Running
  <2>2. Recorded(t) \in Threads /\ Reached(actions, a, c, Recorded(t))
    BY <2>1, RunnerOnCourse, ThreadTypes, RecordedReached
  <2> QED BY <2>1, <2>2, QuietLeaveCourse
<1> QED BY <1>1, <1>2, <1>3, <1>4, <1>5 DEF RunNode

-----------------------------------------------------------------------------
(* Starters, pollers and the human. *)

LEMMA StarterCourse ==
  ASSUME TypeOK, CourseInv, NEW p \in Starters, StarterNext(p)
  PROVE  CourseInv'
<1>0. p \in Procs /\ proc[p] \in ProcStates /\ ProcOnCourse(p)
  BY DEF Procs, TypeOK, CourseInv
<1>1. ASSUME NEW c \in Cases, NEW a \in AgentsFor[c], BeginStart(p, c, a)
      PROVE  CourseInv'
  <2>1. /\ \A q \in Procs : q # p => proc'[q] = proc[q]
        /\ proc'[p] = [IdleProc EXCEPT !.pc = "checked", !.agent = a, !.case = c]
        /\ UNCHANGED <<registry, ckpt, gateVars>>
    BY <1>0, <1>1 DEF BeginStart, TypeOK
  <2>2. /\ proc'[p].pc = "checked" /\ proc'[p].todo = {}
        /\ proc'[p].agent = a /\ proc'[p].case = c
    BY <2>1 DEF IdleProc
  <2>3. proc'[p].pc \notin {"registered", "poll", "resume", "run"}
    BY <2>2
  <2> QED BY <1>0, <2>1, <2>2, <2>3, QuietCourse
<1>2. CASE Register(p)
  <2> DEFINE c == proc[p].case
             a == proc[p].agent
  <2>1. /\ proc[p].pc = "checked" /\ c \in Cases /\ a \in AgentsFor[c]
        /\ proc'[p] = [proc[p] EXCEPT !.pc = "registered"]
        /\ \A q \in Procs : q # p => proc'[q] = proc[q]
        /\ UNCHANGED <<ckpt, gateVars>>
    BY <1>0, <1>2 DEF Register, TypeOK, ProcOnCourse
  <2>2. /\ proc'[p].pc = "registered" /\ proc'[p].case = c
        /\ proc'[p].agent = a /\ proc'[p].todo = proc[p].todo
    BY <1>0, <2>1 DEF ProcStates
  <2>3. RowsGrow(registry, registry') /\ registry'[c].at # 0
    <3>1. CASE Registered(c)
      BY <1>2, <3>1 DEF Register, RowsGrow, Registered
    <3>2. CASE ~Registered(c)
      <4> DEFINE K == Cardinality({d \in Cases : Registered(d)})
      <4>1. K \in Nat
        BY CaseAssumption, FS_Subset, FS_CardinalityType
      <4>2. /\ registry'[c] = [agent |-> a, at |-> 1 + K]
            /\ \A d \in Cases : d # c => registry'[d] = registry[d]
        BY <1>2, <2>1, <3>2 DEF Register, TypeOK
      <4>3. registry[c] = NoRow
        BY <2>1, <3>2 DEF CourseInv
      <4> HIDE DEF K
      <4>4. registry'[c].at # 0 /\ registry'[c].agent = a
        BY <4>1, <4>2
      <4> QED BY <2>1, <4>2, <4>3, <4>4 DEF RowsGrow
    <3> QED BY <3>1, <3>2
  <2>4. Grows(actions, actions') /\ actions' = actions
    BY <2>1, GrowsRefl DEF gateVars
  <2>5. ASSUME NEW n \in 1 .. Len(actions)
        PROVE  /\ registry'[actions[n].case].at # 0
               /\ registry'[actions[n].case] = registry[actions[n].case]
    <3>1. Registered(actions[n].case) /\ actions[n].case \in Cases
      BY RecordTyped DEF CourseInv
    <3>2. NoRow.at = 0
      BY DEF NoRow
    <3> QED BY <2>3, <3>1, <3>2 DEF RowsGrow, Registered
  <2>6. AskedInOrder'
    BY <2>4, <2>5 DEF CourseInv, AskedInOrder, AgentOf
  <2>7. ProcOnCourse(p)'
    <3>1. a \in Agents /\ proc[p].todo \subseteq Listed(a)
      BY <1>0, <2>1, AgentsTyped DEF ProcOnCourse
    <3>2. proc[p].todo \subseteq {d \in Cases : registry'[d].agent = a}
      BY <2>3, <3>1, ListedRegistered DEF RowsGrow, Listed
    <3> QED BY <2>1, <2>2, <2>3, <3>2 DEF ProcOnCourse, Listed, Registered
  <2> QED BY <1>0, <2>1, <2>3, <2>4, <2>5, <2>6, <2>7, CourseMoves
<1>3. CASE InvokeInitial(p)
  <2> DEFINE c == proc[p].case
             a == proc[p].agent
             t == StartedFrom(ckpt[c])
  <2>1. /\ c \in Cases /\ ckpt[c] \in Threads /\ a \in AgentsFor[c]
        /\ Registered(c) /\ registry[c] # NoRow
    <3>1. proc[p].pc = "registered"
      BY <1>3 DEF InvokeInitial
    <3>2. c \in Cases /\ ckpt[c] \in Threads
      BY <1>0, <3>1 DEF TypeOK
    <3>3. a \in AgentsFor[c] /\ Registered(c)
      BY <1>0, <3>1 DEF ProcOnCourse
    <3> QED BY <3>2, <3>3 DEF Registered, NoRow
  <2>2. \A b \in AgentsFor[c] : Reached(actions, b, c, t)
    BY <2>1, AgentsTyped, StartedReached DEF CourseInv
  <2>3. /\ \A q \in Procs : q # p => proc'[q] = proc[q]
        /\ proc'[p] = [proc[p] EXCEPT !.pc = "run", !.mem = t]
        /\ ckpt' \in {ckpt, [ckpt EXCEPT ![c] = t]}
        /\ UNCHANGED <<registry, gateVars>>
    BY <1>0, <1>3 DEF InvokeInitial, Checkpoint, TypeOK
  <2> HIDE DEF t
  <2>4. /\ proc'[p].pc = "run" /\ proc'[p].agent = a /\ proc'[p].todo = proc[p].todo
        /\ proc'[p].case = c /\ proc'[p].mem = t
    BY <1>0, <2>3 DEF ProcStates
  <2>5. ASSUME NEW d \in Cases
        PROVE  \/ ckpt'[d] = ckpt[d]
               \/ /\ registry[d] # NoRow
                  /\ \A b \in AgentsFor[d] : Reached(actions, b, d, ckpt'[d])
    BY <2>1, <2>2, <2>3 DEF TypeOK
  <2> QED BY <1>0, <2>1, <2>2, <2>3, <2>4, <2>5, QuietCourse DEF ProcOnCourse
<1> QED BY <1>1, <1>2, <1>3 DEF StarterNext


LEMMA PollerCourse ==
  ASSUME TypeOK, CourseInv, NEW p \in Pollers, PollerNext(p)
  PROVE  CourseInv'
<1>0. p \in Procs /\ proc[p] \in ProcStates /\ ProcOnCourse(p)
  BY DEF Procs, TypeOK, CourseInv
<1>a. ASSUME proc' = [proc EXCEPT ![p] = Returned(p)],
             UNCHANGED <<registry, ckpt, gateVars>>
      PROVE  CourseInv'
  BY <1>0, <1>a, ReturnedCourse, IdlingCourse
<1>1. CASE BeginSweep(p)
  <2> DEFINE st == [IdleProc EXCEPT !.pc = "sweep", !.todo = Listed(FirstAgent)]
  <2>1. st.pc = "sweep" /\ st.todo = Listed(FirstAgent) /\ st.agent = FirstAgent
    BY DEF IdleProc
  <2>2. /\ proc' = [proc EXCEPT ![p] = st]
        /\ UNCHANGED <<registry, ckpt, gateVars>>
    BY <1>1 DEF BeginSweep
  <2> HIDE DEF st
  <2> QED BY <1>0, <2>1, <2>2, IdlingCourse
<1>2. CASE SweepNext(p)
  <2> DEFINE a == proc[p].agent
  <2>1. PICK c \in proc[p].todo :
          proc' = [proc EXCEPT ![p] =
            IF WorthPolling(ckpt[c])
            THEN [proc[p] EXCEPT !.pc = "poll", !.todo = proc[p].todo \ {c},
                                 !.case = c, !.seen = ckpt[c].action_id]
            ELSE [proc[p] EXCEPT !.todo = proc[p].todo \ {c}]]
    BY <1>2 DEF SweepNext
  <2>2. /\ \A q \in Procs : q # p => proc'[q] = proc[q]
        /\ proc[p].pc = "sweep" /\ UNCHANGED <<registry, ckpt, gateVars>>
    BY <1>0, <1>2, <2>1 DEF TypeOK, SweepNext
  <2>3. a \in Agents /\ proc[p].todo \subseteq Listed(a)
    BY <1>0 DEF ProcStates, ProcOnCourse
  <2>4. c \in Cases /\ Registered(c) /\ a \in AgentsFor[c]
    BY <2>3, ListedRegistered
  <2>5. CASE WorthPolling(ckpt[c])
    <3>1. proc'[p] = [proc[p] EXCEPT !.pc = "poll", !.todo = proc[p].todo \ {c},
                                     !.case = c, !.seen = ckpt[c].action_id]
      BY <1>0, <2>1, <2>5 DEF TypeOK
    <3>2. /\ proc'[p].pc = "poll" /\ proc'[p].case = c /\ proc'[p].agent = a
          /\ proc'[p].todo \subseteq Listed(a)
      BY <1>0, <2>3, <3>1 DEF ProcStates
    <3> QED BY <1>0, <2>2, <2>4, <3>2, QuietCourse
  <2>6. CASE ~WorthPolling(ckpt[c])
    <3>1. proc'[p] = [proc[p] EXCEPT !.todo = proc[p].todo \ {c}]
      BY <1>0, <2>1, <2>6 DEF TypeOK
    <3>2. /\ proc'[p].pc = "sweep" /\ proc'[p].agent = a
          /\ proc'[p].todo \subseteq Listed(a)
      BY <1>0, <2>2, <2>3, <3>1 DEF ProcStates
    <3> QED BY <1>0, <2>2, <3>2, QuietCourse
  <2> QED BY <2>5, <2>6
<1>3. CASE SweepAgentDone(p)
  <2> DEFINE st == [proc[p] EXCEPT !.agent = LastAgent, !.todo = Listed(LastAgent)]
  <2>1. st.pc = "sweep" /\ st.todo = Listed(LastAgent) /\ st.agent = LastAgent
    BY <1>0, <1>3 DEF SweepAgentDone, ProcStates
  <2>2. UNCHANGED <<registry, ckpt, gateVars>>
    BY <1>3 DEF SweepAgentDone
  <2>3. \/ proc' = [proc EXCEPT ![p] = st]
        \/ proc' = [proc EXCEPT ![p] = IdleProc]
    BY <1>3 DEF SweepAgentDone
  <2> HIDE DEF st
  <2> QED BY <1>0, <2>1, <2>2, <2>3, IdlingCourse, ResetCourse
<1>4. CASE PollAnswered(p)
  <2> DEFINE v == Resolved(StatusOf(proc[p].seen))
  <2>1. /\ proc[p].pc = "poll" /\ UNCHANGED <<registry, ckpt, gateVars>>
        /\ \/ proc' = [proc EXCEPT ![p] = Returned(p)]
           \/ proc' = [proc EXCEPT ![p] = [proc[p] EXCEPT !.pc = "resume",
                                                          !.verdict = v]]
    BY <1>4 DEF PollAnswered
  <2> HIDE DEF v
  <2>2. CASE proc' = [proc EXCEPT ![p] = [proc[p] EXCEPT !.pc = "resume",
                                                         !.verdict = v]]
    <3>1. /\ \A q \in Procs : q # p => proc'[q] = proc[q]
          /\ proc'[p] = [proc[p] EXCEPT !.pc = "resume", !.verdict = v]
      BY <1>0, <2>2 DEF TypeOK
    <3>2. /\ proc'[p].pc = "resume" /\ proc'[p].case = proc[p].case
          /\ proc'[p].agent = proc[p].agent /\ proc'[p].todo = proc[p].todo
      BY <1>0, <3>1 DEF ProcStates
    <3> QED BY <1>0, <2>1, <3>1, <3>2, QuietCourse DEF ProcOnCourse
  <2> QED BY <1>a, <2>1, <2>2
<1>5. CASE PollFails(p)
  BY <1>0, <1>5, ResetCourse DEF PollFails
<1>6. CASE InvokeResume(p)
  <2> DEFINE c == proc[p].case
  <2>1. /\ proc[p].pc = "resume" /\ UNCHANGED <<registry, ckpt, gateVars>>
        /\ \/ proc' = [proc EXCEPT ![p] = Returned(p)]
           \/ proc' = [proc EXCEPT ![p] = [proc[p] EXCEPT !.pc = "run",
                                                          !.mem = ckpt[c]]]
    BY <1>6 DEF InvokeResume
  <2>2. CASE proc' = [proc EXCEPT ![p] = [proc[p] EXCEPT !.pc = "run",
                                                         !.mem = ckpt[c]]]
    <3>1. /\ \A q \in Procs : q # p => proc'[q] = proc[q]
          /\ proc'[p] = [proc[p] EXCEPT !.pc = "run", !.mem = ckpt[c]]
      BY <1>0, <2>2 DEF TypeOK
    <3>2. /\ proc'[p].pc = "run" /\ proc'[p].case = c /\ proc'[p].mem = ckpt[c]
          /\ proc'[p].agent = proc[p].agent /\ proc'[p].todo = proc[p].todo
      BY <1>0, <3>1 DEF ProcStates
    <3>3. c \in Cases /\ proc[p].agent \in AgentsFor[c] /\ Registered(c)
      BY <1>0, <2>1 DEF TypeOK, ProcOnCourse
    <3>4. Reached(actions, proc[p].agent, c, ckpt[c])
      BY <3>3 DEF CourseInv
    <3> QED BY <1>0, <2>1, <3>1, <3>2, <3>3, <3>4, QuietCourse DEF ProcOnCourse
  <2> QED BY <1>a, <2>1, <2>2
<1> QED BY <1>1, <1>2, <1>3, <1>4, <1>5, <1>6 DEF PollerNext

LEMMA HumanDecidesCourse ==
  ASSUME TypeOK, CourseInv, NEW n \in 1 .. Len(actions), HumanDecides(n)
  PROVE  CourseInv'
<1>0. PICK d \in Outcomes : Decide(n, d)
  BY DEF HumanDecides
<1>1. UNCHANGED <<registry, ckpt, proc>>
  BY DEF HumanDecides
<1>2. Grows(actions, actions') /\ Len(actions') = Len(actions)
  BY <1>0, DecisionsGrow
<1>3. /\ Len(actions) \in Nat
      /\ \A m \in 1 .. Len(actions) : /\ actions'[m].case = actions[m].case
                                      /\ actions'[m].step = actions[m].step
  BY <1>2 DEF Grows
<1>4. AskedInOrder'
  BY <1>1, <1>2, <1>3 DEF CourseInv, AskedInOrder, AgentOf, AskedWithin
<1>5. \A a, c, t : Reached(actions, a, c, t) => Reached(actions', a, c, t)
  BY <1>2, ReachedGrows
<1>6. \A c \in Cases :
        /\ registry[c] = NoRow \/ (Registered(c) /\ AgentOf(c) \in AgentsFor[c])
        /\ registry[c] = NoRow => ckpt[c] = NewThread
        /\ \A a \in AgentsFor[c] : Reached(actions', a, c, ckpt[c])
  BY <1>5 DEF CourseInv
<1>7. ASSUME NEW q \in Procs PROVE ProcOnCourse(q)'
  <2>1. ProcOnCourse(q)
    BY DEF CourseInv
  <2> QED BY <1>1, <1>5, <2>1 DEF ProcOnCourse, Listed, Registered
<1>8. \A m \in 1 .. Len(actions') : registry[actions'[m].case].at # 0
  BY <1>2, <1>3 DEF CourseInv, Registered
<1> QED BY <1>1, <1>4, <1>6, <1>7, <1>8 DEF CourseInv, Registered, AgentOf

-----------------------------------------------------------------------------
(* The invariant, however often a case is started, swept or dropped. *)

LEMMA CourseInit ==
  ASSUME Init PROVE CourseInv
<1>1. actions = <<>>
  BY DEF Init, GateInit
<1>2. Len(actions) = 0
  BY <1>1
<1>3. AskedInOrder
  BY <1>2 DEF AskedInOrder
<1>4. \A c \in Cases : /\ registry[c] = NoRow /\ ckpt[c] = NewThread
                       /\ \A a \in AgentsFor[c] : Reached(actions, a, c, ckpt[c])
  BY AgentsTyped, NewThreadReached DEF Init
<1>5. ASSUME NEW p \in Procs PROVE ProcOnCourse(p)
  <2>1. proc[p] = IdleProc
    BY DEF Init
  <2>2. proc[p].pc = "idle" /\ proc[p].todo = {}
    BY <2>1 DEF IdleProc
  <2> QED BY <2>2 DEF ProcOnCourse
<1> QED BY <1>2, <1>3, <1>4, <1>5 DEF CourseInv

LEMMA CourseStep ==
  ASSUME OneAgentPerCase, TypeOK, CourseInv, [Next]_vars PROVE CourseInv'
<1>1. ASSUME NEW p \in Starters, StarterNext(p) PROVE CourseInv'
  BY <1>1, StarterCourse
<1>2. ASSUME NEW p \in Pollers, PollerNext(p) PROVE CourseInv'
  BY <1>2, PollerCourse
<1>3. ASSUME NEW p \in Procs, RunNode(p) PROVE CourseInv'
  BY <1>3, RunNodeCourse
<1>4. ASSUME NEW p \in Procs, Dies(p) PROVE CourseInv'
  BY <1>4, ResetCourse DEF Dies
<1>5. ASSUME NEW n \in 1 .. Len(actions), HumanDecides(n) PROVE CourseInv'
  BY <1>5, HumanDecidesCourse
<1>6. CASE UNCHANGED vars
  <2>1. UNCHANGED <<actions, registry, ckpt, proc>>
    BY <1>6 DEF vars, gateVars
  <2> QED BY <2>1 DEF CourseInv, ProcOnCourse, AskedInOrder, Listed, Registered,
                      AgentOf
<1> QED BY <1>1, <1>2, <1>3, <1>4, <1>5, <1>6 DEF Next

(* When each case_id is always started with the same --agent: wherever a   *)
(* thread is, in a checkpoint or in any of the processes that run it at    *)
(* once, the steps behind it were asked for.                               *)
THEOREM ThreadsOnCourse == ASSUME OneAgentPerCase PROVE Spec => []CourseInv
<1>1. Init => CourseInv
  BY CourseInit
<1>2. TypeOK /\ CourseInv /\ [Next]_vars => CourseInv'
  BY CourseStep
<1> QED BY <1>1, <1>2, TypeCorrect, PTL DEF Spec

(* No step is asked for before the steps ahead of it in its chain, and no  *)
(* case is reported as completed that did not ask for all of them.         *)
THEOREM StepsNeverSkipped == ASSUME OneAgentPerCase PROVE Spec => []NoStepSkipped
<1>1. CourseInv => NoStepSkipped
  <2> SUFFICES ASSUME CourseInv, NEW c \in Cases, ckpt[c].final_summary = "completed"
               PROVE  \A s \in StepSet(AgentOf(c)) :
                        AskedWithin(actions, c, s, Len(actions))
    BY DEF CourseInv, NoStepSkipped
  <2>1. registry[c] # NoRow
    BY DEF CourseInv, NewThread
  <2>2. Reached(actions, AgentOf(c), c, ckpt[c])
    BY <2>1 DEF CourseInv
  <2> QED BY <2>2 DEF Reached, ChainAsked, Asked
<1> QED BY <1>1, ThreadsOnCourse, PTL
=============================================================================
