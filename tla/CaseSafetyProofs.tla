-------------------------- MODULE CaseSafetyProofs --------------------------
(* The safety theorems of CaseRuntime by the invariant IInv of             *)
(* CaseInvariant, and its refinement of HumanGate, on top of what          *)
(* CaseRuntimeProofs shows about custody and unfinished threads.           *)
EXTENDS CaseRefinement, CaseRuntimeProofs

-----------------------------------------------------------------------------
(* What was approved or rejected stays so while the record grows. *)

LEMMA ApprovedGrows ==
  ASSUME NEW old, NEW new, Grows(old, new), NEW c, NEW s,
         NEW j \in Nat, NEW k \in Nat, j <= k, j <= Len(old),
         ApprovedWithin(old, c, s, j)
  PROVE  ApprovedWithin(new, c, s, k)
BY DEF Grows, ApprovedWithin

LEMMA RejectedGrows ==
  ASSUME NEW old, NEW new, Grows(old, new), NEW c, NEW s, RejectedIn(old, c, s)
  PROVE  RejectedIn(new, c, s)
BY DEF Grows, RejectedIn

LEMMA ChainsGrow ==
  ASSUME NEW old, NEW new, Grows(old, new), NEW a, NEW c
  PROVE  /\ \A s : EarlierApproved(old, a, c, s) => EarlierApproved(new, a, c, s)
         /\ ChainApproved(old, a, c) => ChainApproved(new, a, c)
<1>1. /\ Len(old) \in Nat /\ Len(new) \in Nat /\ Len(old) <= Len(new)
  BY DEF Grows
<1>2. \A s : ApprovedWithin(old, c, s, Len(old)) => ApprovedWithin(new, c, s, Len(new))
  BY <1>1, ApprovedGrows
<1> QED BY <1>2 DEF EarlierApproved, ChainApproved

LEMMA JustifiedGrows ==
  ASSUME NEW old, NEW new, Grows(old, new), NEW a, NEW c, NEW t,
         Justified(old, a, c, t)
  PROVE  Justified(new, a, c, t)
<1>1. ASSUME Awaits(old, a, c, t) PROVE Awaits(new, a, c, t)
  <2> DEFINE n == t.pending_action
  <2>1. n \in 1 .. Len(old) /\ n \in 1 .. Len(new)
    BY <1>1 DEF Awaits, Grows
  <2>2. new[n].case = old[n].case /\ new[n].step = old[n].step /\ new[n].id = old[n].id
    BY <2>1 DEF Grows
  <2>3. EarlierApproved(new, a, c, t.awaiting_step)
    BY <1>1, ChainsGrow DEF Awaits
  <2> QED BY <1>1, <2>1, <2>2, <2>3 DEF Awaits
<1>2. OutcomeBacked(old, a, c, t) => OutcomeBacked(new, a, c, t)
  BY ChainsGrow, RejectedGrows DEF OutcomeBacked
<1> QED BY <1>1, <1>2, ChainsGrow, RejectedGrows DEF Justified

-----------------------------------------------------------------------------
(* Each node leaves a justified thread justified. *)

LEMMA PassedJustified ==
  ASSUME NEW a \in Agents, NEW t \in Threads, NEW acts, NEW c,
         Justified(acts, a, c, t), t.next \in DOMAIN Continue[a]
  PROVE  Justified(acts, a, c, Passed(a, t))
<1> DEFINE u == Passed(a, t)
<1> SUFFICES Justified(acts, a, c, u)
  OBVIOUS
<1>1. /\ u.interrupted = t.interrupted /\ u.final_summary = t.final_summary
      /\ u.stop_reason = t.stop_reason /\ u.awaiting_step = t.awaiting_step
      /\ u.next = "record_outcome" => u.stop_reason # "none"
      /\ u.next = "record_outcome" \/ u.next = Continue[a][t.next]
  BY ProposersApart, TablesLeadToNodes DEF Passed, RouteAfterCheck, Threads
<1>2. t.next \notin {"wait_for_approval", "end"} /\ ~t.interrupted
  BY ProposersApart, TablesLeadToNodes DEF Justified
<1>3. t.final_summary = "none"
  BY <1>2 DEF Justified, Done
<1>4. u.next \notin {"wait_for_approval", "end"}
      /\ \A s \in StepSet(a) : u.next # ProposeNode[a][s]
  BY <1>1, ProposersApart, TablesLeadToNodes
<1> HIDE DEF u
<1> QED BY <1>1, <1>2, <1>3, <1>4 DEF Justified, OutcomeBacked, Done

LEMMA StoppedJustified ==
  ASSUME NEW a \in Agents, NEW t \in Threads, NEW acts, NEW c,
         Justified(acts, a, c, t), t.next \notin {"wait_for_approval", "end"}
  PROVE  Justified(acts, a, c, Stopped(t))
<1> DEFINE u == Stopped(t)
<1> SUFFICES Justified(acts, a, c, u)
  OBVIOUS
<1>0. "none" \notin Nodes
  BY DEF Nodes, ReadNodes
<1>1. /\ u.interrupted = t.interrupted /\ u.final_summary = t.final_summary
      /\ u.stop_reason # "none" /\ u.next = "record_outcome"
  BY <1>0 DEF Stopped, RouteAfterCheck, Threads
<1>2. ~t.interrupted /\ t.final_summary = "none"
  BY DEF Justified, Done
<1>3. \A s \in StepSet(a) : u.next # ProposeNode[a][s]
  BY <1>1, ProposersApart
<1> HIDE DEF u
<1> QED BY <1>1, <1>2, <1>3 DEF Justified, OutcomeBacked, Done

LEMMA PulledJustified ==
  ASSUME NEW a \in Agents, NEW t \in Threads, NEW acts, NEW c,
         Justified(acts, a, c, t), t.next = PullNode[a]
  PROVE  Justified(acts, a, c, Pulled(a, t))
<1> DEFINE u == Pulled(a, t)
<1> SUFFICES Justified(acts, a, c, u)
  OBVIOUS
<1>0. Steps[a][1] \in StepSet(a)
  BY TablesLeadToNodes
<1>1. /\ u.interrupted = t.interrupted /\ u.final_summary = t.final_summary
      /\ u.next = ProposeNode[a][Steps[a][1]]
  BY DEF Pulled, Threads
<1>2. ~t.interrupted /\ t.final_summary = "none"
  BY <1>0, ProposersApart DEF Justified, Done
<1>3. u.next \notin {"wait_for_approval", "record_outcome", "end"}
  BY <1>0, <1>1, ProposersApart
<1>4. \A s \in StepSet(a) : u.next = ProposeNode[a][s] => EarlierApproved(acts, a, c, s)
  BY <1>1, ChainOrder DEF EarlierApproved
<1> HIDE DEF u
<1> QED BY <1>1, <1>2, <1>3, <1>4 DEF Justified, Done

LEMMA ProposedJustified ==
  ASSUME NEW a \in Agents, NEW t \in Threads, NEW acts, NEW c, NEW id,
         NEW s \in StepSet(a), NEW n \in 1 .. Len(acts),
         Justified(acts, a, c, t), t.next = ProposeNode[a][s],
         acts[n].case = c, acts[n].step = s, acts[n].id = id
  PROVE  Justified(acts, a, c, Proposed(t, s, id, n))
<1> DEFINE u == Proposed(t, s, id, n)
<1> SUFFICES Justified(acts, a, c, u)
  OBVIOUS
<1>1. /\ u.interrupted = t.interrupted /\ u.final_summary = t.final_summary
      /\ u.stop_reason = t.stop_reason
      /\ u.awaiting_step = s /\ u.pending_action = n /\ u.action_id = id
      /\ \/ u.next = "wait_for_approval"
         \/ u.next = "record_outcome" /\ u.stop_reason # "none"
  BY DEF Proposed, RouteAfterCheck, Threads
<1>2. ~t.interrupted /\ t.final_summary = "none"
  BY ProposersApart DEF Justified, Done
<1>3. EarlierApproved(acts, a, c, s)
  BY DEF Justified
<1>4. \A r \in StepSet(a) : u.next # ProposeNode[a][r]
  BY <1>1, ProposersApart
<1> HIDE DEF u
<1>5. Awaits(acts, a, c, u)
  BY <1>1, <1>3 DEF Awaits
<1> QED BY <1>1, <1>2, <1>4, <1>5 DEF Justified, OutcomeBacked, Done

LEMMA PausedJustified ==
  ASSUME NEW a \in Agents, NEW t \in Threads, NEW acts, NEW c,
         Justified(acts, a, c, t), t.next = "wait_for_approval"
  PROVE  Justified(acts, a, c, Paused(t))
<1> DEFINE u == Paused(t)
<1> SUFFICES Justified(acts, a, c, u)
  OBVIOUS
<1>1. /\ u.next = t.next /\ u.final_summary = t.final_summary
      /\ u.awaiting_step = t.awaiting_step /\ u.action_id = t.action_id
      /\ u.pending_action = t.pending_action
  BY DEF Paused, Threads
<1>2. \A s \in StepSet(a) : u.next # ProposeNode[a][s]
  BY <1>1, ProposersApart
<1> HIDE DEF u
<1> QED BY <1>1, <1>2 DEF Justified, Awaits, Done

LEMMA ResumedJustified ==
  ASSUME NEW a \in Agents, NEW t \in Threads, NEW acts, NEW c,
         NEW d, Len(acts) \in Nat,
         Justified(acts, a, c, t), t.next = "wait_for_approval",
         acts[t.pending_action].decision \in Outcomes,
         Resolved(acts[t.pending_action].decision) = d
  PROVE  Justified(acts, a, c, Resumed(a, t, d))
<1> DEFINE u == Resumed(a, t, d)
           w == t.awaiting_step
<1> SUFFICES Justified(acts, a, c, u)
  OBVIOUS
<1>1. /\ u.interrupted = FALSE /\ u.final_summary = t.final_summary
      /\ u.last_action_result = d /\ u.awaiting_step = w
  BY DEF Resumed, Threads
<1>2. u.next = IF d = "approved" /\ w \in DOMAIN AfterApproval[a]
               THEN AfterApproval[a][w] ELSE "record_outcome"
  BY DEF Resumed, RouteAfterWait, Threads
<1>3. Awaits(acts, a, c, t) /\ t.final_summary = "none"
  BY DEF Justified, Done
<1>4. d = "approved" => ApprovedWithin(acts, c, w, Len(acts))
  BY <1>3 DEF Awaits, ApprovedWithin, Resolved
<1>5. d # "approved" => d = "rejected" /\ RejectedIn(acts, c, w)
  BY <1>3 DEF Awaits, RejectedIn, Resolved, Outcomes
<1>6. w \in StepSet(a) /\ EarlierApproved(acts, a, c, w)
  BY <1>3 DEF Awaits
<1> HIDE DEF u, w
<1>7. CASE d = "approved" /\ w \in DOMAIN AfterApproval[a]
  <2>1. u.next = AfterApproval[a][w]
    BY <1>2, <1>7
  <2>2. u.next \notin {"wait_for_approval", "record_outcome", "end"}
    BY <1>6, <1>7, <2>1, ProposersApart
  <2>3. \A s \in StepSet(a) : u.next = ProposeNode[a][s] => EarlierApproved(acts, a, c, s)
    BY <1>4, <1>6, <1>7, <2>1, ChainOrder DEF EarlierApproved
  <2> QED BY <1>1, <1>3, <2>2, <2>3 DEF Justified, Done
<1>8. CASE ~(d = "approved" /\ w \in DOMAIN AfterApproval[a])
  <2>1. u.next = "record_outcome"
    BY <1>2, <1>8
  <2>2. \A s \in StepSet(a) : u.next # ProposeNode[a][s]
    BY <2>1, ProposersApart
  <2>3. d = "approved" => ChainApproved(acts, a, c)
    BY <1>4, <1>6, <1>8, ChainOrder DEF EarlierApproved, ChainApproved
  <2>4. OutcomeBacked(acts, a, c, u)
    BY <1>1, <1>5, <2>3 DEF OutcomeBacked
  <2> QED BY <1>1, <1>3, <2>1, <2>2, <2>4 DEF Justified, Done
<1> QED BY <1>7, <1>8

LEMMA RecordedJustified ==
  ASSUME NEW a \in Agents, NEW t \in Threads, NEW acts, NEW c,
         Justified(acts, a, c, t), t.next = "record_outcome"
  PROVE  Justified(acts, a, c, Recorded(t))
<1> DEFINE u == Recorded(t)
<1> SUFFICES Justified(acts, a, c, u)
  OBVIOUS
<1>1. /\ u.interrupted = t.interrupted /\ u.next = "end"
      /\ u.final_summary = Outcome(t) /\ u.awaiting_step = t.awaiting_step
  BY DEF Recorded, Threads
<1>2. ~t.interrupted /\ OutcomeBacked(acts, a, c, t)
  BY DEF Justified
<1>3. /\ Outcome(t) = "completed" => ChainApproved(acts, a, c)
      /\ Outcome(t) = "rejected" => RejectedIn(acts, c, t.awaiting_step)
  BY <1>2 DEF OutcomeBacked, Outcome
<1>4. \A s \in StepSet(a) : u.next # ProposeNode[a][s]
  BY <1>1, ProposersApart
<1> HIDE DEF u
<1> QED BY <1>1, <1>2, <1>3, <1>4 DEF Justified, Done

LEMMA NewThreadJustified ==
  ASSUME NEW a \in Agents, NEW acts, NEW c
  PROVE  /\ Justified(acts, a, c, NewThread)
         /\ Justified(acts, a, c, StartedFrom(NewThread))
<1>1. \A s \in StepSet(a) : ProposeNode[a][s] \notin {"detect", "end"}
  BY ProposersApart
<1> QED BY <1>1 DEF Justified, NewThread, StartedFrom, Done

-----------------------------------------------------------------------------
(* What a step does not touch keeps its invariant. *)

LEMMA VerdictKept ==
  ASSUME NEW t, NEW v, Grows(actions, actions'), OwnVerdict(t, v)
  PROVE  /\ t.next = "wait_for_approval"
         /\ t.pending_action \in 1 .. Len(actions')
         /\ actions'[t.pending_action].decision # "undecided"
         /\ Resolved(actions'[t.pending_action].decision) = v
BY DEF OwnVerdict, Grows

LEMMA VerdictUntouched ==
  ASSUME NEW q \in Pollers, VerdictInv(q), proc'[q] = proc[q],
         proc[q].pc = "resume" => ckpt'[proc[q].case] = ckpt[proc[q].case],
         Grows(actions, actions')
  PROVE  VerdictInv(q)'
<1>1. proc[q].pc = "resume" =>
        proc[q].verdict # "none" /\ OwnVerdict(ckpt[proc[q].case], proc[q].verdict)'
  BY VerdictKept DEF VerdictInv, OwnVerdict
<1>2. proc[q].pc = "run" /\ proc[q].verdict # "none" =>
        OwnVerdict(proc[q].mem, proc[q].verdict)'
  BY VerdictKept DEF VerdictInv, OwnVerdict
<1> QED BY <1>1, <1>2 DEF VerdictInv

(* Nobody waits his turn on an approval that is taken back. *)
LEMMA EarnedKept ==
  ASSUME TypeOK, Grows(actions, actions'), Len(actions') = Len(actions),
         \A n \in 1 .. Len(actions) :
           registry'[actions[n].case] = registry[actions[n].case],
         EveryProposalEarned
  PROVE  EveryProposalEarned'
<1> SUFFICES ASSUME NEW n \in 1 .. Len(actions),
                    NEW s \in Earlier(AgentOf(actions[n].case), actions[n].step)
             PROVE  ApprovedWithin(actions', actions[n].case, s, n - 1)
  BY DEF EveryProposalEarned, Grows, AgentOf
<1>1. ApprovedWithin(actions, actions[n].case, s, n - 1)
  BY DEF EveryProposalEarned
<1>2. Len(actions) \in Nat /\ n - 1 \in Nat /\ n - 1 <= Len(actions)
  BY DEF TypeOK
<1> QED BY <1>1, <1>2, ApprovedGrows

LEMMA GrowsRefl == ASSUME TypeOK PROVE Grows(actions, actions)
BY DEF Grows, TypeOK

LEMMA InitInv == ASSUME Init PROVE IInv
<1>1. Len(actions) = 0 /\ DOMAIN status = {}
  BY DEF Init, GateInit
<1>2. \A p \in Procs : proc[p] = IdleProc
  BY DEF Init
<1>3. \A p \in Pollers : VerdictInv(p)
  BY <1>2 DEF Procs, VerdictInv, IdleProc
<1>4. StatusInv /\ EveryProposalEarned
  BY <1>1 DEF StatusInv, EveryProposalEarned
<1>5. ThreadInv
  BY <1>2 DEF ThreadInv, Init, IdleProc, Registered, NoRow
<1> QED BY <1>3, <1>4, <1>5, CustodyInit DEF IInv

-----------------------------------------------------------------------------
(* One node: whatever it leaves, if justified, keeps the invariant. *)

LEMMA LeaveInv ==
  ASSUME TypeOK, IInv, NEW p \in Procs, proc[p].pc = "run", NEW t, Leave(p, t),
         UNCHANGED <<registry, starts>>, Grows(actions, actions'),
         StatusInv', EveryProposalEarned',
         Justified(actions', proc[p].agent, proc[p].case, t)
  PROVE  IInv'
<1> DEFINE c == proc[p].case
<1>0. Custody /\ Custody'
  BY LeaveCustody DEF IInv
<1>1. /\ c \in Cases /\ Registered(c) /\ AgentOf(c) = proc[p].agent
      /\ \A q \in Procs : q # p /\ Held(q) => proc[q].case # c
  BY <1>0, RunnerHolds
<1>2. /\ \A q \in Procs : q # p => proc'[q] = proc[q]
      /\ \A d \in Cases : d # c => ckpt'[d] = ckpt[d]
      /\ ckpt'[c] = ckpt[c] \/ ckpt'[c] = t
      /\ proc'[p].verdict = "none" /\ proc'[p].pc # "resume"
      /\ proc'[p].pc = "run" =>
           /\ proc'[p].mem = t /\ proc'[p].case = c
           /\ proc'[p].agent = proc[p].agent
  BY LeaveCases
<1>3. ASSUME NEW q \in Pollers PROVE VerdictInv(q)'
  <2>1. VerdictInv(q) /\ q \in Procs
    BY DEF IInv, Procs
  <2>2. CASE q # p
    <3>1. proc[q].pc = "resume" => ckpt'[proc[q].case] = ckpt[proc[q].case]
      BY <1>1, <1>2, <2>1, <2>2 DEF Held, TypeOK
    <3> QED BY <1>2, <2>1, <2>2, <3>1, VerdictUntouched
  <2>3. CASE q = p
    BY <1>2, <2>3 DEF VerdictInv
  <2> QED BY <2>2, <2>3
<1>4. ThreadInv'
  <2>1. ASSUME NEW d \in Cases, Registered(d)'
        PROVE  Justified(actions, AgentOf(d), d, ckpt[d])'
    <3>1. Registered(d) /\ AgentOf(d)' = AgentOf(d)
      BY <2>1 DEF Registered, AgentOf
    <3>2. Justified(actions', AgentOf(d), d, ckpt[d])
      BY <3>1, JustifiedGrows DEF IInv, ThreadInv
    <3> QED BY <1>1, <1>2, <3>1, <3>2
  <2>2. ASSUME NEW q \in Procs, proc'[q].pc = "run"
        PROVE  Justified(actions', proc'[q].agent, proc'[q].case, proc'[q].mem)
    <3>1. CASE q # p
      BY <1>2, <2>2, <3>1, JustifiedGrows DEF IInv, ThreadInv
    <3>2. CASE q = p
      BY <1>2, <2>2, <3>2
    <3> QED BY <3>1, <3>2
  <2> QED BY <2>1, <2>2 DEF ThreadInv
<1> QED BY <1>0, <1>3, <1>4 DEF IInv

-----------------------------------------------------------------------------
(* One step of one process that the gate does not see. *)

LEMMA QuietInv ==
  ASSUME TypeOK, IInv, Custody', UNCHANGED gateVars, NEW p \in Procs,
         \A q \in Procs : q # p => proc'[q] = proc[q],
         \A q \in Procs : q # p /\ Held(q) =>
           ckpt'[proc[q].case] = ckpt[proc[q].case],
         \A d \in Cases : Registered(d) => registry'[d] = registry[d],
         p \in Pollers => VerdictInv(p)',
         \A d \in Cases : Registered(d)' =>
           Justified(actions, AgentOf(d)', d, ckpt'[d]),
         proc'[p].pc = "run" =>
           Justified(actions, proc'[p].agent, proc'[p].case, proc'[p].mem)
  PROVE  IInv'
<1>1. Grows(actions, actions') /\ actions' = actions /\ status' = status
  BY GrowsRefl DEF gateVars
<1>2. ASSUME NEW q \in Pollers PROVE VerdictInv(q)'
  <2>1. VerdictInv(q) /\ q \in Procs
    BY DEF IInv, Procs
  <2>2. CASE q # p
    BY <1>1, <2>1, <2>2, VerdictUntouched DEF Held
  <2> QED BY <2>2
<1>3. StatusInv'
  <2>1. ASSUME NEW n \in 1 .. Len(actions)
        PROVE  registry'[actions[n].case].at # 0 /\ actions[n].id = <<"uuid", n>>
    BY RecordTyped DEF IInv, StatusInv, Registered
  <2> QED BY <1>1, <2>1 DEF IInv, StatusInv, Registered
<1>4. ThreadInv'
  <2>1. ASSUME NEW q \in Procs, proc'[q].pc = "run"
        PROVE  Justified(actions, proc'[q].agent, proc'[q].case, proc'[q].mem)
    <3>1. CASE q # p
      BY <2>1, <3>1 DEF IInv, ThreadInv
    <3> QED BY <2>1, <3>1
  <2> QED BY <1>1, <2>1 DEF ThreadInv
<1>5. EveryProposalEarned'
  <2>1. \A n \in 1 .. Len(actions) :
          registry'[actions[n].case] = registry[actions[n].case]
    BY RecordTyped DEF IInv, StatusInv
  <2> QED BY <1>1, <2>1, EarnedKept DEF IInv
<1> QED BY <1>2, <1>3, <1>4, <1>5 DEF IInv

(* ... and when it leaves the stores alone too. *)
LEMMA ProcOnlyInv ==
  ASSUME TypeOK, IInv, Custody', NEW p \in Procs,
         UNCHANGED <<registry, ckpt, gateVars>>,
         \A q \in Procs : q # p => proc'[q] = proc[q],
         p \in Pollers => VerdictInv(p)',
         proc'[p].pc = "run" =>
           Justified(actions, proc'[p].agent, proc'[p].case, proc'[p].mem)
  PROVE  IInv'
<1>1. \A d \in Cases : Registered(d)' =>
        Justified(actions, AgentOf(d)', d, ckpt'[d])
  BY DEF IInv, ThreadInv, Registered, AgentOf
<1> QED BY <1>1, QuietInv

(* A process that dies, sweeps, begins to poll or ends: nothing to resume  *)
(* with and nothing to run.                                                *)
LEMMA IdlingInv ==
  ASSUME TypeOK, IInv, Custody', NEW p \in Procs,
         UNCHANGED <<registry, ckpt, gateVars>>,
         \E st : proc' = [proc EXCEPT ![p] = st] /\ st.pc \notin {"resume", "run"}
  PROVE  IInv'
<1>1. proc'[p].pc \notin {"resume", "run"} /\ \A q \in Procs : q # p => proc'[q] = proc[q]
  BY DEF TypeOK
<1>2. VerdictInv(p)'
  BY <1>1 DEF VerdictInv
<1> QED BY <1>1, <1>2, ProcOnlyInv

-----------------------------------------------------------------------------
(* The steps of a poller. *)

(* The result found under the id of a paused case is the decision of the   *)
(* action it waits for, since no two actions share an id.                  *)
LEMMA StatusIsOwn ==
  ASSUME TypeOK, IInv, NEW c \in Cases, Registered(c), ckpt[c].interrupted,
         StatusOf(ckpt[c].action_id) # "none"
  PROVE  /\ OwnVerdict(ckpt[c], Resolved(StatusOf(ckpt[c].action_id)))
         /\ actions[ckpt[c].pending_action].decision =
              StatusOf(ckpt[c].action_id)
<1> DEFINE t == ckpt[c]
           n == t.pending_action
           i == t.action_id
<1>1. t.next = "wait_for_approval" /\ Awaits(actions, AgentOf(c), c, t)
  BY DEF IInv, ThreadInv, Justified
<1>2. n \in 1 .. Len(actions) /\ i = <<"uuid", n>>
  BY <1>1 DEF Awaits, IInv, StatusInv
<1>3. i \in DOMAIN status /\ StatusOf(i) = status[i]
  BY DEF StatusOf
<1>4. PICK m \in 1 .. Len(actions) : i = <<"uuid", m>> /\ status[i] = actions[m].decision
  BY <1>3 DEF IInv, StatusInv
<1>5. m = n
  BY <1>2, <1>4
<1>6. status[i] # "undecided"
  BY <1>3 DEF TypeOK, Outcomes
<1> QED BY <1>1, <1>2, <1>3, <1>4, <1>5, <1>6 DEF OwnVerdict

LEMMA PollAnsweredInv ==
  ASSUME OneAtATime, TypeOK, IInv, Custody', NEW p \in Pollers, PollAnswered(p)
  PROVE  IInv'
<1> DEFINE c == proc[p].case
           verdict == Resolved(StatusOf(proc[p].seen))
<1>1. /\ p \in Procs /\ UNCHANGED <<registry, ckpt, starts, gateVars>>
      /\ \A q \in Procs : q # p => proc'[q] = proc[q]
  BY PollAnsweredMoves DEF Procs
<1>2. proc'[p].pc # "run"
  BY PollAnsweredMoves
<1>3. ASSUME proc'[p].pc = "resume"
      PROVE  proc'[p].verdict # "none" /\ OwnVerdict(ckpt[proc[p].case], proc[p].verdict)'
  <2>1. /\ StatusOf(proc[p].seen) # "none" /\ proc'[p].case = c
        /\ proc'[p].verdict = verdict
    BY <1>3, PollAnsweredMoves
  <2>2. /\ c \in Cases /\ Registered(c) /\ ckpt[c].interrupted
        /\ proc[p].seen = ckpt[c].action_id
    BY PollAnsweredMoves, PollerHolds DEF IInv
  <2>3. OwnVerdict(ckpt[c], verdict)
    BY <2>1, <2>2, StatusIsOwn
  <2>4. verdict # "none"
    BY DEF Resolved
  <2> HIDE DEF verdict, c
  <2>5. OwnVerdict(ckpt[proc[p].case], proc[p].verdict)'
    BY <1>1, <2>1, <2>3 DEF OwnVerdict, gateVars
  <2> QED BY <2>1, <2>4, <2>5
<1>4. VerdictInv(p)'
  BY <1>2, <1>3 DEF VerdictInv
<1> QED BY <1>1, <1>2, <1>4, ProcOnlyInv

LEMMA InvokeResumeInv ==
  ASSUME OneAtATime, TypeOK, IInv, Custody', NEW p \in Pollers, InvokeResume(p)
  PROVE  IInv'
<1> DEFINE c == proc[p].case
<1>1. /\ p \in Procs /\ proc[p].pc = "resume"
      /\ UNCHANGED <<registry, ckpt, starts, gateVars>>
      /\ \A q \in Procs : q # p => proc'[q] = proc[q]
  BY InvokeResumeMoves DEF Procs
<1>2. /\ c \in Cases /\ Registered(c) /\ AgentOf(c) = proc[p].agent
      /\ OwnVerdict(ckpt[c], proc[p].verdict)
  BY <1>1, PollerHolds DEF IInv, VerdictInv
<1>3. proc'[p].pc \notin {"resume", "run"} \/
        /\ proc'[p].pc = "run" /\ proc'[p].case = c /\ proc'[p].mem = ckpt[c]
        /\ proc'[p].agent = proc[p].agent /\ proc'[p].verdict = proc[p].verdict
  BY InvokeResumeMoves
<1>4. proc'[p].pc = "run" =>
        Justified(actions, proc'[p].agent, proc'[p].case, proc'[p].mem)
  BY <1>2, <1>3 DEF IInv, ThreadInv
<1> HIDE DEF c
<1>5. proc'[p].pc = "run" => OwnVerdict(proc[p].mem, proc[p].verdict)'
  BY <1>1, <1>2, <1>3 DEF OwnVerdict, gateVars
<1>6. VerdictInv(p)'
  BY <1>3, <1>5 DEF VerdictInv
<1> QED BY <1>1, <1>4, <1>6, ProcOnlyInv

LEMMA PollerInvStep ==
  ASSUME OneAtATime, TypeOK, IInv, Custody', NEW p \in Pollers, PollerNext(p)
  PROVE  IInv'
<1>0. p \in Procs
  BY DEF Procs
<1>1. CASE BeginSweep(p)
  <2>1. [IdleProc EXCEPT !.pc = "sweep", !.todo = Listed(FirstAgent)].pc = "sweep"
    BY DEF IdleProc
  <2> QED BY <1>0, <1>1, <2>1, IdlingInv DEF BeginSweep
<1>2. CASE SweepNext(p)
  <2>1. proc[p] \in ProcStates /\ proc[p].pc = "sweep"
    BY <1>0, <1>2 DEF TypeOK, SweepNext
  <2>2. PICK c \in proc[p].todo :
          proc' = [proc EXCEPT ![p] =
            IF WorthPolling(ckpt[c])
            THEN [proc[p] EXCEPT !.pc = "poll", !.todo = proc[p].todo \ {c},
                                 !.case = c, !.seen = ckpt[c].action_id]
            ELSE [proc[p] EXCEPT !.todo = proc[p].todo \ {c}]]
    BY <1>2 DEF SweepNext
  <2>3. /\ [proc[p] EXCEPT !.pc = "poll", !.todo = proc[p].todo \ {c},
                           !.case = c, !.seen = ckpt[c].action_id].pc = "poll"
        /\ [proc[p] EXCEPT !.todo = proc[p].todo \ {c}].pc = "sweep"
    BY <2>1 DEF ProcStates
  <2> QED BY <1>0, <1>2, <2>2, <2>3, IdlingInv DEF SweepNext
<1>3. CASE SweepAgentDone(p)
  <2>1. proc[p] \in ProcStates /\ proc[p].pc = "sweep"
    BY <1>0, <1>3 DEF TypeOK, SweepAgentDone
  <2>2. /\ [proc[p] EXCEPT !.agent = LastAgent, !.todo = Listed(LastAgent)].pc = "sweep"
        /\ IdleProc.pc = "idle"
    BY <2>1 DEF ProcStates, IdleProc
  <2>3. proc[p].agent = FirstAgent \/ proc[p].agent # FirstAgent
    OBVIOUS
  <2> QED BY <1>0, <1>3, <2>2, <2>3, IdlingInv DEF SweepAgentDone
<1>4. CASE PollFails(p)
  <2>1. IdleProc.pc = "idle"
    BY DEF IdleProc
  <2> QED BY <1>0, <1>4, <2>1, IdlingInv DEF PollFails
<1> QED BY <1>1, <1>2, <1>3, <1>4, PollAnsweredInv, InvokeResumeInv DEF PollerNext

-----------------------------------------------------------------------------
(* The steps of a starter. *)

LEMMA BeginStartInv ==
  ASSUME OneAtATime, TypeOK, IInv, Custody', NEW p \in Starters, NEW c \in Cases,
         NEW a \in RunAgents, BeginStart(p, c, a)
  PROVE  IInv'
<1>1. p \in Procs /\ p \notin Pollers
  BY ProcessAssumption DEF Procs
<1>2. /\ UNCHANGED <<registry, ckpt, gateVars>> /\ proc'[p].pc = "checked"
      /\ \A q \in Procs : q # p => proc'[q] = proc[q]
  BY BeginStartMoves DEF IInv
<1> QED BY <1>1, <1>2, ProcOnlyInv

LEMMA RegisterInv ==
  ASSUME TypeOK, IInv, Custody', NEW p \in Starters, Register(p)
  PROVE  IInv'
<1> DEFINE c == proc[p].case
<1>0. Custody
  BY DEF IInv
<1>1. /\ UNCHANGED <<ckpt, starts, gateVars>> /\ proc'[p].pc = "registered"
      /\ \A q \in Procs : q # p => proc'[q] = proc[q]
      /\ registry'[c].agent = proc[p].agent /\ ~Registered(c)
      /\ \A d \in Cases : d # c => registry'[d] = registry[d]
      /\ proc[p].pc = "checked"
  BY <1>0, RegisterMoves
<1>2. /\ p \in Procs /\ p \notin Pollers /\ c \in Cases
      /\ proc[p].agent \in Agents /\ ckpt[c] = NewThread
  BY <1>0, <1>1, StarterHolds
<1>3. \A d \in Cases : Registered(d)' =>
         Justified(actions, AgentOf(d)', d, ckpt'[d])
  <2> SUFFICES ASSUME NEW d \in Cases, Registered(d)'
               PROVE  Justified(actions, AgentOf(d)', d, ckpt'[d])
    OBVIOUS
  <2>1. CASE d = c
    BY <1>1, <1>2, <2>1, NewThreadJustified DEF AgentOf
  <2>2. CASE d # c
    BY <1>1, <2>2 DEF IInv, ThreadInv, Registered, AgentOf
  <2> QED BY <2>1, <2>2
<1> QED BY <1>1, <1>2, <1>3, QuietInv

LEMMA InvokeInitialInv ==
  ASSUME TypeOK, IInv, Custody', NEW p \in Starters, InvokeInitial(p)
  PROVE  IInv'
<1> DEFINE c == proc[p].case
           a == proc[p].agent
           t == StartedFrom(NewThread)
<1>0. Custody
  BY DEF IInv
<1>1. /\ proc[p].pc = "registered" /\ UNCHANGED <<registry, starts, gateVars>>
      /\ \A q \in Procs : q # p => proc'[q] = proc[q]
      /\ \A d \in Cases : d # c => ckpt'[d] = ckpt[d]
      /\ ckpt'[c] = NewThread \/ ckpt'[c] = t
      /\ Registered(c) /\ AgentOf(c) = a
      /\ proc'[p].agent = a /\ proc'[p].case = c /\ proc'[p].mem = t
  BY <1>0, InvokeInitialMoves
<1>2. /\ p \in Procs /\ p \notin Pollers /\ c \in Cases /\ a \in Agents
      /\ \A q \in Procs : q # p /\ Held(q) =>
           proc[q].case # c /\ proc[q].case \in Cases
  BY <1>0, <1>1, StarterHolds
<1>3. Justified(actions, a, c, t) /\ Justified(actions, a, c, NewThread)
  BY <1>2, NewThreadJustified
<1> HIDE DEF t
<1>4. \A d \in Cases : Registered(d)' =>
         Justified(actions, AgentOf(d)', d, ckpt'[d])
  BY <1>1, <1>3 DEF IInv, ThreadInv, Registered, AgentOf
<1> QED BY <1>1, <1>2, <1>3, <1>4, QuietInv

-----------------------------------------------------------------------------
(* The human. *)

LEMMA HumanDecidesInv ==
  ASSUME TypeOK, IInv, Custody', NEW n \in 1 .. Len(actions), HumanDecides(n)
  PROVE  IInv'
<1>0. PICK d \in Outcomes : Decide(n, d)
  BY DEF HumanDecides
<1>1. UNCHANGED <<registry, ckpt, starts, proc>>
  BY DEF HumanDecides
<1>2. /\ Grows(actions, actions') /\ Len(actions') = Len(actions)
      /\ actions'[n].decision = d
      /\ \A m \in 1 .. Len(actions) : m # n => actions'[m] = actions[m]
  BY <1>0, DecisionsGrow
<1>3. \A q \in Pollers : VerdictInv(q)'
  BY <1>1, <1>2, VerdictUntouched DEF IInv
<1>4. StatusInv'
  <2>1. ASSUME NEW m \in 1 .. Len(actions)
        PROVE  actions'[m].id = <<"uuid", m>> /\ registry'[actions'[m].case].at # 0
    BY <1>1, <1>2 DEF IInv, StatusInv, Registered, Grows
  <2>2. ASSUME NEW i \in DOMAIN status'
        PROVE  \E m \in 1 .. Len(actions') :
                 i = <<"uuid", m>> /\ status'[i] = actions'[m].decision
    <3>1. actions[n].id = <<"uuid", n>>
      BY DEF IInv, StatusInv
    <3>2. CASE i = actions[n].id
      BY <1>0, <1>2, <3>1, <3>2 DEF Decide
    <3>3. CASE i # actions[n].id
      <4>1. i \in DOMAIN status /\ status'[i] = status[i]
        BY <1>0, <2>2, <3>3 DEF Decide
      <4>2. PICK m \in 1 .. Len(actions) :
              i = <<"uuid", m>> /\ status[i] = actions[m].decision
        BY <4>1 DEF IInv, StatusInv
      <4>3. m # n
        BY <3>1, <3>3, <4>2
      <4> QED BY <1>2, <4>1, <4>2, <4>3
    <3> QED BY <3>2, <3>3
  <2> QED BY <1>2, <2>1, <2>2 DEF StatusInv, Registered
<1>5. ThreadInv'
  BY <1>1, <1>2, JustifiedGrows DEF IInv, ThreadInv, Registered, AgentOf
<1>6. EveryProposalEarned'
  BY <1>1, <1>2, EarnedKept DEF IInv
<1> QED BY <1>3, <1>4, <1>5, <1>6 DEF IInv

-----------------------------------------------------------------------------
(* The nodes. *)

(* What the process running a node has in its hands. *)
LEMMA RunnerFacts ==
  ASSUME TypeOK, IInv, NEW p \in Procs, proc[p].pc = "run"
  PROVE  /\ proc[p].agent \in Agents /\ proc[p].case \in Cases
         /\ proc[p].mem \in Threads
         /\ Justified(actions, proc[p].agent, proc[p].case, proc[p].mem)
         /\ Registered(proc[p].case) /\ AgentOf(proc[p].case) = proc[p].agent
         /\ proc[p].agent \in RunAgents
BY RunnerHolds DEF IInv, ThreadInv

(* A node that makes no write call. *)
LEMMA QuietLeaveInv ==
  ASSUME TypeOK, IInv, NEW p \in Procs, proc[p].pc = "run",
         NEW t, Leave(p, t), UNCHANGED <<registry, starts, gateVars>>,
         Justified(actions, proc[p].agent, proc[p].case, t)
  PROVE  IInv'
<1>1. /\ Grows(actions, actions') /\ actions' = actions /\ status' = status
      /\ UNCHANGED <<registry, starts>>
  BY GrowsRefl DEF gateVars
<1>2. StatusInv'
  BY <1>1 DEF IInv, StatusInv, Registered
<1>3. EveryProposalEarned'
  BY <1>1 DEF IInv, EveryProposalEarned, AgentOf
<1> QED BY <1>1, <1>2, <1>3, LeaveInv

LEMMA RunCheckInv ==
  ASSUME TypeOK, IInv, NEW p \in Procs, RunCheck(p)
  PROVE  IInv'
<1> DEFINE a == proc[p].agent
           t == proc[p].mem
<1>1. /\ proc[p].pc = "run" /\ t.next \in DOMAIN Continue[a]
      /\ Leave(p, Passed(a, t)) \/ Leave(p, Stopped(t))
      /\ UNCHANGED <<registry, starts, gateVars>>
  BY DEF RunCheck, Running
<1>2. t.next \notin {"wait_for_approval", "end"}
  BY <1>1, RunnerFacts, ProposersApart, TablesLeadToNodes
<1>3. Passed(a, t) \in Threads /\ Stopped(t) \in Threads
  BY <1>1, RunnerFacts, ThreadTypes
<1>4. /\ Justified(actions, a, proc[p].case, Passed(a, t))
      /\ Justified(actions, a, proc[p].case, Stopped(t))
  BY <1>1, <1>2, RunnerFacts, PassedJustified, StoppedJustified
<1> QED BY <1>1, <1>3, <1>4, QuietLeaveInv

LEMMA RunPullInv ==
  ASSUME TypeOK, IInv, NEW p \in Procs, RunPull(p)
  PROVE  IInv'
<1> DEFINE a == proc[p].agent
           t == proc[p].mem
<1>1. /\ proc[p].pc = "run" /\ t.next = PullNode[a] /\ Leave(p, Pulled(a, t))
      /\ UNCHANGED <<registry, starts, gateVars>>
  BY DEF RunPull, Running
<1>2. Pulled(a, t) \in Threads /\ Justified(actions, a, proc[p].case, Pulled(a, t))
  BY <1>1, RunnerFacts, ThreadTypes, PulledJustified
<1> QED BY <1>1, <1>2, QuietLeaveInv

LEMMA RunWaitInv ==
  ASSUME TypeOK, IInv, NEW p \in Procs, RunWait(p)
  PROVE  IInv'
<1> DEFINE a == proc[p].agent
           t == proc[p].mem
           v == proc[p].verdict
<1>1. /\ proc[p].pc = "run" /\ t.next = "wait_for_approval"
      /\ UNCHANGED <<registry, starts, gateVars>>
  BY DEF RunWait, Running
<1>2. CASE v = "none"
  <2>1. Leave(p, Paused(t))
    BY <1>2 DEF RunWait
  <2>2. Paused(t) \in Threads /\ Justified(actions, a, proc[p].case, Paused(t))
    BY <1>1, RunnerFacts, ThreadTypes, PausedJustified
  <2> QED BY <1>1, <2>1, <2>2, QuietLeaveInv
<1>3. CASE v # "none"
  <2>1. Leave(p, Resumed(a, t, v))
    BY <1>3 DEF RunWait
  <2>2. v \in Decisions
    BY <1>3 DEF TypeOK, ProcStates
  <2>3. /\ actions[t.pending_action].decision \in Outcomes
        /\ Resolved(actions[t.pending_action].decision) = v
    <3>1. OwnVerdict(t, v)
      BY <1>1, <1>3 DEF Procs, IInv, Custody, StarterInv, VerdictInv
    <3> QED BY <3>1, RecordTyped DEF OwnVerdict, Actions
  <2>4. Len(actions) \in Nat
    BY RecordTyped
  <2>5. /\ Resumed(a, t, v) \in Threads
        /\ Justified(actions, a, proc[p].case, Resumed(a, t, v))
    BY <1>1, <2>2, <2>3, <2>4, RunnerFacts, ThreadTypes, ResumedJustified
  <2> QED BY <1>1, <2>1, <2>5, QuietLeaveInv
<1> QED BY <1>2, <1>3

LEMMA RunRecordOutcomeInv ==
  ASSUME TypeOK, IInv, NEW p \in Procs, RunRecordOutcome(p)
  PROVE  IInv'
<1> DEFINE t == proc[p].mem
<1>1. /\ proc[p].pc = "run" /\ t.next = "record_outcome" /\ Leave(p, Recorded(t))
      /\ UNCHANGED <<registry, starts, gateVars>>
  BY DEF RunRecordOutcome, Running
<1>2. /\ Recorded(t) \in Threads
      /\ Justified(actions, proc[p].agent, proc[p].case, Recorded(t))
  BY <1>1, RunnerFacts, ThreadTypes, RecordedJustified
<1> QED BY <1>1, <1>2, QuietLeaveInv

(* A write recorded by a process whose thread is justified has earned its  *)
(* turn, and its id is nobody else's.                                      *)
LEMMA RecordedEarned ==
  ASSUME TypeOK, IInv, UNCHANGED registry, NEW c \in Cases, NEW s \in AllSteps,
         Registered(c), EarlierApproved(actions, AgentOf(c), c, s),
         NEW id \in ActionIds, id = <<"uuid", Len(actions) + 1>>,
         RecordAction(c, s, id)
  PROVE  StatusInv' /\ EveryProposalEarned'
<1> DEFINE N == Len(actions) + 1
<1>1. /\ Grows(actions, actions') /\ Len(actions') = N
      /\ actions'[N].case = c /\ actions'[N].step = s /\ actions'[N].id = id
      /\ status' = status
  BY RecordsGrow
<1>2. Len(actions) \in Nat /\ \A m \in 1 .. N : m = N \/ m \in 1 .. Len(actions)
  BY RecordTyped
<1>3. StatusInv'
  <2>1. ASSUME NEW m \in 1 .. N
        PROVE  actions'[m].id = <<"uuid", m>> /\ registry'[actions'[m].case].at # 0
    <3>1. CASE m = N
      BY <1>1, <3>1 DEF Registered
    <3>2. CASE m \in 1 .. Len(actions)
      BY <1>1, <3>2 DEF IInv, StatusInv, Registered, Grows
    <3> QED BY <1>2, <3>1, <3>2
  <2>2. ASSUME NEW i \in DOMAIN status
        PROVE  \E m \in 1 .. N : i = <<"uuid", m>> /\ status[i] = actions'[m].decision
    <3>1. PICK m \in 1 .. Len(actions) :
            i = <<"uuid", m>> /\ status[i] = actions[m].decision
      BY DEF IInv, StatusInv
    <3>2. status[i] \in Outcomes /\ "undecided" \notin Outcomes
      BY DEF TypeOK, Outcomes
    <3>3. actions[m].decision # "undecided" /\ m \in 1 .. N
      BY <1>2, <3>1, <3>2
    <3> QED BY <1>1, <3>1, <3>3 DEF Grows
  <2> QED BY <1>1, <2>1, <2>2 DEF StatusInv, Registered
<1>4. ASSUME NEW n \in 1 .. N,
             NEW e \in Earlier(registry[actions'[n].case].agent, actions'[n].step)
      PROVE  ApprovedWithin(actions', actions'[n].case, e, n - 1)
  <2>1. CASE n = N
    <3>1. ApprovedWithin(actions, c, e, Len(actions))
      BY <1>1, <1>4, <2>1 DEF EarlierApproved, AgentOf
    <3> QED BY <1>1, <1>2, <2>1, <3>1, ApprovedGrows
  <2>2. CASE n \in 1 .. Len(actions)
    <3>1. actions'[n].case = actions[n].case /\ actions'[n].step = actions[n].step
      BY <1>1, <2>2 DEF Grows
    <3>2. ApprovedWithin(actions, actions[n].case, e, n - 1)
      BY <1>4, <2>2, <3>1 DEF IInv, EveryProposalEarned, AgentOf
    <3>3. n - 1 \in Nat /\ n - 1 <= Len(actions)
      BY <1>2, <2>2
    <3> QED BY <1>1, <3>1, <3>2, <3>3, ApprovedGrows
  <2> QED BY <1>2, <2>1, <2>2
<1>5. EveryProposalEarned'
  BY <1>1, <1>4 DEF EveryProposalEarned, AgentOf
<1> QED BY <1>3, <1>5

LEMMA RunProposeInv ==
  ASSUME Discipline, TypeOK, IInv, NEW p \in Procs, RunPropose(p)
  PROVE  IInv'
<1> DEFINE a == proc[p].agent
           c == proc[p].case
           t == proc[p].mem
           id == <<"uuid", Len(actions) + 1>>
<1>1. PICK s \in StepSet(a) :
        /\ Running(p, ProposeNode[a][s])
        /\ \/ /\ Len(actions) < MaxActions
              /\ RecordAction(c, s, NewId(c, PassesProcessId[a]))
              /\ \/ Leave(p, Proposed(t, s, NewId(c, PassesProcessId[a]),
                                      Len(actions) + 1))
                 \/ Leave(p, Stopped(t))
           \/ Leave(p, Stopped(t)) /\ UNCHANGED gateVars
        /\ UNCHANGED <<registry, starts>>
  BY DEF RunPropose
<1>2. proc[p].pc = "run" /\ t.next = ProposeNode[a][s]
  BY <1>1 DEF Running
<1>3. /\ a \in Agents /\ a \in RunAgents /\ c \in Cases /\ t \in Threads
      /\ Justified(actions, a, c, t) /\ Registered(c) /\ AgentOf(c) = a
  BY <1>2, RunnerFacts
<1>4. NewId(c, PassesProcessId[a]) = id
  BY <1>3 DEF Discipline, NewId
<1>5. Stopped(t) \in Threads /\ Justified(actions, a, c, Stopped(t))
  BY <1>2, <1>3, ThreadTypes, ProposersApart, StoppedJustified
<1>6. CASE Leave(p, Stopped(t)) /\ UNCHANGED gateVars
  BY <1>1, <1>2, <1>5, <1>6, QuietLeaveInv
<1>7. CASE Len(actions) < MaxActions /\ RecordAction(c, s, id)
  <2>1. s \in AllSteps /\ Len(actions) \in Nat
    BY <1>3, TablesLeadToNodes, RecordTyped
  <2>2. id \in ActionIds
    BY <1>7, <2>1, BoundAssumption DEF ActionIds
  <2>3. EarlierApproved(actions, AgentOf(c), c, s)
    BY <1>2, <1>3 DEF Justified
  <2>4. /\ Grows(actions, actions') /\ Len(actions') = Len(actions) + 1
        /\ actions'[Len(actions) + 1].case = c
        /\ actions'[Len(actions) + 1].step = s
        /\ actions'[Len(actions) + 1].id = id
    BY <1>3, <1>7, <2>1, <2>2, RecordsGrow
  <2>5. StatusInv' /\ EveryProposalEarned'
    BY <1>1, <1>3, <1>7, <2>1, <2>2, <2>3, RecordedEarned
  <2>6. Justified(actions', a, c, t) /\ Justified(actions', a, c, Stopped(t))
    BY <1>3, <1>5, <2>4, JustifiedGrows
  <2>7. Justified(actions', a, c, Proposed(t, s, id, Len(actions) + 1))
    BY <1>2, <1>3, <2>1, <2>4, <2>6, ProposedJustified
  <2>8. Proposed(t, s, id, Len(actions) + 1) \in Threads
    <3> HIDE DEF id
    <3>1. Len(actions) + 1 \in Nat
      BY <2>1
    <3> QED BY <1>3, <2>2, <3>1, ThreadTypes
  <2>9. CASE Leave(p, Stopped(t))
    BY <1>1, <1>2, <1>5, <2>4, <2>5, <2>6, <2>9, LeaveInv
  <2>10. CASE Leave(p, Proposed(t, s, id, Len(actions) + 1))
    BY <1>1, <1>2, <2>4, <2>5, <2>7, <2>8, <2>10, LeaveInv
  <2>11. \/ Leave(p, Proposed(t, s, id, Len(actions) + 1))
         \/ Leave(p, Stopped(t))
    BY <1>1, <1>4
  <2> QED BY <2>9, <2>10, <2>11
<1> QED BY <1>1, <1>4, <1>6, <1>7

LEMMA StutterInv == ASSUME IInv, UNCHANGED vars PROVE IInv'
<1>1. /\ registry' = registry /\ ckpt' = ckpt /\ starts' = starts
      /\ proc' = proc /\ actions' = actions /\ status' = status
  BY DEF vars
<1>2. Custody'
  BY <1>1, CustodyStutter DEF IInv
<1>3. \A p \in Pollers : VerdictInv(p)'
  BY <1>1 DEF IInv, VerdictInv, OwnVerdict
<1>4. StatusInv' /\ ThreadInv' /\ EveryProposalEarned'
  BY <1>1 DEF IInv, StatusInv, ThreadInv, EveryProposalEarned, Registered, AgentOf
<1> QED BY <1>2, <1>3, <1>4 DEF IInv

-----------------------------------------------------------------------------
(* The theorems. *)

LEMMA InvStep == ASSUME Discipline PROVE TypeOK /\ IInv /\ [Next]_vars => IInv'
<1> SUFFICES ASSUME TypeOK, IInv, [Next]_vars PROVE IInv'
  OBVIOUS
<1>0. OneAtATime /\ Custody'
  BY CustodyStep DEF Discipline, IInv
<1>1. ASSUME NEW p \in Starters, StarterNext(p) PROVE IInv'
  <2>1. \A c \in Cases : AgentsFor[c] \subseteq RunAgents
    BY DEF RunAgents
  <2> QED BY <1>0, <1>1, <2>1, BeginStartInv, RegisterInv, InvokeInitialInv
      DEF StarterNext
<1>2. ASSUME NEW p \in Pollers, PollerNext(p) PROVE IInv'
  BY <1>0, <1>2, PollerInvStep
<1>3. ASSUME NEW p \in Procs, RunNode(p) PROVE IInv'
  BY <1>3, RunCheckInv, RunPullInv, RunProposeInv, RunWaitInv,
     RunRecordOutcomeInv DEF RunNode
<1>4. ASSUME NEW p \in Procs, Dies(p) PROVE IInv'
  <2>1. IdleProc.pc = "idle"
    BY DEF IdleProc
  <2> QED BY <1>0, <1>4, <2>1, IdlingInv DEF Dies
<1>5. ASSUME NEW n \in 1 .. Len(actions), HumanDecides(n) PROVE IInv'
  BY <1>0, <1>5, HumanDecidesInv
<1>6. CASE UNCHANGED vars
  BY <1>6, StutterInv
<1> QED BY <1>1, <1>2, <1>3, <1>4, <1>5, <1>6 DEF Next

(* Under the operators' discipline the invariant holds for any number of   *)
(* cases and starters, any bound on actions, with and without crashes.     *)
THEOREM Invariance == ASSUME Discipline PROVE Spec => [](TypeOK /\ IInv)
<1>1. Init => TypeOK /\ IInv
  BY TypeInit, InitInv
<1>2. TypeOK /\ IInv /\ [Next]_vars => TypeOK' /\ IInv'
  BY TypeStep, InvStep
<1> QED BY <1>1, <1>2, PTL DEF Spec

(* No write is put to a human before every earlier step of its chain was   *)
(* approved.                                                               *)
THEOREM ProposalsEarned == ASSUME Discipline PROVE Spec => []EveryProposalEarned
<1>1. IInv => EveryProposalEarned
  BY DEF IInv
<1> QED BY <1>1, Invariance, PTL

(* A case whose agent the registry does not know has never run. *)
LEMMA SummariesJustified ==
  ASSUME IInv, NEW c \in Cases, Done(ckpt[c])
  PROVE  Justified(actions, AgentOf(c), c, ckpt[c])
<1>1. ckpt[c] # NewThread
  BY DEF Done, NewThread
<1> QED BY <1>1 DEF IInv, Custody, RegistryInv, ThreadInv

(* A case is reported completed only after every step was approved.        *)
THEOREM CompletionsEarned == ASSUME Discipline PROVE Spec => []CompletionEarned
<1>1. IInv => CompletionEarned
  BY SummariesJustified DEF CompletionEarned, Justified, ChainApproved, Done
<1> QED BY <1>1, Invariance, PTL

(* What resumes a paused case is the decision of the action it waits for.  *)
THEOREM VerdictsMatch == ASSUME Discipline PROVE Spec => []ResumedWithOwnVerdict
<1>1. IInv => ResumedWithOwnVerdict
  BY DEF IInv, ResumedWithOwnVerdict, Running, Procs, Custody, StarterInv,
         VerdictInv, OwnVerdict, Resolved
<1> QED BY <1>1, Invariance, PTL

(* The id of a case that waits for a human has no result before he decides. *)
THEOREM PendingUnanswered == ASSUME Discipline PROVE Spec => []PendingHasNoStatus
<1>1. ASSUME TypeOK, IInv PROVE PendingHasNoStatus
  <2> SUFFICES ASSUME NEW c \in Cases, ckpt[c].interrupted,
                      actions[ckpt[c].pending_action].decision = "undecided",
                      StatusOf(ckpt[c].action_id) # "none"
               PROVE  FALSE
    BY <1>1 DEF PendingHasNoStatus
  <2>1. Registered(c)
    BY <1>1 DEF IInv, Custody, RegistryInv, NewThread
  <2>2. actions[ckpt[c].pending_action].decision = StatusOf(ckpt[c].action_id)
    BY <1>1, <2>1, StatusIsOwn
  <2>3. StatusOf(ckpt[c].action_id) \in Outcomes \cup {"none"}
    BY <1>1, GateTypes
  <2> QED BY <2>2, <2>3 DEF Outcomes
<1> QED BY <1>1, Invariance, PTL

-----------------------------------------------------------------------------
(* A rejection is about the last write.  The case that a process runs is   *)
(* the only one whose writes its step records, and what it has read from   *)
(* the checkpoint was settled when it read it.                             *)

(* Decisions, and writes of other cases, leave a thread settled. *)
LEMMA SettledKept ==
  ASSUME NEW old, NEW new, Grows(old, new), NEW c, NEW t, Settled(old, c, t),
         \A n \in Len(old) + 1 .. Len(new) : new[n].case # c
  PROVE  Settled(new, c, t)
<1>1. /\ Len(old) \in Nat /\ Len(new) \in Nat /\ Len(old) <= Len(new)
      /\ \A n \in 1 .. Len(old) :
           /\ n \in 1 .. Len(new)
           /\ new[n].case = old[n].case /\ new[n].step = old[n].step
           /\ old[n].decision # "undecided" => new[n].decision = old[n].decision
  BY DEF Grows
<1>2. \A n \in 1 .. Len(old) : LatestOf(old, c, n) => LatestOf(new, c, n)
  BY <1>1 DEF LatestOf
<1>3. ASSUME RejectedLast(old, c, t.awaiting_step)
      PROVE  RejectedLast(new, c, t.awaiting_step)
  <2>1. PICK n \in 1 .. Len(old) :
          /\ old[n].case = c /\ old[n].step = t.awaiting_step
          /\ old[n].decision \in {"rejected", "failed"} /\ LatestOf(old, c, n)
    BY <1>3 DEF RejectedLast
  <2> QED BY <1>1, <1>2, <2>1 DEF RejectedLast
<1> QED BY <1>1, <1>2, <1>3 DEF Settled

(* So do writes of its own case, if it was overtaken by then. *)
LEMMA OvertakenKept ==
  ASSUME NEW old, NEW new, Grows(old, new), NEW c, NEW t, Settled(old, c, t),
         Overtaken(old, t)
  PROVE  /\ Overtaken(new, t)
         /\ ~Done(t) => Settled(new, c, t)
<1>1. t.next = "wait_for_approval" =>
        /\ t.pending_action \in 1 .. Len(new)
        /\ new[t.pending_action].decision = "approved"
  BY DEF Grows, Settled, Overtaken
<1> QED BY <1>1 DEF Overtaken, Settled, Done

(* A node that leaves an open thread, which neither waits nor is about to  *)
(* report a rejection. *)
LEMMA OpenSettled ==
  ASSUME NEW acts, NEW c, NEW u, ~Done(u), u.next # "wait_for_approval",
         u.next = "record_outcome" => u.stop_reason # "none"
  PROVE  Settled(acts, c, u)
BY DEF Settled, Done, Outcome

(* A step of the process that runs case c. *)
LEMMA LeaveLastWrite ==
  ASSUME TypeOK, Custody, LastWriteInv, NEW p \in Procs, proc[p].pc = "run",
         NEW u, Leave(p, u), Grows(actions, actions'),
         \A n \in Len(actions) + 1 .. Len(actions') :
           actions'[n].case = proc[p].case,
         Settled(actions', proc[p].case, u),
         Settled(actions', proc[p].case, ckpt[proc[p].case]),
         u.next \notin {"wait_for_approval", "record_outcome", "end"} =>
           Overtaken(actions', ckpt[proc[p].case])
  PROVE  LastWriteInv'
<1> DEFINE c == proc[p].case
<1>1. c \in Cases /\ \A q \in Procs : q # p /\ Held(q) => proc[q].case # c
  BY RunnerHolds
<1>2. /\ \A q \in Procs : q # p => proc'[q] = proc[q]
      /\ \A d \in Cases : d # c => ckpt'[d] = ckpt[d]
      /\ ckpt'[c] = ckpt[c] \/ ckpt'[c] = u
      /\ proc'[p].pc = "run" =>
           /\ u.next # "end" /\ proc'[p].case = c
           /\ proc'[p].mem = u /\ proc'[p].verdict = "none"
  BY LeaveCases
<1>3. \A d \in Cases : d # c => Settled(actions', d, ckpt[d])
  BY SettledKept DEF LastWriteInv
<1>4. ASSUME NEW d \in Cases PROVE Settled(actions', d, ckpt'[d])
  BY <1>2, <1>3
<1>5. ASSUME NEW q \in Procs, q # p, proc'[q].pc = "run"
      PROVE  LastWriteRunning(q)'
  <2> DEFINE d == proc[q].case
  <2>1. proc'[q] = proc[q] /\ proc[q].pc = "run" /\ d \in Cases /\ d # c
    BY <1>1, <1>2, <1>5 DEF Held, TypeOK
  <2>2. ckpt'[d] = ckpt[d] /\ LastWriteRunning(q) /\ Settled(actions, d, ckpt[d])
    BY <1>2, <2>1 DEF LastWriteInv
  <2>3. Settled(actions', d, proc[q].mem)
    BY <2>1, <2>2, SettledKept DEF LastWriteRunning
  <2>4. Overtaken(actions, ckpt[d]) => Overtaken(actions', ckpt[d])
    BY <2>2, OvertakenKept
  <2> QED BY <2>1, <2>2, <2>3, <2>4 DEF LastWriteRunning
<1>6. ASSUME proc'[p].pc = "run" PROVE LastWriteRunning(p)'
  <2>1. /\ u.next # "end" /\ proc'[p].case = c
        /\ proc'[p].mem = u /\ proc'[p].verdict = "none"
    BY <1>2, <1>6
  <2>2. u.next \notin {"wait_for_approval", "record_outcome"} =>
          Overtaken(actions', ckpt'[c])
    BY <1>2, <2>1 DEF Overtaken
  <2> QED BY <2>1, <2>2 DEF LastWriteRunning
<1> QED BY <1>4, <1>5, <1>6 DEF LastWriteInv

(* A node that makes no write call. *)
LEMMA QuietLastWrite ==
  ASSUME TypeOK, Custody, LastWriteInv, NEW p \in Procs, proc[p].pc = "run",
         NEW u, Leave(p, u), UNCHANGED gateVars,
         Settled(actions, proc[p].case, u),
         u.next \notin {"wait_for_approval", "record_outcome", "end"} =>
           Overtaken(actions, ckpt[proc[p].case])
  PROVE  LastWriteInv'
<1>1. actions' = actions /\ Grows(actions, actions')
  BY GrowsRefl DEF gateVars
<1>2. \A n \in Len(actions) + 1 .. Len(actions') : FALSE
  BY <1>1, RecordTyped
<1>3. Settled(actions, proc[p].case, ckpt[proc[p].case])
  BY RunnerHolds DEF LastWriteInv
<1> QED BY <1>1, <1>2, <1>3, LeaveLastWrite

(* What a running process holds, beside RunnerFacts. *)
LEMMA RunnerSettled ==
  ASSUME Unfinished, LastWriteInv, NEW p \in Procs, proc[p].pc = "run"
  PROVE  /\ ~Done(proc[p].mem) /\ ~Done(ckpt[proc[p].case])
         /\ LastWriteRunning(p)
BY DEF Unfinished, OpenThread, LastWriteInv

LEMMA ReadLastWrite ==
  ASSUME TypeOK, IInv, Unfinished, LastWriteInv, NEW p \in Procs,
         RunCheck(p) \/ RunPull(p)
  PROVE  LastWriteInv'
<1> DEFINE a == proc[p].agent
           t == proc[p].mem
<1>1. /\ proc[p].pc = "run" /\ UNCHANGED gateVars
      /\ t.next \in DOMAIN Continue[a] \/ t.next = PullNode[a]
      /\ \/ t.next \in DOMAIN Continue[a] /\ Leave(p, Passed(a, t))
         \/ t.next \in DOMAIN Continue[a] /\ Leave(p, Stopped(t))
         \/ Leave(p, Pulled(a, t))
  BY DEF RunCheck, RunPull, Running, gateVars
<1>2. a \in Agents /\ t \in Threads /\ Custody
  BY <1>1, RunnerFacts DEF IInv
<1>3. t.next \notin {"wait_for_approval", "record_outcome"}
  BY <1>1, <1>2, ProposersApart, TablesLeadToNodes
<1>4. ~Done(t) /\ Overtaken(actions, ckpt[proc[p].case])
  BY <1>1, <1>3, RunnerSettled DEF LastWriteRunning
<1>5. CASE t.next \in DOMAIN Continue[a] /\ Leave(p, Passed(a, t))
  <2>1. /\ Passed(a, t).final_summary = t.final_summary
        /\ Passed(a, t).stop_reason = t.stop_reason
        /\ Passed(a, t).next = IF t.stop_reason # "none" THEN "record_outcome"
                                                      ELSE Continue[a][t.next]
    BY <1>2 DEF Passed, RouteAfterCheck, Threads
  <2>2. Continue[a][t.next] \notin {"wait_for_approval", "record_outcome"}
    BY <1>2, <1>5, ProposersApart, TablesLeadToNodes
  <2>3. Settled(actions, proc[p].case, Passed(a, t))
    BY <1>4, <2>1, <2>2, OpenSettled DEF Done
  <2> QED BY <1>1, <1>2, <1>4, <1>5, <2>3, QuietLastWrite
<1>6. CASE t.next \in DOMAIN Continue[a] /\ Leave(p, Stopped(t))
  <2>1. /\ Stopped(t).final_summary = t.final_summary
        /\ Stopped(t).next = "record_outcome" /\ Stopped(t).stop_reason = t.next
    BY <1>2 DEF Stopped, RouteAfterCheck, Threads
  <2>2. t.next # "none"
    BY <1>2, <1>6, TablesLeadToNodes DEF ReadNodes
  <2>3. Settled(actions, proc[p].case, Stopped(t))
    BY <1>4, <2>1, <2>2, OpenSettled DEF Done
  <2> QED BY <1>1, <1>2, <1>4, <1>6, <2>3, QuietLastWrite
<1>7. CASE Leave(p, Pulled(a, t))
  <2>1. /\ Pulled(a, t).final_summary = t.final_summary
        /\ Pulled(a, t).next = ProposeNode[a][Steps[a][1]]
    BY <1>2 DEF Pulled, Threads
  <2>2. ProposeNode[a][Steps[a][1]] \notin {"wait_for_approval", "record_outcome"}
    BY <1>2, ProposersApart, TablesLeadToNodes
  <2>3. Settled(actions, proc[p].case, Pulled(a, t))
    BY <1>4, <2>1, <2>2, OpenSettled DEF Done
  <2> QED BY <1>1, <1>2, <1>4, <1>7, <2>3, QuietLastWrite
<1> QED BY <1>1, <1>5, <1>6, <1>7

LEMMA WaitLastWrite ==
  ASSUME TypeOK, IInv, Unfinished, LastWriteInv, NEW p \in Procs, RunWait(p)
  PROVE  LastWriteInv'
<1> DEFINE a == proc[p].agent
           c == proc[p].case
           t == proc[p].mem
           v == proc[p].verdict
           n == t.pending_action
<1>1. /\ proc[p].pc = "run" /\ t.next = "wait_for_approval" /\ UNCHANGED gateVars
      /\ IF v = "none" THEN Leave(p, Paused(t)) ELSE Leave(p, Resumed(a, t, v))
  BY DEF RunWait, Running, gateVars
<1>2. /\ a \in Agents /\ c \in Cases /\ t \in Threads /\ Custody
      /\ Justified(actions, a, c, t)
  BY <1>1, RunnerFacts DEF IInv
<1>3. ~Done(t) /\ Settled(actions, c, t) /\ (v # "none" => t = ckpt[c])
  BY <1>1, RunnerSettled DEF LastWriteRunning
<1>4. CASE v = "none"
  <2>1. /\ Paused(t).next = t.next /\ Paused(t).pending_action = n
        /\ Paused(t).final_summary = t.final_summary
    BY <1>2 DEF Paused, Threads
  <2>2. Settled(actions, c, Paused(t))
    BY <1>1, <1>3, <2>1 DEF Settled, Done
  <2> QED BY <1>1, <1>2, <1>4, <2>1, <2>2, QuietLastWrite
<1>5. CASE v # "none"
  <2> DEFINE u == Resumed(a, t, v)
             r == [t EXCEPT !.last_action_result = v, !.pending_action = 0,
                            !.interrupted = FALSE]
  <2>1. /\ n \in 1 .. Len(actions) /\ actions[n].case = c
        /\ actions[n].step = t.awaiting_step
    BY <1>1, <1>2 DEF Justified, Awaits
  <2>2. /\ actions[n].decision \in Outcomes
        /\ Resolved(actions[n].decision) = v
    <3>1. OwnVerdict(t, v)
      BY <1>1, <1>5 DEF Procs, IInv, Custody, StarterInv, VerdictInv
    <3> QED BY <3>1, RecordTyped DEF OwnVerdict, Actions
  <2>3. \/ v = "approved" /\ actions[n].decision = "approved"
        \/ v = "rejected" /\ actions[n].decision \in {"rejected", "failed"}
    BY <2>2 DEF Resolved, Outcomes
  <2>4. /\ u.next = RouteAfterWait(a, r) /\ r.last_action_result = v
        /\ u.last_action_result = v /\ u.stop_reason = t.stop_reason
        /\ u.awaiting_step = t.awaiting_step
        /\ u.final_summary = t.final_summary
        /\ r.awaiting_step = t.awaiting_step
    BY <1>2 DEF Resumed, Threads
  <2> HIDE DEF u, r
  <2>5. CASE v = "approved"
    <3>1. u.next # "wait_for_approval"
      BY <1>2, <2>4, ProposersApart, TablesLeadToNodes DEF RouteAfterWait
    <3>2. Outcome(u) # "rejected"
      BY <2>4, <2>5 DEF Outcome
    <3>3. Settled(actions, c, u)
      BY <1>3, <2>4, <3>1, <3>2 DEF Settled, Done
    <3>4. Overtaken(actions, ckpt[c])
      BY <1>1, <1>3, <1>5, <2>3, <2>5 DEF Overtaken
    <3> QED BY <1>1, <1>2, <1>5, <3>3, <3>4, QuietLastWrite DEF u
  <2>6. CASE v = "rejected"
    <3>1. u.next = "record_outcome"
      BY <2>4, <2>6 DEF RouteAfterWait
    <3>2. RejectedLast(actions, c, t.awaiting_step)
      BY <1>1, <1>3, <2>1, <2>3, <2>6 DEF Settled, RejectedLast
    <3>3. Settled(actions, c, u)
      BY <2>4, <3>1, <3>2 DEF Settled
    <3> QED BY <1>1, <1>2, <1>5, <3>1, <3>3, QuietLastWrite DEF u
  <2> QED BY <2>3, <2>5, <2>6
<1> QED BY <1>4, <1>5

LEMMA RecordLastWrite ==
  ASSUME TypeOK, IInv, Unfinished, LastWriteInv, NEW p \in Procs,
         RunRecordOutcome(p)
  PROVE  LastWriteInv'
<1> DEFINE t == proc[p].mem
<1>1. /\ proc[p].pc = "run" /\ t.next = "record_outcome" /\ UNCHANGED gateVars
      /\ Leave(p, Recorded(t))
  BY DEF RunRecordOutcome, Running, gateVars
<1>2. t \in Threads /\ Custody /\ Settled(actions, proc[p].case, t)
  BY <1>1, RunnerFacts, RunnerSettled DEF IInv, LastWriteRunning
<1>3. /\ Recorded(t).next = "end" /\ Recorded(t).final_summary = Outcome(t)
      /\ Recorded(t).awaiting_step = t.awaiting_step
  BY <1>2 DEF Recorded, Threads
<1>4. Settled(actions, proc[p].case, Recorded(t))
  BY <1>1, <1>2, <1>3 DEF Settled
<1> QED BY <1>1, <1>2, <1>3, <1>4, QuietLastWrite

LEMMA ProposeLastWrite ==
  ASSUME TypeOK, IInv, Unfinished, LastWriteInv, NEW p \in Procs, RunPropose(p)
  PROVE  LastWriteInv'
<1> DEFINE a == proc[p].agent
           c == proc[p].case
           t == proc[p].mem
           id == NewId(c, PassesProcessId[a])
           N == Len(actions) + 1
<1>1. PICK s \in StepSet(a) :
        /\ Running(p, ProposeNode[a][s])
        /\ \/ /\ Len(actions) < MaxActions /\ RecordAction(c, s, id)
              /\ Leave(p, Proposed(t, s, id, N)) \/ Leave(p, Stopped(t))
           \/ Leave(p, Stopped(t)) /\ UNCHANGED gateVars
  BY DEF RunPropose
<1>2. proc[p].pc = "run" /\ t.next = ProposeNode[a][s]
  BY <1>1 DEF Running
<1>3. /\ a \in Agents /\ c \in Cases /\ t \in Threads /\ Custody
      /\ s \in AllSteps /\ t.next \in Nodes
  BY <1>2, RunnerFacts, TablesLeadToNodes DEF IInv
<1>4. t.next \notin {"wait_for_approval", "record_outcome", "none"}
  BY <1>2, <1>3, ProposersApart DEF Nodes, ReadNodes
<1>5. /\ ~Done(t) /\ ~Done(ckpt[c])
      /\ Overtaken(actions, ckpt[c]) /\ Settled(actions, c, ckpt[c])
  BY <1>2, <1>3, <1>4, RunnerSettled DEF LastWriteRunning, LastWriteInv
<1>6. Stopped(t).next = "record_outcome" /\ \A acts : Settled(acts, c, Stopped(t))
  <2>1. /\ Stopped(t).final_summary = t.final_summary
        /\ Stopped(t).next = "record_outcome" /\ Stopped(t).stop_reason = t.next
    BY <1>3 DEF Stopped, RouteAfterCheck, Threads
  <2> QED BY <1>4, <1>5, <2>1, OpenSettled DEF Done
<1>7. CASE Leave(p, Stopped(t)) /\ UNCHANGED gateVars
  BY <1>2, <1>3, <1>6, <1>7, QuietLastWrite
<1>8. CASE Len(actions) < MaxActions /\ RecordAction(c, s, id)
  <2>1. id \in ActionIds /\ Len(actions) \in Nat
    BY <1>3, <1>8, GateTypes, RecordTyped
  <2>2. /\ Grows(actions, actions') /\ Len(actions') = N
        /\ actions'[N].case = c
    BY <1>3, <1>8, <2>1, RecordsGrow
  <2>3. \A n \in Len(actions) + 1 .. Len(actions') : actions'[n].case = c
    BY <2>1, <2>2
  <2>4. Overtaken(actions', ckpt[c]) /\ Settled(actions', c, ckpt[c])
    BY <1>5, <2>2, OvertakenKept
  <2>5. CASE Leave(p, Stopped(t))
    BY <1>2, <1>3, <1>6, <2>2, <2>3, <2>4, <2>5, LeaveLastWrite
  <2>6. CASE Leave(p, Proposed(t, s, id, N))
    <3> DEFINE w == Proposed(t, s, id, N)
    <3>1. /\ w.final_summary = t.final_summary /\ w.pending_action = N
          /\ w.stop_reason = t.stop_reason
          /\ w.next = IF t.stop_reason # "none" THEN "record_outcome"
                                               ELSE "wait_for_approval"
      BY <1>3 DEF Proposed, RouteAfterCheck, Threads
    <3> HIDE DEF w
    <3>2. N \in 1 .. Len(actions') /\ LatestOf(actions', c, N)
      BY <2>1, <2>2 DEF LatestOf
    <3>3. Settled(actions', c, w)
      BY <1>5, <3>1, <3>2 DEF Settled, Done, Outcome
    <3> QED BY <1>2, <1>3, <2>2, <2>3, <2>4, <2>6, <3>1, <3>3, LeaveLastWrite DEF w
  <2> QED BY <1>1, <1>7, <2>5, <2>6
<1> QED BY <1>1, <1>7, <1>8

(* A step that moves only process p, and runs no node. *)
LEMMA ProcOnlyLastWrite ==
  ASSUME LastWriteInv, NEW p \in Procs, UNCHANGED <<ckpt, gateVars>>,
         \A q \in Procs : q # p => proc'[q] = proc[q],
         proc'[p].pc = "run" => LastWriteRunning(p)'
  PROVE  LastWriteInv'
<1>1. ckpt' = ckpt /\ actions' = actions
  BY DEF gateVars
<1>2. ASSUME NEW q \in Procs, q # p, proc'[q].pc = "run"
      PROVE  LastWriteRunning(q)'
  BY <1>1, <1>2 DEF LastWriteInv, LastWriteRunning
<1> QED BY <1>1, <1>2 DEF LastWriteInv

LEMMA StarterLastWrite ==
  ASSUME OneAtATime, TypeOK, IInv, LastWriteInv, NEW p \in Starters,
         StarterNext(p)
  PROVE  LastWriteInv'
<1>0. p \in Procs /\ Custody
  BY DEF Procs, IInv
<1>1. ASSUME NEW c \in Cases, NEW a \in AgentsFor[c], BeginStart(p, c, a)
      PROVE  LastWriteInv'
  <2>1. a \in RunAgents
    BY DEF RunAgents
  <2> QED BY <1>0, <1>1, <2>1, BeginStartMoves, ProcOnlyLastWrite
<1>2. CASE Register(p)
  BY <1>0, <1>2, RegisterMoves, ProcOnlyLastWrite
<1>3. CASE InvokeInitial(p)
  <2> DEFINE c == proc[p].case
             t == StartedFrom(NewThread)
  <2>1. \A acts : /\ Settled(acts, c, NewThread) /\ Settled(acts, c, t)
                  /\ Overtaken(acts, NewThread) /\ Overtaken(acts, t)
    BY OpenSettled DEF NewThread, StartedFrom, Done, Overtaken
  <2> HIDE DEF t
  <2>2. /\ \A q \in Procs : q # p => proc'[q] = proc[q]
        /\ \A d \in Cases : d # c => ckpt'[d] = ckpt[d]
        /\ ckpt'[c] = NewThread \/ ckpt'[c] = t
        /\ proc'[p].case = c /\ proc'[p].mem = t /\ proc'[p].verdict = "none"
        /\ proc[p].pc = "registered" /\ actions' = actions /\ c \in Cases
    BY <1>0, <1>3, InvokeInitialMoves, StarterHolds DEF t, gateVars
  <2>3. \A q \in Procs : q # p /\ proc[q].pc = "run" =>
          proc[q].case # c /\ proc[q].case \in Cases
    BY <1>0, <2>2, StarterHolds DEF Held
  <2>4. \A d \in Cases : Settled(actions', d, ckpt'[d])
    BY <2>1, <2>2 DEF LastWriteInv
  <2>5. ASSUME NEW q \in Procs, q # p, proc'[q].pc = "run"
        PROVE  LastWriteRunning(q)'
    <3>1. /\ proc'[q] = proc[q] /\ ckpt'[proc[q].case] = ckpt[proc[q].case]
          /\ LastWriteRunning(q)
      BY <2>2, <2>3, <2>5 DEF LastWriteInv
    <3> QED BY <2>2, <3>1 DEF LastWriteRunning
  <2>6. LastWriteRunning(p)'
    BY <2>1, <2>2 DEF LastWriteRunning
  <2> QED BY <2>4, <2>5, <2>6 DEF LastWriteInv
<1> QED BY <1>1, <1>2, <1>3 DEF StarterNext

LEMMA PollerLastWrite ==
  ASSUME OneAtATime, TypeOK, IInv, Unfinished, LastWriteInv, NEW p \in Pollers,
         PollerNext(p)
  PROVE  LastWriteInv'
<1>0. p \in Procs /\ proc[p] \in ProcStates /\ IdleProc.pc = "idle" /\ Custody
  BY DEF Procs, TypeOK, IdleProc, IInv
<1>1. /\ UNCHANGED <<ckpt, gateVars>>
      /\ \A q \in Procs : q # p => proc'[q] = proc[q]
  BY DEF PollerNext, BeginSweep, SweepNext, SweepAgentDone, PollAnswered,
         PollFails, InvokeResume, TypeOK
<1>2. proc'[p].pc # "run" => LastWriteInv'
  BY <1>0, <1>1, ProcOnlyLastWrite
<1>3. CASE InvokeResume(p)
  <2> DEFINE c == proc[p].case
  <2>1. /\ c \in Cases /\ ckpt[c].interrupted
        /\ \/ proc'[p].pc \in {"idle", "sweep"}
           \/ proc'[p].case = c /\ proc'[p].mem = ckpt[c]
    BY <1>0, <1>3, InvokeResumeMoves, PollerHolds
  <2>2. ckpt[c].next = "wait_for_approval" /\ Settled(actions, c, ckpt[c])
    BY <2>1 DEF Unfinished, OpenThread, LastWriteInv
  <2>3. proc'[p].pc = "run" => LastWriteRunning(p)'
    BY <1>1, <2>1, <2>2 DEF LastWriteRunning, gateVars
  <2> QED BY <1>0, <1>1, <2>3, ProcOnlyLastWrite
<1>4. CASE ~InvokeResume(p)
  <2>1. CASE BeginSweep(p)
    BY <1>0, <1>2, <2>1 DEF BeginSweep, TypeOK, IdleProc
  <2>2. CASE SweepNext(p)
    BY <1>0, <1>2, <2>2 DEF SweepNext, TypeOK, ProcStates
  <2>3. CASE SweepAgentDone(p)
    BY <1>0, <1>2, <2>3 DEF SweepAgentDone, TypeOK, ProcStates
  <2>4. CASE PollAnswered(p)
    BY <1>2, <2>4, PollAnsweredMoves
  <2>5. CASE PollFails(p)
    BY <1>0, <1>2, <2>5 DEF PollFails, TypeOK
  <2> QED BY <1>4, <2>1, <2>2, <2>3, <2>4, <2>5 DEF PollerNext
<1> QED BY <1>3, <1>4

LEMMA HumanLastWrite ==
  ASSUME TypeOK, LastWriteInv, NEW n \in 1 .. Len(actions), HumanDecides(n)
  PROVE  LastWriteInv'
<1>1. /\ Grows(actions, actions') /\ Len(actions') = Len(actions)
      /\ ckpt' = ckpt /\ proc' = proc
  BY DecisionsGrow DEF HumanDecides
<1>2. \A m \in Len(actions) + 1 .. Len(actions') : FALSE
  BY <1>1, RecordTyped
<1>3. \A c, t : Settled(actions, c, t) => Settled(actions', c, t)
  BY <1>1, <1>2, SettledKept
<1>4. ASSUME NEW p \in Procs, proc[p].pc = "run" PROVE LastWriteRunning(p)'
  <2>1. /\ LastWriteRunning(p) /\ proc[p].case \in Cases
        /\ Settled(actions, proc[p].case, ckpt[proc[p].case])
    BY <1>4 DEF LastWriteInv, TypeOK
  <2>2. Overtaken(actions, ckpt[proc[p].case]) =>
          Overtaken(actions', ckpt[proc[p].case])
    BY <1>1, <2>1, OvertakenKept
  <2> QED BY <1>1, <1>3, <2>1, <2>2 DEF LastWriteRunning
<1> QED BY <1>1, <1>3, <1>4 DEF LastWriteInv

LEMMA LastWriteInit == ASSUME Init PROVE LastWriteInv
<1>1. \A c : Settled(actions, c, NewThread)
  BY OpenSettled DEF NewThread, Done
<1> QED BY <1>1 DEF Init, IdleProc, LastWriteInv

LEMMA LastWriteStep ==
  ASSUME OneAtATime, TypeOK, IInv, Unfinished, LastWriteInv, [Next]_vars
  PROVE  LastWriteInv'
<1>1. ASSUME NEW p \in Procs, Dies(p) PROVE LastWriteInv'
  <2>1. /\ \A q \in Procs : q # p => proc'[q] = proc[q]
        /\ proc'[p].pc # "run" /\ UNCHANGED <<ckpt, gateVars>>
    BY <1>1 DEF Dies, TypeOK, IdleProc
  <2> QED BY <2>1, ProcOnlyLastWrite
<1>2. ASSUME NEW p \in Procs, RunNode(p) PROVE LastWriteInv'
  BY <1>2, ReadLastWrite, ProposeLastWrite, WaitLastWrite, RecordLastWrite
     DEF RunNode
<1>3. CASE UNCHANGED vars
  BY <1>3 DEF vars, LastWriteInv, LastWriteRunning
<1> QED BY <1>1, <1>2, <1>3, StarterLastWrite, PollerLastWrite, HumanLastWrite
        DEF Next

(* A case that reports a rejection reports it of the last write it put to  *)
(* a human, which was decided and not executed, with and without crashes.  *)
THEOREM RejectionsAreLast == ASSUME Discipline PROVE Spec => []RejectedIsLastWrite
<1> DEFINE Inv == TypeOK /\ IInv /\ Unfinished /\ LastWriteInv
<1>0. OneAtATime
  BY DEF Discipline
<1>1. Init => Inv
  BY TypeInit, InitInv, UnfinishedInit, LastWriteInit
<1>2. Inv /\ [Next]_vars => Inv'
  BY <1>0, TypeStep, InvStep, UnfinishedStep, LastWriteStep DEF IInv
<1>3. Inv => RejectedIsLastWrite
  BY DEF LastWriteInv, Settled, RejectedLast, RejectedIsLastWrite
<1> HIDE DEF Inv
<1> QED BY <1>1, <1>2, <1>3, PTL DEF Spec

-----------------------------------------------------------------------------
(* The refinement of HumanGate.                                            *)

(* The chains as HumanGate counts them. *)
LEMMA StepsInOrder ==
  ASSUME NEW a \in Agents
  PROVE  /\ \A s \in StepSet(a) : \E i \in 1 .. Len(Steps[a]) :
              Steps[a][i] = s /\ Gate!StepsBefore(a, i) = Earlier(a, s)
         /\ Gate!StepsBefore(a, Len(Steps[a]) + 1) = StepSet(a)
         /\ \A r, s \in StepSet(a) :
              r = s \/ r \in Earlier(a, s) \/ s \in Earlier(a, r)
<1>1. CASE a = "order_renewal"
  <2> DEFINE S == <<"call", "notice", "record_update">>
  <2>1. Steps[a] = S
    BY <1>1 DEF Steps
  <2>2. Len(S) = 3 /\ S[1] = "call" /\ S[2] = "notice" /\ S[3] = "record_update"
    OBVIOUS
  <2> HIDE DEF S
  <2>3. /\ Gate!StepsBefore(a, 1) = {}
        /\ Gate!StepsBefore(a, 2) = {"call"}
        /\ Gate!StepsBefore(a, 3) = {"call", "notice"}
        /\ Gate!StepsBefore(a, 4) = {"call", "notice", "record_update"}
    BY <2>1, <2>2 DEF Gate!StepsBefore
  <2>4. 1 \in 1 .. 3 /\ 2 \in 1 .. 3 /\ 3 \in 1 .. 3 /\ 3 + 1 = 4
    OBVIOUS
  <2> QED BY <1>1, <2>1, <2>2, <2>3, <2>4, RenewalChain
<1>2. CASE a = "customer_onboarding"
  <2> DEFINE S == <<"kickoff_call", "welcome_notice", "onboarding_ticket",
                    "record_update">>
  <2>1. Steps[a] = S
    BY <1>2 DEF Steps
  <2>2. /\ Len(S) = 4 /\ S[1] = "kickoff_call" /\ S[2] = "welcome_notice"
        /\ S[3] = "onboarding_ticket" /\ S[4] = "record_update"
    OBVIOUS
  <2> HIDE DEF S
  <2>3. /\ Gate!StepsBefore(a, 1) = {}
        /\ Gate!StepsBefore(a, 2) = {"kickoff_call"}
        /\ Gate!StepsBefore(a, 3) = {"kickoff_call", "welcome_notice"}
        /\ Gate!StepsBefore(a, 4) =
             {"kickoff_call", "welcome_notice", "onboarding_ticket"}
        /\ Gate!StepsBefore(a, 5) =
             {"kickoff_call", "welcome_notice", "onboarding_ticket", "record_update"}
    BY <2>1, <2>2 DEF Gate!StepsBefore
  <2>4. /\ 1 \in 1 .. 4 /\ 2 \in 1 .. 4 /\ 3 \in 1 .. 4 /\ 4 \in 1 .. 4
        /\ 4 + 1 = 5
    OBVIOUS
  <2> QED BY <1>2, <2>1, <2>2, <2>3, <2>4, OnboardingChain
<1> QED BY <1>1, <1>2 DEF Agents

LEMMA GateStart == Init => Gate!Init
<1> SUFFICES ASSUME Init PROVE Gate!Init
  OBVIOUS
<1>1. Len(actions) = 0
  BY DEF Init, GateInit
<1>2. \A D : \A c \in Cases : StepsDecided(c, D) = {}
  BY <1>1 DEF StepsDecided
<1> QED BY <1>2 DEF Init, Gate!Init, chainBar, askedBar, approvedBar, rejectedBar,
                    outcomeBar, NoRow, NewThread

LEMMA OwnStepsInit == Init => OwnSteps
BY DEF Init, GateInit, OwnSteps

(* A case keeps the agent it was registered for. *)
LEMMA RowsStay ==
  ASSUME TypeOK, [Next]_vars, NEW d \in Cases, Registered(d)
  PROVE  registry'[d] = registry[d]
<1>1. CASE \E p \in Starters : Register(p)
  <2> PICK p \in Starters : Register(p)
    BY <1>1
  <2>1. CASE Registered(proc[p].case)
    BY <2>1 DEF Register
  <2>2. CASE ~Registered(proc[p].case)
    BY <2>2 DEF Register, TypeOK
  <2> QED BY <2>1, <2>2
<1>2. CASE registry' = registry
  BY <1>2
<1>3. registry' = registry \/ \E p \in Starters : Register(p)
  <2>1. ASSUME NEW p \in Starters, StarterNext(p)
        PROVE  registry' = registry \/ Register(p)
    BY <2>1 DEF StarterNext, BeginStart, InvokeInitial
  <2>2. ASSUME NEW p \in Pollers, PollerNext(p) PROVE registry' = registry
    BY <2>2 DEF PollerNext, BeginSweep, SweepNext, SweepAgentDone,
                PollAnswered, PollFails, InvokeResume
  <2>3. ASSUME NEW p \in Procs, RunNode(p) PROVE registry' = registry
    BY <2>3 DEF RunNode, RunCheck, RunPull, RunPropose, RunWait, RunRecordOutcome
  <2> QED BY <2>1, <2>2, <2>3 DEF Next, Dies, HumanDecides, vars
<1> QED BY <1>1, <1>2, <1>3

(* What one step does to the gate's record. *)
LEMMA RecordSteps ==
  ASSUME TypeOK, IInv, [Next]_vars
  PROVE  \/ actions' = actions
         \/ \E p \in Procs : RunPropose(p)
         \/ \E n \in 1 .. Len(actions) : HumanDecides(n)
<1>1. ASSUME NEW p \in Starters, StarterNext(p) PROVE actions' = actions
  BY <1>1 DEF StarterNext, BeginStart, Register, InvokeInitial, gateVars
<1>2. ASSUME NEW p \in Pollers, PollerNext(p) PROVE actions' = actions
  BY <1>2 DEF PollerNext, BeginSweep, SweepNext, SweepAgentDone,
              PollAnswered, PollFails, InvokeResume, gateVars
<1>3. ASSUME NEW p \in Procs, RunNode(p) PROVE actions' = actions \/ RunPropose(p)
  BY <1>3 DEF RunNode, RunCheck, RunPull, RunWait, RunRecordOutcome, gateVars
<1> QED BY <1>1, <1>2, <1>3 DEF Next, Dies, vars, gateVars

(* A propose node: what it records, if anything, and what it leaves. *)
LEMMA ProposeRecords ==
  ASSUME TypeOK, IInv, NEW p \in Procs, RunPropose(p)
  PROVE  LET c == proc[p].case
             t == proc[p].mem
         IN  /\ proc[p].pc = "run" /\ UNCHANGED <<registry, starts>>
             /\ \E u : /\ Leave(p, u) /\ u.final_summary = t.final_summary
                       /\ u.next # "end"
             /\ \/ actions' = actions
                \/ \E s \in StepSet(proc[p].agent) :
                     /\ t.next = ProposeNode[proc[p].agent][s]
                     /\ Grows(actions, actions')
                     /\ Len(actions') = Len(actions) + 1
                     /\ \A n \in 1 .. Len(actions) : actions'[n] = actions[n]
                     /\ actions'[Len(actions) + 1].case = c
                     /\ actions'[Len(actions) + 1].step = s
                     /\ actions'[Len(actions) + 1].decision = "undecided"
<1> DEFINE a == proc[p].agent
           c == proc[p].case
           t == proc[p].mem
           id == NewId(c, PassesProcessId[a])
           N == Len(actions) + 1
<1>1. PICK s \in StepSet(a) :
        /\ Running(p, ProposeNode[a][s])
        /\ \/ /\ Len(actions) < MaxActions
              /\ RecordAction(c, s, id)
              /\ Leave(p, Proposed(t, s, id, N)) \/ Leave(p, Stopped(t))
           \/ Leave(p, Stopped(t)) /\ UNCHANGED gateVars
        /\ UNCHANGED <<registry, starts>>
  BY DEF RunPropose
<1>2. proc[p].pc = "run" /\ t.next = ProposeNode[a][s]
  BY <1>1 DEF Running
<1>3. a \in Agents /\ c \in Cases /\ t \in Threads
  BY <1>2, RunnerFacts
<1>4. /\ Stopped(t).final_summary = t.final_summary /\ Stopped(t).next # "end"
      /\ Proposed(t, s, id, N).final_summary = t.final_summary
      /\ Proposed(t, s, id, N).next # "end"
  BY <1>3 DEF Stopped, Proposed, RouteAfterCheck, Threads
<1>5. \E u : Leave(p, u) /\ u.final_summary = t.final_summary /\ u.next # "end"
  BY <1>1, <1>4
<1>6. CASE UNCHANGED gateVars
  BY <1>1, <1>2, <1>5, <1>6 DEF gateVars
<1>7. CASE Len(actions) < MaxActions /\ RecordAction(c, s, id)
  <2>1. s \in AllSteps /\ id \in ActionIds
    BY <1>3, <1>7, TablesLeadToNodes, GateTypes
  <2>2. \A n \in 1 .. Len(actions) : actions'[n] = actions[n]
    <3> DEFINE act == [case |-> c, step |-> s, id |-> id, decision |-> "undecided"]
    <3>1. act \in Actions /\ actions' = Append(actions, act)
      BY <1>3, <1>7, <2>1 DEF RecordAction, Actions
    <3> QED BY <3>1, AppendProperties DEF TypeOK
  <2> QED BY <1>1, <1>2, <1>3, <1>5, <1>7, <2>1, <2>2, RecordsGrow
<1> QED BY <1>1, <1>6, <1>7

LEMMA OwnStepsKept ==
  ASSUME TypeOK, IInv, OwnSteps, [Next]_vars PROVE OwnSteps'
<1>1. ASSUME NEW n \in 1 .. Len(actions)
      PROVE  registry'[actions[n].case].agent = AgentOf(actions[n].case)
  BY RowsStay, RecordTyped DEF IInv, StatusInv, AgentOf
<1>2. CASE actions' = actions
  BY <1>1, <1>2 DEF OwnSteps, AgentOf
<1>3. ASSUME NEW p \in Procs, RunPropose(p), actions' # actions PROVE OwnSteps'
  <2> DEFINE N == Len(actions) + 1
             c == proc[p].case
  <2>1. PICK s \in StepSet(proc[p].agent) :
          /\ Len(actions') = N /\ \A n \in 1 .. Len(actions) : actions'[n] = actions[n]
          /\ actions'[N].case = c /\ actions'[N].step = s
    BY <1>3, ProposeRecords
  <2>2. /\ proc[p].pc = "run" /\ registry' = registry
    BY <1>3, ProposeRecords
  <2>3. AgentOf(c) = proc[p].agent
    BY <2>2, RunnerFacts
  <2>4. Len(actions) \in Nat /\ \A n \in 1 .. N : n = N \/ n \in 1 .. Len(actions)
    BY RecordTyped
  <2> HIDE DEF N
  <2> QED BY <1>1, <2>1, <2>2, <2>3, <2>4 DEF OwnSteps, AgentOf
<1>4. ASSUME NEW n \in 1 .. Len(actions), HumanDecides(n) PROVE OwnSteps'
  <2>1. /\ Len(actions') = Len(actions)
        /\ \A m \in 1 .. Len(actions) :
             actions'[m].case = actions[m].case /\ actions'[m].step = actions[m].step
    BY <1>4, DecisionsGrow DEF HumanDecides, Grows
  <2> QED BY <1>1, <2>1 DEF OwnSteps, AgentOf
<1> QED BY <1>2, <1>3, <1>4, RecordSteps

-----------------------------------------------------------------------------
(* What a step of the processes is to HumanGate. *)

LEMMA RowsSeen ==
  ASSUME \A d \in Cases : registry'[d].agent = registry[d].agent
  PROVE  chainBar' = chainBar
BY DEF chainBar

LEMMA RecordSeen ==
  ASSUME actions' = actions
  PROVE  askedBar' = askedBar /\ approvedBar' = approvedBar /\ rejectedBar' = rejectedBar
BY DEF askedBar, approvedBar, rejectedBar, StepsDecided

LEMMA SummariesSeen ==
  ASSUME \A d \in Cases : ckpt'[d].final_summary = ckpt[d].final_summary
  PROVE  outcomeBar' = outcomeBar
BY DEF outcomeBar

(* What StepsDecided holds, now and after a step. *)
LEMMA DecidedSteps ==
  /\ \A c, D, s :
       s \in StepsDecided(c, D) <=>
         \E n \in 1 .. Len(actions) : /\ actions[n].case = c /\ actions[n].step = s
                                     /\ actions[n].decision \in D
  /\ \A c, D, s :
       s \in StepsDecided(c, D)' <=>
         \E n \in 1 .. Len(actions') :
            /\ actions'[n].case = c /\ actions'[n].step = s
            /\ actions'[n].decision \in D
BY DEF StepsDecided

(* A running thread has reported nothing, nor has its checkpoint. *)
LEMMA RunnersOpen ==
  ASSUME Unfinished, NEW p \in Procs, proc[p].pc = "run"
  PROVE  /\ proc[p].mem.next # "end" /\ proc[p].mem.final_summary = "none"
         /\ ckpt[proc[p].case].final_summary = "none"
BY DEF Unfinished, OpenThread, Done

(* A node that reports nothing leaves every summary alone. *)
LEMMA LeaveSummaries ==
  ASSUME TypeOK, IInv, Unfinished, NEW p \in Procs, proc[p].pc = "run",
         NEW u, Leave(p, u), u.final_summary = proc[p].mem.final_summary
  PROVE  outcomeBar' = outcomeBar
<1> DEFINE c == proc[p].case
<1>1. ckpt[c].final_summary = "none" /\ u.final_summary = "none"
  BY RunnersOpen
<1>2. /\ \A d \in Cases : d # c => ckpt'[d] = ckpt[d]
      /\ ckpt'[c] = ckpt[c] \/ ckpt'[c] = u
  BY LeaveCases
<1>3. \A d \in Cases : ckpt'[d].final_summary = ckpt[d].final_summary
  BY <1>1, <1>2
<1> QED BY <1>3, SummariesSeen

(* The nodes that neither propose nor report. *)
LEMMA QuietNode ==
  ASSUME TypeOK, IInv, Unfinished, NEW p \in Procs,
         RunCheck(p) \/ RunPull(p) \/ RunWait(p)
  PROVE  UNCHANGED Gate!vars
<1> DEFINE a == proc[p].agent
           t == proc[p].mem
<1>1. proc[p].pc = "run" /\ UNCHANGED <<registry, gateVars>>
  BY DEF RunCheck, RunPull, RunWait, Running
<1>2. t \in Threads
  BY <1>1, RunnerFacts
<1>3. \E u : Leave(p, u) /\ u \in {Passed(a, t), Stopped(t), Pulled(a, t), Paused(t),
                                   Resumed(a, t, proc[p].verdict)}
  BY DEF RunCheck, RunPull, RunWait
<1>4. \A u \in {Passed(a, t), Stopped(t), Pulled(a, t), Paused(t),
                Resumed(a, t, proc[p].verdict)} : u.final_summary = t.final_summary
  BY <1>2 DEF Threads, Passed, Stopped, Pulled, Paused, Resumed
<1>5. outcomeBar' = outcomeBar
  BY <1>1, <1>3, <1>4, LeaveSummaries
<1>6. actions' = actions /\ chainBar' = chainBar
  BY <1>1, RowsSeen DEF gateVars
<1> QED BY <1>5, <1>6, RecordSeen DEF Gate!vars

(* When a case asks for a step it has not asked for, it has asked for just *)
(* the earlier ones, and all of them are approved.                         *)
LEMMA AskedIsEarlier ==
  ASSUME TypeOK, IInv, OwnSteps, NEW c \in Cases, Registered(c),
         AgentOf(c) \in Agents, NEW s \in StepSet(AgentOf(c)),
         EarlierApproved(actions, AgentOf(c), c, s), s \notin askedBar[c]
  PROVE  askedBar[c] = Earlier(AgentOf(c), s) /\ askedBar[c] \subseteq approvedBar[c]
<1> DEFINE a == AgentOf(c)
<1>0. "approved" \in Outcomes \cup {"undecided"}
  BY DEF Outcomes
<1>1. \A x : x \in askedBar[c] <=>
        \E n \in 1 .. Len(actions) :
          /\ actions[n].case = c /\ actions[n].step = x
          /\ actions[n].decision \in Outcomes \cup {"undecided"}
  BY DecidedSteps DEF askedBar
<1>2. \A x : x \in approvedBar[c] <=>
        \E n \in 1 .. Len(actions) :
          /\ actions[n].case = c /\ actions[n].step = x
          /\ actions[n].decision = "approved"
  BY DecidedSteps DEF approvedBar
<1>3. ASSUME NEW e \in Earlier(a, s) PROVE e \in approvedBar[c] /\ e \in askedBar[c]
  BY <1>0, <1>1, <1>2 DEF EarlierApproved, ApprovedWithin
<1>4. ASSUME NEW x \in askedBar[c] PROVE x \in Earlier(a, s)
  <2>1. PICK n \in 1 .. Len(actions) : actions[n].case = c /\ actions[n].step = x
    BY <1>1, <1>4
  <2>2. x \in StepSet(a) /\ x # s
    BY <1>4, <2>1 DEF OwnSteps
  <2>3. s \notin Earlier(a, x)
    <3>1. ASSUME s \in Earlier(a, x) PROVE ApprovedWithin(actions, c, s, n - 1)
      BY <2>1, <3>1 DEF IInv, EveryProposalEarned
    <3>2. \A m \in 1 .. n - 1 : m \in 1 .. Len(actions)
      BY RecordTyped
    <3> QED BY <1>0, <1>1, <3>1, <3>2 DEF ApprovedWithin
  <2> QED BY <2>2, <2>3, StepsInOrder
<1> QED BY <1>3, <1>4

(* A write recorded for step s is one more step asked about. *)
LEMMA RecordedAsked ==
  ASSUME TypeOK, NEW c \in Cases, NEW s,
         Len(actions') = Len(actions) + 1,
         \A n \in 1 .. Len(actions) : actions'[n] = actions[n],
         actions'[Len(actions) + 1].case = c,
         actions'[Len(actions) + 1].step = s,
         actions'[Len(actions) + 1].decision = "undecided"
  PROVE  /\ askedBar' = [askedBar EXCEPT ![c] = @ \cup {s}]
         /\ approvedBar' = approvedBar /\ rejectedBar' = rejectedBar
<1> DEFINE N == Len(actions) + 1
<1>1. /\ Len(actions) \in Nat /\ N \in 1 .. N
      /\ \A n : n \in 1 .. N <=> n = N \/ n \in 1 .. Len(actions)
  BY RecordTyped
<1> HIDE DEF N
<1>2. /\ Len(actions') = N /\ \A n \in 1 .. Len(actions) : actions'[n] = actions[n]
      /\ actions'[N].case = c /\ actions'[N].step = s
      /\ actions'[N].decision = "undecided"
  BY DEF N
<1>3. \A d, D, x : x \in StepsDecided(d, D)' <=>
        x \in StepsDecided(d, D) \/ (d = c /\ x = s /\ "undecided" \in D)
  BY <1>1, <1>2, DecidedSteps
<1>4. ASSUME NEW d, NEW D, d # c \/ "undecided" \notin D
      PROVE  StepsDecided(d, D)' = StepsDecided(d, D)
  <2>1. \A x : x \in StepsDecided(d, D)' <=> x \in StepsDecided(d, D)
    BY <1>3, <1>4
  <2> QED BY <2>1
<1>5. ASSUME NEW D, "undecided" \in D
      PROVE  StepsDecided(c, D)' = StepsDecided(c, D) \cup {s}
  <2>1. \A x : x \in StepsDecided(c, D)' <=> x \in StepsDecided(c, D) \cup {s}
    BY <1>3, <1>5
  <2> QED BY <2>1
<1>6. approvedBar' = approvedBar /\ rejectedBar' = rejectedBar
  <2>1. "undecided" \notin {"approved"} /\ "undecided" \notin {"rejected", "failed"}
    OBVIOUS
  <2> QED BY <1>4, <2>1 DEF approvedBar, rejectedBar
<1>7. askedBar' = [askedBar EXCEPT ![c] = @ \cup {s}]
  <2> DEFINE D == Outcomes \cup {"undecided"}
  <2>1. /\ \A d \in Cases : d # c => StepsDecided(d, D)' = StepsDecided(d, D)
        /\ StepsDecided(c, D)' = StepsDecided(c, D) \cup {s}
    BY <1>4, <1>5
  <2>2. askedBar = [d \in Cases |-> StepsDecided(d, D)]
    BY DEF askedBar
  <2>3. askedBar' = [d \in Cases |-> StepsDecided(d, D)']
    BY DEF askedBar
  <2> HIDE DEF D
  <2> QED BY <2>1, <2>2, <2>3
<1> QED BY <1>6, <1>7

(* A propose node asks, asks again, or fails before it has asked. *)
LEMMA ProposeAsks ==
  ASSUME TypeOK, IInv, OwnSteps, Unfinished, NEW p \in Procs, RunPropose(p)
  PROVE  [Gate!Next]_(Gate!vars)
<1> DEFINE a == proc[p].agent
           c == proc[p].case
           t == proc[p].mem
<1>1. proc[p].pc = "run" /\ registry' = registry /\ chainBar' = chainBar
  BY ProposeRecords, RowsSeen
<1>2. outcomeBar' = outcomeBar
  BY <1>1, ProposeRecords, LeaveSummaries
<1>3. CASE actions' = actions
  BY <1>1, <1>2, <1>3, RecordSeen DEF Gate!vars
<1>4. CASE actions' # actions
  <2>1. PICK s \in StepSet(a) :
          /\ t.next = ProposeNode[a][s]
          /\ Len(actions') = Len(actions) + 1
          /\ \A n \in 1 .. Len(actions) : actions'[n] = actions[n]
          /\ actions'[Len(actions) + 1].case = c
          /\ actions'[Len(actions) + 1].step = s
          /\ actions'[Len(actions) + 1].decision = "undecided"
    BY <1>4, ProposeRecords
  <2>2. /\ a \in Agents /\ c \in Cases /\ Registered(c) /\ AgentOf(c) = a
        /\ EarlierApproved(actions, a, c, s)
    BY <1>1, <2>1, RunnerFacts DEF Justified
  <2>3. /\ askedBar' = [askedBar EXCEPT ![c] = @ \cup {s}]
        /\ approvedBar' = approvedBar /\ rejectedBar' = rejectedBar
    BY <2>1, <2>2, RecordedAsked
  <2>4. CASE s \in askedBar[c]
    <3>1. askedBar = [d \in Cases |-> askedBar[d]]
      BY DEF askedBar
    <3>2. askedBar' = askedBar
      BY <2>3, <2>4, <3>1
    <3> QED BY <1>1, <1>2, <2>3, <3>2 DEF Gate!vars
  <2>5. CASE s \notin askedBar[c]
    <3>1. askedBar[c] = Earlier(a, s) /\ askedBar[c] \subseteq approvedBar[c]
      BY <2>2, <2>5, AskedIsEarlier
    <3>2. chainBar[c] = a /\ chainBar[c] # "none" /\ outcomeBar[c] = "none"
      BY <1>1, <2>2, RunnersOpen DEF chainBar, outcomeBar, AgentOf, Agents
    <3>3. PICK i \in 1 .. Len(Steps[a]) :
            Steps[a][i] = s /\ Gate!StepsBefore(a, i) = Earlier(a, s)
      BY <2>2, StepsInOrder
    <3>4. Gate!Ask(c)
      BY <1>1, <1>2, <2>3, <3>1, <3>2, <3>3 DEF Gate!Ask
    <3> QED BY <2>2, <3>4 DEF Gate!Next
  <2> QED BY <2>4, <2>5
<1> QED BY <1>3, <1>4

(* record_outcome reports what the humans' decisions back. *)
LEMMA RecordCloses ==
  ASSUME TypeOK, IInv, OwnSteps, Unfinished, NEW p \in Procs, RunRecordOutcome(p)
  PROVE  Gate!Next
<1> DEFINE a == proc[p].agent
           c == proc[p].case
           t == proc[p].mem
           o == Outcome(t)
<1>1. /\ proc[p].pc = "run" /\ t.next = "record_outcome" /\ Leave(p, Recorded(t))
      /\ UNCHANGED <<registry, gateVars>>
  BY DEF RunRecordOutcome, Running
<1>2. /\ a \in Agents /\ c \in Cases /\ t \in Threads /\ AgentOf(c) = a
      /\ OutcomeBacked(actions, a, c, t)
  BY <1>1, RunnerFacts DEF Justified
<1>3. /\ chainBar' = chainBar /\ askedBar' = askedBar
      /\ approvedBar' = approvedBar /\ rejectedBar' = rejectedBar
  BY <1>1, RowsSeen, RecordSeen DEF gateVars
<1>4. chainBar[c] = a /\ chainBar[c] # "none" /\ outcomeBar[c] = "none"
  BY <1>1, <1>2, RunnersOpen DEF chainBar, outcomeBar, AgentOf, Agents
<1>5. o \in {"stopped", "rejected", "completed"}
  BY DEF Outcome
<1>6. outcomeBar' = [outcomeBar EXCEPT ![c] = o]
  <2>1. Recorded(t).next = "end" /\ Recorded(t).final_summary = o
    BY <1>2 DEF Recorded, Threads
  <2>2. /\ \A d \in Cases : d # c => ckpt'[d] = ckpt[d]
        /\ ckpt'[c].final_summary = o
    BY <1>1, <2>1, LeaveCases
  <2> HIDE DEF o
  <2> QED BY <1>2, <2>2 DEF outcomeBar
<1>7. ASSUME o = "rejected" PROVE rejectedBar[c] # {}
  <2>1. RejectedIn(actions, c, t.awaiting_step)
    BY <1>2, <1>7 DEF OutcomeBacked, Outcome
  <2>2. t.awaiting_step \in StepsDecided(c, {"rejected", "failed"})
    BY <2>1, DecidedSteps DEF RejectedIn
  <2> QED BY <1>2, <2>2 DEF rejectedBar
<1>8. ASSUME o = "completed"
      PROVE  Gate!StepsBefore(a, Len(Steps[a]) + 1) \subseteq approvedBar[c]
  <2>1. ChainApproved(actions, a, c)
    BY <1>2, <1>8 DEF OutcomeBacked, Outcome
  <2>2. \A s \in StepSet(a) : s \in StepsDecided(c, {"approved"})
    BY <2>1, DecidedSteps DEF ChainApproved, ApprovedWithin
  <2> QED BY <1>2, <2>2, StepsInOrder DEF approvedBar
<1>9. Gate!Close(c, o)
  <2> HIDE DEF o
  <2> QED BY <1>3, <1>4, <1>5, <1>6, <1>7, <1>8 DEF Gate!Close
<1> HIDE DEF o
<1> QED BY <1>2, <1>5, <1>9 DEF Gate!Next

(* A decision on the action of case c for step s counts c's step as decided. *)
LEMMA DecisionCounted ==
  ASSUME TypeOK, NEW n \in 1 .. Len(actions), NEW r \in Outcomes, Decide(n, r),
         NEW c \in Cases, NEW s, c = actions[n].case, s = actions[n].step
  PROVE  /\ askedBar' = askedBar /\ s \in askedBar[c]
         /\ r = "approved" => /\ approvedBar' = [approvedBar EXCEPT ![c] = @ \cup {s}]
                              /\ rejectedBar' = rejectedBar
         /\ r # "approved" => /\ rejectedBar' = [rejectedBar EXCEPT ![c] = @ \cup {s}]
                              /\ approvedBar' = approvedBar
<1>1. /\ Len(actions') = Len(actions) /\ actions'[n].decision = r
      /\ actions'[n].case = c /\ actions'[n].step = s
      /\ \A m \in 1 .. Len(actions) : m # n => actions'[m] = actions[m]
  BY DecisionsGrow DEF Grows
<1>2. actions[n].decision = "undecided"
  BY DEF Decide
<1>3. ASSUME NEW D, "undecided" \notin D, NEW d, NEW x
      PROVE  x \in StepsDecided(d, D)' <=>
               x \in StepsDecided(d, D) \/ (d = c /\ x = s /\ r \in D)
  BY <1>1, <1>2, <1>3, DecidedSteps
<1>4. ASSUME NEW D, "undecided" \notin D, r \in D
      PROVE  /\ StepsDecided(c, D)' = StepsDecided(c, D) \cup {s}
             /\ \A d : d # c => StepsDecided(d, D)' = StepsDecided(d, D)
  <2>1. \A x : x \in StepsDecided(c, D)' <=> x \in StepsDecided(c, D) \cup {s}
    BY <1>3, <1>4
  <2>2. ASSUME NEW d, d # c PROVE StepsDecided(d, D)' = StepsDecided(d, D)
    <3>1. \A x : x \in StepsDecided(d, D)' <=> x \in StepsDecided(d, D)
      BY <1>3, <1>4, <2>2
    <3> QED BY <3>1
  <2> QED BY <2>1, <2>2
<1>5. ASSUME NEW D, "undecided" \notin D, r \notin D, NEW d
      PROVE  StepsDecided(d, D)' = StepsDecided(d, D)
  <2>1. \A x : x \in StepsDecided(d, D)' <=> x \in StepsDecided(d, D)
    BY <1>3, <1>5
  <2> QED BY <2>1
<1>6. askedBar' = askedBar /\ s \in askedBar[c]
  <2> DEFINE D == Outcomes \cup {"undecided"}
  <2>1. ASSUME NEW d PROVE StepsDecided(d, D)' = StepsDecided(d, D)
    <3>1. \A x : x \in StepsDecided(d, D)' <=> x \in StepsDecided(d, D)
      BY <1>1, <1>2, DecidedSteps
    <3> QED BY <3>1
  <2>2. s \in StepsDecided(c, D)
    BY <1>2, DecidedSteps
  <2> QED BY <2>1, <2>2 DEF askedBar
<1>7. CASE r = "approved"
  <2>1. /\ "undecided" \notin {"approved"} /\ "undecided" \notin {"rejected", "failed"}
        /\ r \in {"approved"} /\ r \notin {"rejected", "failed"}
    BY <1>7
  <2>2. approvedBar' = [approvedBar EXCEPT ![c] = @ \cup {s}]
    BY <1>4, <2>1 DEF approvedBar
  <2>3. rejectedBar' = rejectedBar
    BY <1>5, <2>1 DEF rejectedBar
  <2> QED BY <1>6, <1>7, <2>2, <2>3
<1>8. CASE r # "approved"
  <2>1. /\ "undecided" \notin {"approved"} /\ "undecided" \notin {"rejected", "failed"}
        /\ r \notin {"approved"} /\ r \in {"rejected", "failed"}
    BY <1>8 DEF Outcomes
  <2>2. rejectedBar' = [rejectedBar EXCEPT ![c] = @ \cup {s}]
    BY <1>4, <2>1 DEF rejectedBar
  <2>3. approvedBar' = approvedBar
    BY <1>5, <2>1 DEF approvedBar
  <2> QED BY <1>6, <1>8, <2>2, <2>3
<1> QED BY <1>7, <1>8

(* A decision approves a step that was asked about, or rejects it. *)
LEMMA DecisionSeen ==
  ASSUME TypeOK, NEW n \in 1 .. Len(actions), HumanDecides(n)
  PROVE  Gate!Next
<1>1. PICK r \in Outcomes : Decide(n, r)
  BY DEF HumanDecides
<1>2. PICK c \in Cases : c = actions[n].case
  BY RecordTyped
<1>3. PICK s : s = actions[n].step
  OBVIOUS
<1>4. chainBar' = chainBar /\ outcomeBar' = outcomeBar
  BY RowsSeen, SummariesSeen DEF HumanDecides
<1>5. s \in askedBar[c]
  BY <1>1, <1>2, <1>3, DecisionCounted
<1>6. CASE r = "approved"
  <2>1. Gate!Approve(c, s)
    BY <1>1, <1>2, <1>3, <1>4, <1>6, DecisionCounted DEF Gate!Approve
  <2> QED BY <1>5, <2>1 DEF Gate!Next
<1>7. CASE r # "approved"
  <2>1. Gate!Reject(c, s)
    BY <1>1, <1>2, <1>3, <1>4, <1>7, DecisionCounted DEF Gate!Reject
  <2> QED BY <1>5, <2>1 DEF Gate!Next
<1> QED BY <1>6, <1>7

(* Registering a case enrols it; the rest of start_case shows nothing. *)
LEMMA StartSeen ==
  ASSUME OneAtATime, TypeOK, IInv, NEW p \in Starters, StarterNext(p)
  PROVE  [Gate!Next]_(Gate!vars)
<1>0. Custody
  BY DEF IInv
<1>1. ASSUME NEW c \in Cases, NEW a \in AgentsFor[c], BeginStart(p, c, a)
      PROVE  UNCHANGED Gate!vars
  BY <1>1, RowsSeen, RecordSeen, SummariesSeen DEF BeginStart, gateVars, Gate!vars
<1>2. CASE Register(p)
  <2> DEFINE c == proc[p].case
             a == proc[p].agent
  <2>1. c \in Cases /\ a \in Agents
    BY <1>0, <1>2, RegisterMoves, StarterHolds
  <2>2. /\ registry[c] = NoRow /\ registry'[c].agent = a
        /\ \A d \in Cases : d # c => registry'[d] = registry[d]
        /\ UNCHANGED <<ckpt, gateVars>>
    BY <1>0, <1>2, RegisterMoves
  <2>3. chainBar[c] = "none" /\ chainBar' = [chainBar EXCEPT ![c] = a]
    BY <2>1, <2>2 DEF chainBar, NoRow
  <2>4. Gate!Enrol(c, a)
    BY <2>2, <2>3, RecordSeen, SummariesSeen DEF Gate!Enrol, gateVars
  <2> QED BY <2>1, <2>4 DEF Gate!Next
<1>3. CASE InvokeInitial(p)
  <2> DEFINE c == proc[p].case
             t == StartedFrom(NewThread)
  <2>1. t.final_summary = "none" /\ NewThread.final_summary = "none"
    BY DEF StartedFrom, NewThread
  <2> HIDE DEF t
  <2>2. /\ \A d \in Cases : d # c => ckpt'[d] = ckpt[d]
        /\ ckpt'[c] = NewThread \/ ckpt'[c] = t
        /\ proc[p].pc = "registered" /\ UNCHANGED <<registry, gateVars>>
    BY <1>0, <1>3, InvokeInitialMoves DEF t
  <2>3. ckpt[c] = NewThread
    BY <1>0, <2>2, StarterHolds
  <2>4. \A d \in Cases : ckpt'[d].final_summary = ckpt[d].final_summary
    BY <2>1, <2>2, <2>3
  <2> QED BY <2>2, <2>4, RowsSeen, RecordSeen, SummariesSeen DEF gateVars, Gate!vars
<1> QED BY <1>1, <1>2, <1>3 DEF StarterNext

(* Sweeps, polls and deaths show nothing. *)
LEMMA ProcessesUnseen ==
  ASSUME NEW p \in Procs, PollerNext(p) \/ Dies(p)
  PROVE  UNCHANGED Gate!vars
<1>1. UNCHANGED <<registry, ckpt, gateVars>>
  BY DEF PollerNext, BeginSweep, SweepNext, SweepAgentDone, PollAnswered,
         PollFails, InvokeResume, Dies
<1> QED BY <1>1, RowsSeen, RecordSeen, SummariesSeen DEF gateVars, Gate!vars

LEMMA StepSeen ==
  ASSUME Discipline, TypeOK, IInv, OwnSteps, Unfinished, [Next]_vars
  PROVE  [Gate!Next]_(Gate!vars)
<1>1. ASSUME NEW p \in Starters, StarterNext(p) PROVE [Gate!Next]_(Gate!vars)
  BY <1>1, StartSeen DEF Discipline
<1>2. ASSUME NEW p \in Pollers, PollerNext(p) PROVE [Gate!Next]_(Gate!vars)
  BY <1>2, ProcessesUnseen DEF Procs
<1>3. ASSUME NEW p \in Procs, RunNode(p) PROVE [Gate!Next]_(Gate!vars)
  BY <1>3, QuietNode, ProposeAsks, RecordCloses DEF RunNode
<1>4. ASSUME NEW p \in Procs, Dies(p) PROVE [Gate!Next]_(Gate!vars)
  BY <1>4, ProcessesUnseen
<1>5. ASSUME NEW n \in 1 .. Len(actions), HumanDecides(n) PROVE [Gate!Next]_(Gate!vars)
  BY <1>5, DecisionSeen
<1>6. CASE UNCHANGED vars
  BY <1>6, RowsSeen, RecordSeen, SummariesSeen DEF vars, Gate!vars
<1> QED BY <1>1, <1>2, <1>3, <1>4, <1>5, <1>6 DEF Next

(* Case processes, polls and checkpoints, dying or not, implement what a   *)
(* business case promises the humans: writes are put to them one at a      *)
(* time, in order, each on the approval of all before it, and a report is  *)
(* backed by their decisions and is the last word of its case.             *)
THEOREM GateImplemented == ASSUME Discipline PROVE Spec => ImplementsGate
<1>1. Init => Gate!Init /\ TypeOK /\ IInv /\ OwnSteps /\ Unfinished
  BY GateStart, TypeInit, InitInv, OwnStepsInit, UnfinishedInit
<1>2. TypeOK /\ IInv /\ OwnSteps /\ Unfinished /\ [Next]_vars =>
        /\ TypeOK' /\ IInv' /\ OwnSteps' /\ Unfinished'
        /\ [Gate!Next]_(Gate!vars)
  <2> SUFFICES ASSUME TypeOK, IInv, OwnSteps, Unfinished, [Next]_vars
               PROVE  /\ TypeOK' /\ IInv' /\ OwnSteps' /\ Unfinished'
                      /\ [Gate!Next]_(Gate!vars)
    OBVIOUS
  <2>1. OneAtATime /\ Custody
    BY DEF Discipline, IInv
  <2>2. Unfinished'
    BY <2>1, UnfinishedStep
  <2> QED BY <2>2, TypeStep, InvStep, OwnStepsKept, StepSeen
<1> QED BY <1>1, <1>2, PTL DEF Spec, ImplementsGate, Gate!Spec
=============================================================================
