---------------------------- MODULE CaseInvariant ----------------------------
(***************************************************************************)
(* The inductive invariants behind CaseRuntime's safety, one resting on    *)
(* another.  Custody says which process has which case in hand, and needs  *)
(* only that every case_id is started once and one poller runs; so does    *)
(* Unfinished, that nobody runs or resumes a thread that ended.  IInv adds *)
(* that every thread is backed by the humans' decisions, which needs an id *)
(* of its own for every write (no process_id is passed), and LastWriteInv  *)
(* that what was decided and not executed is the last write of its case.   *)
(* OrderlyInv adds to Custody that every step is asked for once and no     *)
(* case is stranded, which needs no ids but that no process dies.          *)
(***************************************************************************)
EXTENDS CaseRuntime

(* The agents that any case is run under. *)
RunAgents == UNION {AgentsFor[c] : c \in Cases}

(* The discipline that the code leaves to its operators. *)
OneAtATime ==
  /\ MaxStarts = 1
  /\ \A p, q \in Pollers : p = q

Discipline ==
  /\ OneAtATime
  /\ \A a \in RunAgents : PassesProcessId[a] = FALSE

-----------------------------------------------------------------------------
(* Custody: the processes and the cases they have in hand. *)

Held(p) == proc[p].pc \in {"checked", "registered", "poll", "resume", "run"}

(* At most one process has a case in hand. *)
Exclusive ==
  \A p, q \in Procs :
    Held(p) /\ Held(q) /\ proc[p].case = proc[q].case => p = q

StarterInv(p) ==
  LET c == proc[p].case
  IN  /\ proc[p].pc \in {"idle", "checked", "registered", "run"}
      /\ proc[p].verdict = "none"
      /\ proc[p].pc # "idle" =>
           /\ starts[c] # 0
           /\ proc[p].agent \in RunAgents
           /\ ~ckpt[c].interrupted
      /\ proc[p].pc = "checked" => registry[c] = NoRow
      /\ proc[p].pc \in {"checked", "registered"} => ckpt[c] = NewThread
      /\ proc[p].pc \in {"registered", "run"} =>
           Registered(c) /\ AgentOf(c) = proc[p].agent

PollerInv(p) ==
  LET c == proc[p].case
  IN  /\ proc[p].pc \in {"idle", "sweep", "poll", "resume", "run"}
      /\ proc[p].todo \subseteq Listed(proc[p].agent)
      /\ Held(p) => Registered(c) /\ AgentOf(c) = proc[p].agent
      /\ proc[p].pc \in {"poll", "resume"} =>
           ckpt[c].interrupted /\ proc[p].seen = ckpt[c].action_id

RegistryInv ==
  \A c \in Cases :
    /\ starts[c] = 0 => registry[c] = NoRow
    /\ registry[c] = NoRow \/ (Registered(c) /\ AgentOf(c) \in RunAgents)
    /\ registry[c] = NoRow => ckpt[c] = NewThread

Custody ==
  /\ Exclusive
  /\ \A p \in Starters : StarterInv(p)
  /\ \A p \in Pollers : PollerInv(p)
  /\ RegistryInv

(* A thread that somebody runs, or that waits to be resumed, has not ended. *)
OpenThread(t) ==
  /\ ~Done(t) /\ t.next # "end"
  /\ t.interrupted => t.next = "wait_for_approval"

Unfinished ==
  /\ \A c \in Cases : ckpt[c].interrupted => OpenThread(ckpt[c])
  /\ \A p \in Procs : proc[p].pc = "run" =>
       OpenThread(proc[p].mem) /\ ~Done(ckpt[proc[p].case])

-----------------------------------------------------------------------------
(* What the gate's record must hold for thread value t of case c. *)

EarlierApproved(acts, a, c, s) ==
  \A e \in Earlier(a, s) : ApprovedWithin(acts, c, e, Len(acts))

ChainApproved(acts, a, c) ==
  \A s \in StepSet(a) : ApprovedWithin(acts, c, s, Len(acts))

(* t waits for an action of its own, for a step whose turn it was. *)
Awaits(acts, a, c, t) ==
  /\ t.awaiting_step \in StepSet(a)
  /\ t.pending_action \in 1 .. Len(acts)
  /\ acts[t.pending_action].case = c
  /\ acts[t.pending_action].step = t.awaiting_step
  /\ acts[t.pending_action].id = t.action_id
  /\ EarlierApproved(acts, a, c, t.awaiting_step)

(* What record_outcome may be about to report. *)
OutcomeBacked(acts, a, c, t) ==
  \/ t.stop_reason # "none"
  \/ t.last_action_result = "rejected" /\ RejectedIn(acts, c, t.awaiting_step)
  \/ t.last_action_result = "approved" /\ ChainApproved(acts, a, c)

Justified(acts, a, c, t) ==
  /\ t.interrupted => t.next = "wait_for_approval"
  /\ Done(t) => t.next = "end"
  /\ \A s \in StepSet(a) :
       t.next = ProposeNode[a][s] => EarlierApproved(acts, a, c, s)
  /\ t.next = "wait_for_approval" => Awaits(acts, a, c, t)
  /\ t.next = "record_outcome" => OutcomeBacked(acts, a, c, t)
  /\ t.final_summary = "completed" => ChainApproved(acts, a, c)
  /\ t.final_summary = "rejected" => RejectedIn(acts, c, t.awaiting_step)

-----------------------------------------------------------------------------
(* The verdict v is what became of the action thread t waits for. *)
OwnVerdict(t, v) ==
  /\ t.next = "wait_for_approval"
  /\ t.pending_action \in 1 .. Len(actions)
  /\ actions[t.pending_action].decision # "undecided"
  /\ Resolved(actions[t.pending_action].decision) = v

VerdictInv(p) ==
  /\ proc[p].pc = "resume" =>
       /\ proc[p].verdict # "none"
       /\ OwnVerdict(ckpt[proc[p].case], proc[p].verdict)
  /\ proc[p].pc = "run" /\ proc[p].verdict # "none" =>
       OwnVerdict(proc[p].mem, proc[p].verdict)

(* Ids are never shared, so a status is the decision of one action. *)
StatusInv ==
  /\ \A n \in 1 .. Len(actions) :
       actions[n].id = <<"uuid", n>> /\ Registered(actions[n].case)
  /\ \A i \in DOMAIN status : \E n \in 1 .. Len(actions) :
       i = <<"uuid", n>> /\ status[i] = actions[n].decision

ThreadInv ==
  /\ \A c \in Cases :
       Registered(c) => Justified(actions, AgentOf(c), c, ckpt[c])
  /\ \A p \in Procs :
       proc[p].pc = "run" =>
         Justified(actions, proc[p].agent, proc[p].case, proc[p].mem)

(* Everything above, and the invariant it is for: every write waited its   *)
(* turn.  Earned proposals follow from justified threads only because a    *)
(* process about to propose holds a thread whose earlier steps are         *)
(* approved, which is what ThreadInv, Custody and StatusInv carry.         *)
IInv ==
  /\ Custody
  /\ \A p \in Pollers : VerdictInv(p)
  /\ StatusInv
  /\ ThreadInv
  /\ EveryProposalEarned

-----------------------------------------------------------------------------
(* The last write: what a case was told "no" about is the last it asked.   *)

RejectedLast(acts, c, s) ==
  \E n \in 1 .. Len(acts) : /\ acts[n].case = c /\ acts[n].step = s
                            /\ acts[n].decision \in {"rejected", "failed"}
                            /\ LatestOf(acts, c, n)

(* The write t waits for is the last of its case, unless it was approved:  *)
(* a process that went on from there may have asked for more and died.     *)
Settled(acts, c, t) ==
  /\ t.next = "wait_for_approval" =>
       /\ t.pending_action \in 1 .. Len(acts)
       /\ \/ acts[t.pending_action].decision = "approved"
          \/ LatestOf(acts, c, t.pending_action)
  /\ t.next = "record_outcome" /\ Outcome(t) = "rejected" =>
       RejectedLast(acts, c, t.awaiting_step)
  /\ t.final_summary = "rejected" => RejectedLast(acts, c, t.awaiting_step)

(* A checkpoint that a process ahead of it may leave further behind.       *)
Overtaken(acts, t) ==
  /\ t.next # "record_outcome"
  /\ t.next = "wait_for_approval" =>
       acts[t.pending_action].decision = "approved"

(* The process p running its case, whose checkpoint may lag behind, until  *)
(* it waits; a process about to hand over a verdict holds the checkpoint.  *)
LastWriteRunning(p) ==
  LET c == proc[p].case
  IN  /\ Settled(actions, c, proc[p].mem)
      /\ proc[p].mem.next \notin {"wait_for_approval", "record_outcome"} =>
           Overtaken(actions, ckpt[c])
      /\ proc[p].verdict # "none" => proc[p].mem = ckpt[c]

(* Rests on IInv and Unfinished. *)
LastWriteInv ==
  /\ \A c \in Cases : Settled(actions, c, ckpt[c])
  /\ \A p \in Procs : proc[p].pc = "run" => LastWriteRunning(p)

-----------------------------------------------------------------------------
(* Turns: what of its chain a case has asked for so far. *)

AskedOnly(acts, c, steps) ==
  \A n \in 1 .. Len(acts) : acts[n].case = c => acts[n].step \in steps

(* A thread about to ask for a step has asked for the earlier ones at most, *)
(* and one that waits, for nothing later than what it waits for.            *)
InTurn(acts, a, c, t) ==
  /\ t.interrupted => t.next = "wait_for_approval"
  /\ t.next \in DOMAIN Continue[a] \cup {PullNode[a]} => AskedOnly(acts, c, {})
  /\ \A s \in StepSet(a) :
       t.next = ProposeNode[a][s] => AskedOnly(acts, c, Earlier(a, s))
  /\ t.next = "wait_for_approval" =>
       /\ t.awaiting_step \in StepSet(a)
       /\ AskedOnly(acts, c, Earlier(a, t.awaiting_step) \cup {t.awaiting_step})

(* A case that no process runs has finished or waits to be polled. *)
AtRest(c) ==
  \/ Done(ckpt[c]) /\ ~ckpt[c].interrupted
  \/ ckpt[c].interrupted /\ InTurn(actions, AgentOf(c), c, ckpt[c])

InHand(c) ==
  \E p \in Procs : proc[p].pc \in {"registered", "run"} /\ proc[p].case = c

Turns ==
  /\ \A p \in Procs :
       /\ proc[p].pc = "registered" => AskedOnly(actions, proc[p].case, {})
       /\ proc[p].pc = "run" =>
            InTurn(actions, proc[p].agent, proc[p].case, proc[p].mem)
  /\ \A c \in Cases : IF Registered(c) THEN InHand(c) \/ AtRest(c)
                                       ELSE AskedOnly(actions, c, {})
  /\ NoStepProposedTwice

(* Without crashes: no step is asked for twice and no case is stranded.     *)
OrderlyInv == Custody /\ Turns
=============================================================================
