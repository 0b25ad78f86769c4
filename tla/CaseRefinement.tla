--------------------------- MODULE CaseRefinement ---------------------------
(* CaseRuntime seen as HumanGate: what the gate has recorded for a case and *)
(* what the case's checkpoint reports.                                      *)
EXTENDS CaseInvariant

StepsDecided(c, decisions) ==
  {actions[n].step : n \in {m \in 1 .. Len(actions) :
                              /\ actions[m].case = c
                              /\ actions[m].decision \in decisions}}

chainBar == [c \in Cases |-> registry[c].agent]
askedBar == [c \in Cases |-> StepsDecided(c, Outcomes \cup {"undecided"})]
approvedBar == [c \in Cases |-> StepsDecided(c, {"approved"})]
rejectedBar == [c \in Cases |-> StepsDecided(c, {"rejected", "failed"})]
outcomeBar == [c \in Cases |-> ckpt[c].final_summary]

Gate == INSTANCE HumanGate WITH
          chain <- chainBar, asked <- askedBar, approved <- approvedBar,
          rejected <- rejectedBar, outcome <- outcomeBar

(* Case processes, polls and checkpoints implement the gate's promise, even *)
(* when processes die in the middle of a node, as long as every case is     *)
(* started once, one poller runs and every write has an id of its own.      *)
ImplementsGate == Gate!Spec

(* What the refinement rests on besides IInv and Unfinished: a case asks   *)
(* for the steps of its own agent only.                                    *)
OwnSteps ==
  \A n \in 1 .. Len(actions) :
    actions[n].step \in StepSet(AgentOf(actions[n].case))
=============================================================================
