------------------------------ MODULE HumanGate ------------------------------
(***************************************************************************)
(* What a business case promises to the humans who decide its writes,      *)
(* without processes, threads, polls or ids: the writes of a case are put  *)
(* to a human one at a time, in the order of its chain, each one only when *)
(* all before it are approved; a case reports "completed" only when every  *)
(* write was approved and executed, and "rejected" only when one was       *)
(* decided and not executed: the human rejected it, or approved it and its *)
(* execution failed, between which the code makes no difference; and once  *)
(* it has reported, it asks for nothing more.                              *)
(***************************************************************************)
EXTENDS Naturals, Sequences

CONSTANTS
  Cases,   \* case ids
  Agents,  \* business agents
  Steps    \* agent -> the sequence of the steps it asks approval for

VARIABLES
  chain,     \* the agent of each case; "none" before it is registered
  asked,     \* the steps a human has been asked about
  approved,  \* the steps a human approved and that were executed
  rejected,  \* the steps that were decided and not executed
  outcome    \* what the case reported; "none" while it is open

vars == <<chain, asked, approved, rejected, outcome>>

Init ==
  /\ chain = [c \in Cases |-> "none"]
  /\ asked = [c \in Cases |-> {}]
  /\ approved = [c \in Cases |-> {}]
  /\ rejected = [c \in Cases |-> {}]
  /\ outcome = [c \in Cases |-> "none"]

Enrol(c, a) ==
  /\ chain[c] = "none"
  /\ chain' = [chain EXCEPT ![c] = a]
  /\ UNCHANGED <<asked, approved, rejected, outcome>>

StepsBefore(a, i) == {Steps[a][j] : j \in 1 .. (i - 1)}

(* The next step of the chain: all before it are approved, none is open. *)
Ask(c) ==
  /\ chain[c] # "none"
  /\ outcome[c] = "none"
  /\ asked[c] \subseteq approved[c]
  /\ \E i \in 1 .. Len(Steps[chain[c]]) :
       /\ asked[c] = StepsBefore(chain[c], i)
       /\ asked' = [asked EXCEPT ![c] = @ \cup {Steps[chain[c]][i]}]
  /\ UNCHANGED <<chain, approved, rejected, outcome>>

(* The human answers, and an approved write is executed or fails, even     *)
(* when the case has stopped meanwhile.  Reject is both ways to a "no".    *)
Approve(c, s) ==
  /\ s \in asked[c]
  /\ approved' = [approved EXCEPT ![c] = @ \cup {s}]
  /\ UNCHANGED <<chain, asked, rejected, outcome>>

Reject(c, s) ==
  /\ s \in asked[c]
  /\ rejected' = [rejected EXCEPT ![c] = @ \cup {s}]
  /\ UNCHANGED <<chain, asked, approved, outcome>>

Close(c, o) ==
  /\ chain[c] # "none"
  /\ outcome[c] = "none"
  /\ o \in {"stopped", "rejected", "completed"}
  /\ o = "rejected" => rejected[c] # {}
  /\ o = "completed" =>
       StepsBefore(chain[c], Len(Steps[chain[c]]) + 1) \subseteq approved[c]
  /\ outcome' = [outcome EXCEPT ![c] = o]
  /\ UNCHANGED <<chain, asked, approved, rejected>>

Next ==
  \E c \in Cases :
    \/ \E a \in Agents : Enrol(c, a)
    \/ Ask(c)
    \/ \E s \in asked[c] : Approve(c, s) \/ Reject(c, s)
    \/ \E o \in {"stopped", "rejected", "completed"} : Close(c, o)

Spec == Init /\ [][Next]_vars
=============================================================================
