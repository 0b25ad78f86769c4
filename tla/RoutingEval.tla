----------------------------- MODULE RoutingEval -----------------------------
(***************************************************************************)
(* The routing evaluation: run_supervisor_routing_eval.py puts each prompt *)
(* of a golden dataset to a model that holds the Supervisor's instructions *)
(* and tools, with the agents behind the tools replaced by stubs, and      *)
(* judges the delegate calls of each answer.  The exit code is what the    *)
(* nightly build sees.                                                     *)
(*                                                                         *)
(* Abstracted: prompts, labels, rationale and texts; a stream is the       *)
(* delegate calls it holds, and however it ends (the loop reads a failed   *)
(* ResultMessage like any other message).                                  *)
(***************************************************************************)
EXTENDS Naturals, Sequences

CONSTANTS
  Cases,     \* CASES, the golden dataset
  MaxCalls   \* bound: delegate calls of one answer

Delegates == {"order_renewal", "customer_onboarding"}

(* The model may leave the argument out. *)
Confidences == {"high", "low", "absent"}

(* expected is "none" for a case that is only observed, and for one in     *)
(* which no delegate may be called. *)
RoutingCases ==
  {c \in [category : {"clear", "adversarial", "out_of_scope", "ambiguous"},
          expected : Delegates \cup {"none"}, expectNone : BOOLEAN] :
     c.expectNone => c.expected = "none"}

ASSUME CasesAssumption ==
  Cases \in Seq(RoutingCases) /\ MaxCalls \in Nat

VARIABLES
  at,        \* the case in hand
  stream,    \* is an answer coming in?
  calls,     \* the delegate calls of that answer
  result,    \* RoutingResult: what run_traced has noted of them
  outcomes,  \* of the cases before: what was answered and judged
  exit       \* the exit code, once there is one

vars == <<at, stream, calls, result, outcomes, exit>>

(* Faulty: one RoutingResult serves all cases, its confidence left as is. *)
NewResultKept == [delegates |-> <<>>, confidence |-> result.confidence]

NewResult == [delegates |-> <<>>, confidence |-> "absent"]

Init ==
  /\ at = 1
  /\ stream = "closed"
  /\ calls = <<>>
  /\ result = [delegates |-> <<>>, confidence |-> "absent"]
  /\ outcomes = <<>>
  /\ exit = "none"

-----------------------------------------------------------------------------
(* Judging an answer. *)

(* Faulty: the expected delegate among others is good enough. *)
VerdictForAmong(case, r) ==
  CASE case.expectNone -> IF r.delegates = <<>> THEN "PASS" ELSE "FAIL"
    [] ~case.expectNone /\ case.expected = "none" -> "OBSERVE"
    [] OTHER -> IF \E i \in 1 .. Len(r.delegates) : r.delegates[i] = case.expected
                THEN "PASS" ELSE "FAIL"

VerdictFor(case, r) ==
  CASE case.expectNone -> IF r.delegates = <<>> THEN "PASS" ELSE "FAIL"
    [] ~case.expectNone /\ case.expected = "none" -> "OBSERVE"
    [] OTHER -> IF r.delegates = <<case.expected>> THEN "PASS" ELSE "FAIL"

ExpectedConfidence(case) ==
  IF case.category = "ambiguous" THEN "low" ELSE "high"

ConfidenceVerdictFor(case, r) ==
  CASE case.expectNone -> "unchecked"
    [] OTHER -> IF r.confidence = ExpectedConfidence(case) THEN "PASS" ELSE "FAIL"

-----------------------------------------------------------------------------
(* run_traced, for one case after the other. *)

(* Faulty: one case too many. *)
AskOnePast ==
  /\ exit = "none" /\ stream = "closed" /\ at <= Len(Cases) + 1
  /\ stream' = "open"
  /\ calls' = <<>>
  /\ result' = NewResult
  /\ UNCHANGED <<at, outcomes, exit>>

Ask ==
  /\ exit = "none" /\ stream = "closed" /\ at <= Len(Cases)
  /\ stream' = "open"
  /\ calls' = <<>>
  /\ result' = NewResult
  /\ UNCHANGED <<at, outcomes, exit>>

ToolUse(d, k) ==
  /\ stream = "open" /\ Len(calls) < MaxCalls
  /\ calls' = Append(calls, [delegate |-> d, confidence |-> k])
  /\ result' = [delegates |-> Append(result.delegates, d), confidence |-> k]
  /\ UNCHANGED <<at, stream, outcomes, exit>>

EndStream ==
  /\ stream = "open"
  /\ outcomes' = Append(outcomes,
       [calls |-> calls,
        verdict |-> VerdictFor(Cases[at], result),
        confidence |-> ConfidenceVerdictFor(Cases[at], result)])
  /\ stream' = "closed"
  /\ at' = at + 1
  /\ UNCHANGED <<calls, result, exit>>

(* query() raises: evaluate_all ends with it and so does main; there is no *)
(* summary of the cases before. *)
Raises ==
  /\ stream = "open"
  /\ stream' = "closed"
  /\ exit' = "1"
  /\ UNCHANGED <<at, calls, result, outcomes>>

(* summarize: what is neither PASS nor OBSERVE. *)
Failed ==
  {i \in 1 .. Len(outcomes) : outcomes[i].verdict \notin {"PASS", "OBSERVE"}}

Finish ==
  /\ exit = "none" /\ stream = "closed" /\ at > Len(Cases)
  /\ exit' = IF Failed = {} THEN "0" ELSE "1"
  /\ UNCHANGED <<at, stream, calls, result, outcomes>>

Next ==
  \/ Ask
  \/ \E d \in Delegates, k \in Confidences : ToolUse(d, k)
  \/ EndStream
  \/ Raises
  \/ Finish

Spec == Init /\ [][Next]_vars

-----------------------------------------------------------------------------
(* Properties. *)

Calls == [delegate : Delegates, confidence : Confidences]

Outcomes == [calls : Seq(Calls), verdict : {"PASS", "FAIL", "OBSERVE"},
             confidence : {"PASS", "FAIL", "unchecked"}]

(* Every case before the one in hand has its outcome. *)
EvalTypeOK ==
  /\ at \in 1 .. Len(Cases) + 1
  /\ stream \in {"open", "closed"} /\ exit \in {"none", "0", "1"}
  /\ calls \in Seq(Calls)
  /\ result \in [delegates : Seq(Delegates), confidence : Confidences]
  /\ outcomes \in Seq(Outcomes) /\ Len(outcomes) = at - 1
  /\ stream = "open" => at <= Len(Cases) /\ exit = "none"

(* What the dataset wants of an answer. *)
Routed(case, answer) ==
  /\ case.expectNone => answer = <<>>
  /\ case.expected \in Delegates =>
       Len(answer) = 1 /\ answer[1].delegate = case.expected

(* The build is green exactly if every case was asked and each of those    *)
(* with a right answer was answered by that one call, or by none:          *)
(* observed cases, confidence and errors halfway never turn it round       *)
(* ("deliberately don't affect this script's exit code").                  *)
ExitIffRouted ==
  exit # "none" =>
    (exit = "0" <=>
       /\ Len(outcomes) = Len(Cases)
       /\ \A i \in 1 .. Len(outcomes) : Routed(Cases[i], outcomes[i].calls))

(* A confidence that passes was given by the last call of that very case,  *)
(* never left over from another one.                                       *)
ConfidenceIsItsOwn ==
  \A i \in 1 .. Len(outcomes) :
    outcomes[i].confidence = "PASS" =>
      LET answer == outcomes[i].calls
      IN  /\ answer # <<>>
          /\ answer[Len(answer)].confidence = ExpectedConfidence(Cases[i])
=============================================================================
