-------------------------- MODULE RoutingEvalProofs --------------------------
(* The exit code of the routing evaluation, for any dataset and answers.   *)
EXTENDS RoutingEval, SequenceTheorems, TLAPS

(* What run_traced has noted is what the stream held. *)
Noted ==
  /\ Len(result.delegates) = Len(calls)
  /\ \A j \in 1 .. Len(calls) : result.delegates[j] = calls[j].delegate
  /\ result.confidence = IF calls = <<>> THEN "absent"
                                         ELSE calls[Len(calls)].confidence

(* A verdict is about the answer to its own case. *)
Judged ==
  \A i \in 1 .. Len(outcomes) :
    outcomes[i].verdict = "FAIL" <=> ~Routed(Cases[i], outcomes[i].calls)

EvalInv == EvalTypeOK /\ Noted /\ Judged /\ ConfidenceIsItsOwn /\ ExitIffRouted

-----------------------------------------------------------------------------
LEMMA CasesTyped ==
  ASSUME NEW i \in 1 .. Len(Cases)
  PROVE  /\ Cases[i] \in RoutingCases
         /\ Cases[i].expectNone \in BOOLEAN
         /\ Cases[i].expected \in Delegates \cup {"none"}
         /\ Cases[i].expectNone => Cases[i].expected = "none"
<1>1. Cases[i] \in RoutingCases
  BY CasesAssumption, ElementOfSeq
<1> QED BY <1>1 DEF RoutingCases

LEMMA NoneApart == "none" \notin Delegates
BY DEF Delegates

LEMMA EvalTyped ==
  ASSUME EvalTypeOK
  PROVE  /\ Len(Cases) \in Nat /\ at \in Nat /\ Len(outcomes) \in Nat
         /\ calls \in Seq(Calls) /\ Len(calls) \in Nat
         /\ result.delegates \in Seq(Delegates) /\ Len(result.delegates) \in Nat
         /\ result.confidence \in Confidences
         /\ outcomes \in Seq(Outcomes) /\ Len(outcomes) = at - 1
         /\ \A i \in 1 .. Len(outcomes) : i \in 1 .. Len(Cases)
                                          /\ outcomes[i] \in Outcomes
<1>1. Len(Cases) \in Nat /\ at \in 1 .. Len(Cases) + 1
  BY CasesAssumption DEF EvalTypeOK
<1>2. outcomes \in Seq(Outcomes) /\ Len(outcomes) = at - 1
  BY DEF EvalTypeOK
<1>3. \A i \in 1 .. Len(outcomes) : i \in 1 .. Len(Cases)
  BY <1>1, <1>2
<1>4. \A i \in 1 .. Len(outcomes) : outcomes[i] \in Outcomes
  BY <1>2, ElementOfSeq
<1> QED BY <1>1, <1>2, <1>3, <1>4 DEF EvalTypeOK

LEMMA OneElement ==
  ASSUME NEW S, NEW s \in Seq(S), NEW e
  PROVE  s = <<e>> <=> Len(s) = 1 /\ s[1] = e
<1>1. ASSUME Len(s) = 1, s[1] = e PROVE s = <<e>>
  <2> DEFINE T == S \cup {e}
  <2>1. s \in Seq(T)
    <3>1. \A i \in 1 .. Len(s) : s[i] \in T
      BY <1>1
    <3>2. Len(s) \in Nat /\ s = [i \in 1 .. Len(s) |-> s[i]]
      OBVIOUS
    <3> QED BY <3>1, <3>2
  <2>2. <<e>> \in Seq(T) /\ Len(<<e>>) = 1 /\ <<e>>[1] = e
    OBVIOUS
  <2> QED BY <1>1, <2>1, <2>2, SeqEqual
<1>2. Len(<<e>>) = 1 /\ <<e>>[1] = e
  OBVIOUS
<1> QED BY <1>1, <1>2

(* verdict_for fails an answer exactly when the dataset wants another. *)
LEMMA VerdictSound ==
  ASSUME EvalTypeOK, Noted, NEW i \in 1 .. Len(Cases)
  PROVE  /\ VerdictFor(Cases[i], result) \in {"PASS", "FAIL", "OBSERVE"}
         /\ VerdictFor(Cases[i], result) = "FAIL" <=> ~Routed(Cases[i], calls)
<1> DEFINE case == Cases[i]
<1>1. /\ case.expectNone \in BOOLEAN /\ case.expected \in Delegates \cup {"none"}
      /\ case.expectNone => case.expected = "none"
  BY CasesTyped
<1>2. /\ calls \in Seq(Calls) /\ result.delegates \in Seq(Delegates)
      /\ Len(result.delegates) = Len(calls) /\ Len(calls) \in Nat
  BY EvalTyped DEF Noted
<1>3. result.delegates = <<>> <=> calls = <<>>
  BY <1>2, EmptySeq
<1>4. result.delegates = <<case.expected>> <=>
        Len(calls) = 1 /\ calls[1].delegate = case.expected
  <2>1. result.delegates = <<case.expected>> <=>
          Len(result.delegates) = 1 /\ result.delegates[1] = case.expected
    BY <1>2, OneElement
  <2>2. Len(calls) = 1 => result.delegates[1] = calls[1].delegate
    BY <1>2 DEF Noted
  <2> QED BY <1>2, <2>1, <2>2
<1> HIDE DEF case
<1>5. CASE case.expectNone
  <2>1. VerdictFor(case, result) = IF result.delegates = <<>> THEN "PASS" ELSE "FAIL"
    BY <1>5 DEF VerdictFor
  <2>2. Routed(case, calls) <=> calls = <<>>
    BY <1>1, <1>5, NoneApart DEF Routed
  <2> QED BY <1>3, <2>1, <2>2 DEF case
<1>6. CASE ~case.expectNone /\ case.expected = "none"
  <2>1. VerdictFor(case, result) = "OBSERVE"
    BY <1>6 DEF VerdictFor
  <2>2. Routed(case, calls)
    BY <1>6, NoneApart DEF Routed
  <2> QED BY <2>1, <2>2 DEF case
<1>7. CASE ~case.expectNone /\ case.expected # "none"
  <2>1. VerdictFor(case, result) =
          IF result.delegates = <<case.expected>> THEN "PASS" ELSE "FAIL"
    BY <1>7 DEF VerdictFor
  <2>2. Routed(case, calls) <=>
          Len(calls) = 1 /\ calls[1].delegate = case.expected
    BY <1>1, <1>7 DEF Routed
  <2> QED BY <1>4, <2>1, <2>2 DEF case
<1> QED BY <1>1, <1>5, <1>6, <1>7

LEMMA ConfidenceSound ==
  ASSUME EvalTypeOK, Noted, NEW i \in 1 .. Len(Cases)
  PROVE  /\ ConfidenceVerdictFor(Cases[i], result) \in {"PASS", "FAIL", "unchecked"}
         /\ ConfidenceVerdictFor(Cases[i], result) = "PASS" =>
              /\ calls # <<>>
              /\ calls[Len(calls)].confidence = ExpectedConfidence(Cases[i])
<1>1. Cases[i].expectNone \in BOOLEAN
  BY CasesTyped
<1>2. ExpectedConfidence(Cases[i]) # "absent"
  BY DEF ExpectedConfidence
<1> QED BY <1>1, <1>2 DEF ConfidenceVerdictFor, Noted

-----------------------------------------------------------------------------
LEMMA EvalInit == Init => EvalInv
<1> SUFFICES ASSUME Init PROVE EvalInv
  OBVIOUS
<1>1. Len(Cases) \in Nat /\ <<>> \in Seq(Calls) /\ <<>> \in Seq(Delegates)
      /\ <<>> \in Seq(Outcomes) /\ Len(<<>>) = 0
  BY CasesAssumption, EmptySeq
<1>2. EvalTypeOK
  BY <1>1 DEF Init, EvalTypeOK, Confidences
<1>3. Noted /\ Judged /\ ConfidenceIsItsOwn /\ ExitIffRouted
  BY <1>1 DEF Init, Noted, Judged, ConfidenceIsItsOwn, ExitIffRouted
<1> QED BY <1>2, <1>3 DEF EvalInv

LEMMA AskInv == ASSUME EvalInv, Ask PROVE EvalInv'
<1>1. /\ result' = [delegates |-> <<>>, confidence |-> "absent"] /\ calls' = <<>>
      /\ exit = "none" /\ stream' = "open" /\ at <= Len(Cases)
      /\ UNCHANGED <<at, outcomes, exit>>
  BY DEF Ask, NewResult
<1>2. <<>> \in Seq(Calls) /\ <<>> \in Seq(Delegates) /\ Len(<<>>) = 0
  BY EmptySeq
<1>3. EvalTypeOK'
  BY <1>1, <1>2 DEF EvalInv, EvalTypeOK, Confidences
<1>4. Noted'
  BY <1>1, <1>2 DEF Noted
<1>5. Judged' /\ ConfidenceIsItsOwn' /\ ExitIffRouted'
  BY <1>1 DEF EvalInv, Judged, ConfidenceIsItsOwn, ExitIffRouted
<1> QED BY <1>3, <1>4, <1>5 DEF EvalInv

LEMMA ToolUseInv ==
  ASSUME EvalInv, NEW d \in Delegates, NEW k \in Confidences, ToolUse(d, k)
  PROVE  EvalInv'
<1> DEFINE c == [delegate |-> d, confidence |-> k]
<1>1. c \in Calls /\ c.delegate = d /\ c.confidence = k
  BY DEF Calls
<1> HIDE DEF c
<1>2. /\ calls' = Append(calls, c)
      /\ result' = [delegates |-> Append(result.delegates, d), confidence |-> k]
      /\ UNCHANGED <<at, stream, outcomes, exit>>
  BY DEF ToolUse, c
<1>3. /\ calls \in Seq(Calls) /\ result.delegates \in Seq(Delegates)
      /\ Len(calls) \in Nat /\ Len(result.delegates) = Len(calls)
  BY EvalTyped DEF EvalInv, Noted
<1>4. /\ calls' \in Seq(Calls) /\ Len(calls') = Len(calls) + 1
      /\ calls'[Len(calls) + 1] = c
      /\ \A j \in 1 .. Len(calls) : calls'[j] = calls[j]
  BY <1>1, <1>2, <1>3, AppendProperties
<1>5. /\ result'.delegates \in Seq(Delegates)
      /\ Len(result'.delegates) = Len(calls) + 1
      /\ result'.delegates[Len(calls) + 1] = d
      /\ \A j \in 1 .. Len(calls) : result'.delegates[j] = result.delegates[j]
      /\ result'.confidence = k
  BY <1>2, <1>3, AppendProperties
<1>6. EvalTypeOK'
  BY <1>2, <1>4, <1>5 DEF EvalInv, EvalTypeOK
<1>7. Noted'
  <2>1. \A j \in 1 .. Len(calls') : j = Len(calls) + 1 \/ j \in 1 .. Len(calls)
    BY <1>3, <1>4
  <2>2. calls' # <<>>
    BY <1>3, <1>4, EmptySeq
  <2> QED BY <1>1, <1>3, <1>4, <1>5, <2>1, <2>2 DEF EvalInv, Noted
<1>8. Judged' /\ ConfidenceIsItsOwn' /\ ExitIffRouted'
  BY <1>2 DEF EvalInv, Judged, ConfidenceIsItsOwn, ExitIffRouted
<1> QED BY <1>6, <1>7, <1>8 DEF EvalInv

LEMMA EndStreamInv == ASSUME EvalInv, EndStream PROVE EvalInv'
<1> DEFINE v == VerdictFor(Cases[at], result)
           k == ConfidenceVerdictFor(Cases[at], result)
           o == [calls |-> calls, verdict |-> v,
                 confidence |-> k]
<1>1. /\ outcomes' = Append(outcomes, o) /\ at' = at + 1
      /\ stream = "open" /\ stream' = "closed" /\ UNCHANGED <<calls, result, exit>>
  BY DEF EndStream
<1>2. at \in 1 .. Len(Cases) /\ exit = "none" /\ at \in Nat
      /\ Len(outcomes) = at - 1 /\ outcomes \in Seq(Outcomes)
      /\ calls \in Seq(Calls)
  BY <1>1, EvalTyped DEF EvalInv, EvalTypeOK
<1>3. /\ v \in {"PASS", "FAIL", "OBSERVE"}
      /\ v = "FAIL" <=> ~Routed(Cases[at], calls)
  BY <1>2, VerdictSound DEF EvalInv
<1>4. /\ k \in {"PASS", "FAIL", "unchecked"}
      /\ k = "PASS" => /\ calls # <<>>
                       /\ calls[Len(calls)].confidence = ExpectedConfidence(Cases[at])
  BY <1>2, ConfidenceSound DEF EvalInv
<1> HIDE DEF v, k
<1>5. /\ o \in Outcomes /\ o.verdict = v /\ o.confidence = k /\ o.calls = calls
  BY <1>2, <1>3, <1>4 DEF Outcomes
<1> HIDE DEF o
<1>6. /\ outcomes' \in Seq(Outcomes) /\ Len(outcomes') = at /\ outcomes'[at] = o
      /\ \A i \in 1 .. Len(outcomes) : outcomes'[i] = outcomes[i]
  <2>1. /\ outcomes' \in Seq(Outcomes) /\ Len(outcomes') = Len(outcomes) + 1
        /\ outcomes'[Len(outcomes) + 1] = o
        /\ \A i \in 1 .. Len(outcomes) : outcomes'[i] = outcomes[i]
    BY <1>1, <1>2, <1>5, AppendProperties
  <2> QED BY <1>2, <2>1
<1>7. \A i \in 1 .. Len(outcomes') : i = at \/ i \in 1 .. Len(outcomes)
  BY <1>2, <1>6
<1>8. EvalTypeOK'
  <2>1. Len(Cases) \in Nat /\ at' \in 1 .. Len(Cases) + 1 /\ at = at' - 1
    BY <1>1, <1>2, CasesAssumption
  <2> QED BY <1>1, <1>6, <2>1 DEF EvalInv, EvalTypeOK
<1>9. Noted'
  BY <1>1 DEF EvalInv, Noted
<1>10. Judged'
  BY <1>3, <1>5, <1>6, <1>7 DEF EvalInv, Judged
<1>11. ConfidenceIsItsOwn'
  BY <1>4, <1>5, <1>6, <1>7 DEF EvalInv, ConfidenceIsItsOwn
<1>12. ExitIffRouted'
  BY <1>1, <1>2 DEF ExitIffRouted
<1> QED BY <1>8, <1>9, <1>10, <1>11, <1>12 DEF EvalInv

LEMMA RaisesInv == ASSUME EvalInv, Raises PROVE EvalInv'
<1>1. /\ stream = "open" /\ stream' = "closed" /\ exit' = "1"
      /\ UNCHANGED <<at, calls, result, outcomes>>
  BY DEF Raises
<1>2. EvalTypeOK' /\ Noted' /\ Judged' /\ ConfidenceIsItsOwn'
  BY <1>1 DEF EvalInv, EvalTypeOK, Noted, Judged, ConfidenceIsItsOwn
<1>3. Len(outcomes) # Len(Cases)
  <2>1. at <= Len(Cases) /\ Len(outcomes) = at - 1
    BY <1>1 DEF EvalInv, EvalTypeOK
  <2> QED BY <2>1, EvalTyped DEF EvalInv
<1>4. ExitIffRouted'
  BY <1>1, <1>3 DEF ExitIffRouted
<1> QED BY <1>2, <1>4 DEF EvalInv

LEMMA FinishInv == ASSUME EvalInv, Finish PROVE EvalInv'
<1>1. /\ exit' = (IF Failed = {} THEN "0" ELSE "1") /\ at > Len(Cases)
      /\ stream = "closed" /\ UNCHANGED <<at, stream, calls, result, outcomes>>
  BY DEF Finish
<1>2. EvalTypeOK' /\ Noted' /\ Judged' /\ ConfidenceIsItsOwn'
  BY <1>1 DEF EvalInv, EvalTypeOK, Noted, Judged, ConfidenceIsItsOwn
<1>3. Len(outcomes) = Len(Cases)
  <2>1. at \in 1 .. Len(Cases) + 1 /\ Len(outcomes) = at - 1
    BY DEF EvalInv, EvalTypeOK
  <2> QED BY <1>1, <2>1, EvalTyped DEF EvalInv
<1>4. \A i \in 1 .. Len(outcomes) : i \in Failed <=> outcomes[i].verdict = "FAIL"
  BY EvalTyped DEF EvalInv, Failed, Outcomes
<1>5. Failed = {} <=>
        \A i \in 1 .. Len(outcomes) : Routed(Cases[i], outcomes[i].calls)
  BY <1>4 DEF EvalInv, Judged, Failed
<1>6. ExitIffRouted'
  BY <1>1, <1>3, <1>5 DEF ExitIffRouted
<1> QED BY <1>2, <1>6 DEF EvalInv

LEMMA EvalStep == EvalInv /\ [Next]_vars => EvalInv'
<1> SUFFICES ASSUME EvalInv, [Next]_vars PROVE EvalInv'
  OBVIOUS
<1>1. CASE UNCHANGED vars
  BY <1>1 DEF vars, EvalInv, EvalTypeOK, Noted, Judged, ConfidenceIsItsOwn,
     ExitIffRouted
<1> QED BY <1>1, AskInv, ToolUseInv, EndStreamInv, RaisesInv, FinishInv DEF Next

-----------------------------------------------------------------------------
(* The invariant behind the exit code holds for any dataset and answers. *)
THEOREM EvalInvariance == Spec => []EvalInv
<1> QED BY EvalInit, EvalStep, PTL DEF Spec

(* Outcomes and what has been noted stay well formed. *)
THEOREM EvalTypeCorrect == Spec => []EvalTypeOK
<1>1. EvalInv => EvalTypeOK
  BY DEF EvalInv
<1> QED BY <1>1, EvalInvariance, PTL

(* The build is green exactly if every case was routed as the dataset      *)
(* wants, whatever the model's answers and their confidence.               *)
THEOREM ExitsAreRight == Spec => []ExitIffRouted
<1>1. EvalInv => ExitIffRouted
  BY DEF EvalInv
<1> QED BY <1>1, EvalInvariance, PTL

(* No confidence is judged that another case's answer gave. *)
THEOREM ConfidencesAreOwn == Spec => []ConfidenceIsItsOwn
<1>1. EvalInv => ConfidenceIsItsOwn
  BY DEF EvalInv
<1> QED BY <1>1, EvalInvariance, PTL
=============================================================================
