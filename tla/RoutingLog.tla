----------------------------- MODULE RoutingLog -----------------------------
(***************************************************************************)
(* The Supervisor's routing decisions and their review: run_supervisor     *)
(* streams one turn of a model that may call the delegate_to_* tools, and  *)
(* at the end of the stream records one row; reviewers list unreviewed     *)
(* rows and mark them; calibration_report.py compares the two confidences. *)
(*                                                                         *)
(* Abstracted: rationale and texts; a row's request_excerpt is the run it  *)
(* came from; created_at is the position in the log.                       *)
(***************************************************************************)
EXTENDS Naturals, Sequences, FiniteSets

CONSTANTS
  Runs,             \* calls of run_supervisor, one prompt each
  Reviewers,        \* people at review_routing_log.py
  Limit,            \* the LIMIT of one listing for review
  MinReviewed,      \* MIN_REVIEWED_FOR_VERDICT of calibration_report.py
  MaxTurns,         \* max_turns: how many delegate calls one run may make
  FailuresAllowed   \* may a stream or an INSERT fail?

ASSUME LimitAssumption ==
  Limit \in Nat \ {0} /\ MinReviewed \in Nat \ {0} /\ MaxTurns \in Nat
ASSUME FailureAssumption == FailuresAllowed \in BOOLEAN

VARIABLES
  log,   \* supervisor_routing_log, oldest row first
  run,   \* run_supervisor's locals, for each run
  desk   \* the rows each reviewer has listed and not marked yet

vars == <<log, run, desk>>

Delegates == {"order_renewal", "customer_onboarding"}

(* The confidence of a tool call; the model may leave the argument out. *)
Confidences == {"high", "low", "absent"}

Verdicts == {"correct", "incorrect"}

Nobody == [delegate |-> "none", confidence |-> "absent"]

(* calls is what the stream held; called is what the loop still remembers  *)
(* of it. *)
NewRun == [pc |-> "new", calls |-> <<>>, called |-> Nobody]

Init ==
  /\ log = <<>>
  /\ run = [r \in Runs |-> NewRun]
  /\ desk = [v \in Reviewers |-> {}]

-----------------------------------------------------------------------------
(* Queries on the table. *)

RowIds == 1 .. Len(log)

Unreviewed(bucket) ==
  {i \in RowIds : /\ log[i].verdict = "none"
                  /\ bucket \in {"any", log[i].confidence}}

(* Faulty: rows that have their verdict are listed again. *)
ListForReviewAll(bucket, limit) ==
  {i \in RowIds : bucket \in {"any", log[i].confidence} /\ i <= limit}

(* list_for_review: oldest first, at most limit rows. *)
ListForReview(bucket, limit) ==
  {i \in Unreviewed(bucket) :
     Cardinality({j \in Unreviewed(bucket) : j < i}) < limit}

Bucket(k) == {i \in RowIds : log[i].confidence = k}

(* Faulty: what nobody has reviewed yet counts as reviewed. *)
TallyAll(k) ==
  [reviewed |-> Cardinality(Bucket(k)),
   wrong |-> Cardinality({i \in Bucket(k) : log[i].verdict # "correct"})]

(* SupervisorRoutingLog.calibration_report, one bucket of it. *)
Tally(k) ==
  [reviewed |-> Cardinality({i \in Bucket(k) : log[i].verdict # "none"}),
   wrong |-> Cardinality({i \in Bucket(k) : log[i].verdict = "incorrect"})]

(* What calibration_report.py prints: whether low calls are wrong more     *)
(* often than high ones, once enough of both were reviewed.                *)
Calibration ==
  LET high == Tally("high")
      low == Tally("low")
  IN  CASE high.reviewed < MinReviewed \/ low.reviewed < MinReviewed -> "too few"
        [] low.wrong * high.reviewed > high.wrong * low.reviewed -> "calibrated"
        [] OTHER -> "not calibrated"

-----------------------------------------------------------------------------
(* run_supervisor. *)

BeginRun(r) ==
  /\ run[r].pc = "new"
  /\ run' = [run EXCEPT ![r] = [@ EXCEPT !.pc = "streaming"]]
  /\ UNCHANGED <<log, desk>>

(* Faulty: a call without a confidence keeps the one before it. *)
RememberedOrKept(called, d, k) ==
  [delegate |-> d, confidence |-> IF k = "absent" THEN called.confidence ELSE k]

(* Each ToolUseBlock overwrites what the loop remembers. *)
Remembered(called, d, k) == [delegate |-> d, confidence |-> k]

Delegate(r, d, k) ==
  /\ run[r].pc = "streaming"
  /\ Len(run[r].calls) < MaxTurns
  /\ run' = [run EXCEPT ![r] =
       [@ EXCEPT !.calls = Append(run[r].calls, [delegate |-> d, confidence |-> k]),
                 !.called = Remembered(run[r].called, d, k)]]
  /\ UNCHANGED <<log, desk>>

(* Faulty: without a confidence there is nothing to log. *)
EndStreamIfConfident(r) ==
  /\ run[r].pc = "streaming"
  /\ run' = [run EXCEPT ![r] =
       [@ EXCEPT !.pc = IF run[r].called.confidence = "absent"
                        THEN "done" ELSE "recording"]]
  /\ UNCHANGED <<log, desk>>

(* The stream is over: record the delegation, or nothing to log. *)
EndStream(r) ==
  /\ run[r].pc = "streaming"
  /\ run' = [run EXCEPT ![r] =
       [@ EXCEPT !.pc = IF run[r].called = Nobody THEN "done"
                                                  ELSE "recording"]]
  /\ UNCHANGED <<log, desk>>

(* Faulty: the confidence is inserted as the model gave it. *)
RecordRaw(r, end) ==
  /\ run[r].pc = "recording"
  /\ end = "failed" => FailuresAllowed
  /\ log' = Append(log, [request |-> r, delegate |-> run[r].called.delegate,
                         confidence |-> run[r].called.confidence,
                         verdict |-> "none"])
  /\ run' = [run EXCEPT ![r] = [@ EXCEPT !.pc = end]]
  /\ UNCHANGED desk

(* SupervisorRoutingLog.record: "confidence or 'unknown'".  The row may be *)
(* committed and the answer to the commit lost, which raises.              *)
Record(r, end) ==
  LET k == run[r].called.confidence
      row == [request |-> r, delegate |-> run[r].called.delegate,
              confidence |-> IF k = "absent" THEN "unknown" ELSE k,
              verdict |-> "none"]
  IN  /\ run[r].pc = "recording"
      /\ end = "failed" => FailuresAllowed
      /\ log' = Append(log, row)
      /\ run' = [run EXCEPT ![r] = [@ EXCEPT !.pc = end]]
      /\ UNCHANGED desk

(* query() or record() raises before there is a row, or the process is     *)
(* killed. *)
RunFails(r) ==
  /\ FailuresAllowed
  /\ run[r].pc \in {"streaming", "recording"}
  /\ run' = [run EXCEPT ![r] = [@ EXCEPT !.pc = "failed"]]
  /\ UNCHANGED <<log, desk>>

-----------------------------------------------------------------------------
(* Review. *)

(* review_routing_log.py list, of one bucket or of all. *)
ListRows(v, bucket) ==
  /\ desk' = [desk EXCEPT ![v] = ListForReview(bucket, Limit)]
  /\ UNCHANGED <<log, run>>

(* review_routing_log.py mark: an UPDATE of that row, whatever it holds. *)
MarkReviewed(v, i, verdict) ==
  /\ i \in desk[v]
  /\ log' = [log EXCEPT ![i].verdict = verdict]
  /\ desk' = [desk EXCEPT ![v] = @ \ {i}]
  /\ UNCHANGED run

RunNext(r) ==
  \/ BeginRun(r)
  \/ \E d \in Delegates, k \in Confidences : Delegate(r, d, k)
  \/ EndStream(r)
  \/ \E end \in {"done", "failed"} : Record(r, end)
  \/ RunFails(r)

ReviewNext(v) ==
  \/ \E bucket \in {"any", "high", "low"} : ListRows(v, bucket)
  \/ \E i \in desk[v], verdict \in Verdicts : MarkReviewed(v, i, verdict)

Next ==
  \/ \E r \in Runs : RunNext(r)
  \/ \E v \in Reviewers : ReviewNext(v)

Spec == Init /\ [][Next]_vars

(* The reviewers keep sampling without a filter, and decide on a row they  *)
(* are shown again and again.                                              *)
Fairness ==
  /\ \A v \in Reviewers : WF_vars(ListRows(v, "any"))
  /\ \A i \in 1 .. Cardinality(Runs) :
       SF_vars(\E v \in Reviewers, verdict \in Verdicts :
                 MarkReviewed(v, i, verdict))

FairSpec == Spec /\ Fairness

-----------------------------------------------------------------------------
(* Properties. *)

Calls == [delegate : Delegates, confidence : Confidences]

Rows == [request : Runs, delegate : Delegates,
         confidence : {"high", "low", "unknown"},
         verdict : Verdicts \cup {"none"}]

RunStates ==
  [pc : {"new", "streaming", "recording", "done", "failed"},
   calls : Seq(Calls), called : Calls \cup {Nobody}]

(* Rows and locals hold what their columns may hold, and a reviewer only   *)
(* has rows that exist. *)
RoutingTypeOK ==
  /\ log \in Seq(Rows)
  /\ run \in [Runs -> RunStates]
  /\ desk \in [Reviewers -> SUBSET RowIds]

LastCall(r) == run[r].calls[Len(run[r].calls)]

(* A row is one call: its delegate and its confidence come from the same   *)
(* tool call of its run, never from two of them ("records which delegate   *)
(* was called plus its confidence", run_supervisor).  It does not say that *)
(* every call has a row: of two calls of one run, the first leaves none.   *)
RowIsOneCall ==
  \A i \in RowIds :
    \E n \in DOMAIN run[log[i].request].calls :
      LET call == run[log[i].request].calls[n]
      IN  /\ log[i].delegate = call.delegate
          /\ log[i].confidence = IF call.confidence = "absent"
                                 THEN "unknown" ELSE call.confidence

(* Every run that finished after delegating left a row, and one that       *)
(* declined left none ("a declined request has nothing to log").           *)
LoggedIffDelegated ==
  \A r \in Runs :
    /\ run[r].pc = "done" /\ run[r].calls # <<>> =>
         \E i \in RowIds : log[i].request = r
    /\ run[r].calls = <<>> => \A i \in RowIds : log[i].request # r

(* What a single reviewer decided stands: his listings never bring a       *)
(* reviewed row back to him ("Once reviewed, it drops out of the           *)
(* unreviewed listing").                                                   *)
VerdictStands ==
  [][\A i \in RowIds : log[i].verdict # "none" =>
       log'[i].verdict = log[i].verdict]_vars

(* No row waits for ever, whatever the LIMIT: oldest first lets none of    *)
(* them be passed over.                                                    *)
EveryRowReviewed ==
  \A i \in 1 .. Cardinality(Runs) :
    (i \in RowIds) ~> (i \in RowIds /\ log[i].verdict # "none")

(* The report calls the signal worth trusting only on evidence: a reviewer *)
(* found a low call wrong and a high one right, each of them a call some   *)
(* run made with that confidence ("a "low" call is meaningfully more       *)
(* likely to be wrong than a "high" one", calibration_report.py).          *)
CalibratedOnEvidence ==
  Calibration = "calibrated" =>
    \E i \in Bucket("low"), j \in Bucket("high") :
      /\ log[i].verdict = "incorrect" /\ log[j].verdict = "correct"
      /\ LastCall(log[i].request).confidence = "low"
      /\ LastCall(log[j].request).confidence = "high"
=============================================================================
