-------------------------- MODULE RoutingLogProofs --------------------------
(* The routing log's audit trail, for any number of runs and reviewers.    *)
EXTENDS RoutingLog, SequenceTheorems, FiniteSetTheorems, TLAPS

(* What the loop of run_supervisor remembers is the last call it saw, and  *)
(* a row belongs to a run that is over.                                    *)
Trail ==
  /\ \A r \in Runs : run[r].called = IF run[r].calls = <<>> THEN Nobody
                                                            ELSE LastCall(r)
  /\ \A r \in Runs : run[r].pc = "recording" => run[r].calls # <<>>
  /\ \A i \in RowIds : run[log[i].request].pc \in {"done", "failed"}

(* A row is the last call of its run, and the only row of that run. *)
RowIsLastCall ==
  /\ \A i \in RowIds :
       LET r == log[i].request
       IN  /\ run[r].calls # <<>>
           /\ log[i].delegate = LastCall(r).delegate
           /\ log[i].confidence = (IF LastCall(r).confidence = "absent"
                                   THEN "unknown" ELSE LastCall(r).confidence)
  /\ \A i, j \in RowIds : log[i].request = log[j].request => i = j

Audit == RoutingTypeOK /\ Trail /\ RowIsLastCall /\ LoggedIffDelegated

-----------------------------------------------------------------------------
LEMMA NobodyApart == Nobody \notin Calls
BY DEF Nobody, Calls, Delegates

LEMMA LogTyped ==
  ASSUME RoutingTypeOK
  PROVE  /\ log \in Seq(Rows) /\ Len(log) \in Nat
         /\ \A i \in RowIds : log[i] \in Rows /\ log[i].request \in Runs
         /\ run \in [Runs -> RunStates]
         /\ \A r \in Runs : run[r] \in RunStates /\ run[r].calls \in Seq(Calls)
         /\ desk \in [Reviewers -> SUBSET RowIds] /\ RowIds \subseteq Nat
<1>1. log \in Seq(Rows) /\ run \in [Runs -> RunStates]
      /\ desk \in [Reviewers -> SUBSET RowIds]
  BY DEF RoutingTypeOK
<1>2. \A i \in RowIds : log[i] \in Rows
  BY <1>1, ElementOfSeq DEF RowIds
<1>3. \A i \in RowIds : log[i].request \in Runs
  BY <1>2 DEF Rows
<1> QED BY <1>1, <1>2, <1>3 DEF RunStates, RowIds

LEMMA AuditInit == Init => Audit
<1> SUFFICES ASSUME Init PROVE Audit
  OBVIOUS
<1>1. log = <<>> /\ log \in Seq(Rows) /\ Len(log) = 0 /\ RowIds = {}
  BY EmptySeq DEF Init, RowIds
<1>2. NewRun \in RunStates
  BY EmptySeq DEF NewRun, RunStates
<1>3. \A r \in Runs : run[r] = NewRun
  BY DEF Init
<1>4. RoutingTypeOK
  BY <1>1, <1>2 DEF Init, RoutingTypeOK
<1>5. Trail
  BY <1>1, <1>3 DEF Trail, NewRun
<1>6. RowIsLastCall /\ LoggedIffDelegated
  BY <1>1, <1>3 DEF RowIsLastCall, LoggedIffDelegated, NewRun
<1> QED BY <1>4, <1>5, <1>6 DEF Audit

(* A step of run r that leaves the table and its calls alone, and does not *)
(* return from a run that delegated without its row.                       *)
LEMMA QuietRun ==
  ASSUME Audit, NEW r \in Runs, NEW s \in RunStates,
         run' = [run EXCEPT ![r] = s], UNCHANGED <<log, desk>>,
         s.calls = run[r].calls, s.called = run[r].called,
         s.pc = "recording" => run[r].calls # <<>>,
         run[r].pc \in {"done", "failed"} => s.pc \in {"done", "failed"},
         s.pc = "done" /\ run[r].calls # <<>> =>
           run[r].pc = "done"
  PROVE  Audit'
<1>1. /\ run' \in [Runs -> RunStates] /\ run'[r] = s
      /\ \A q \in Runs : q # r => run'[q] = run[q]
  BY LogTyped DEF Audit
<1>2. \A q \in Runs : run'[q].calls = run[q].calls /\ run'[q].called = run[q].called
  BY <1>1
<1>3. RowIds' = RowIds
  BY DEF RowIds
<1>4. RoutingTypeOK'
  BY <1>1, <1>3 DEF Audit, RoutingTypeOK
<1>5. Trail'
  BY <1>1, <1>2, <1>3, LogTyped DEF Audit, Trail, LastCall
<1>6. RowIsLastCall'
  BY <1>2, <1>3, LogTyped DEF Audit, RowIsLastCall, LastCall
<1>7. LoggedIffDelegated'
  BY <1>1, <1>2, <1>3 DEF Audit, LoggedIffDelegated
<1> QED BY <1>4, <1>5, <1>6, <1>7 DEF Audit

LEMMA BeginRunAudit == ASSUME Audit, NEW r \in Runs, BeginRun(r) PROVE Audit'
<1> DEFINE s == [run[r] EXCEPT !.pc = "streaming"]
<1>1. run[r] \in RunStates
  BY LogTyped DEF Audit
<1>2. run[r].pc = "new" /\ run' = [run EXCEPT ![r] = s] /\ UNCHANGED <<log, desk>>
  BY DEF BeginRun
<1>3. /\ s \in RunStates /\ s.calls = run[r].calls /\ s.called = run[r].called
      /\ s.pc = "streaming"
  BY <1>1 DEF RunStates
<1> HIDE DEF s
<1>4. /\ s.pc \notin {"recording", "done"}
      /\ run[r].pc \notin {"done", "failed"}
  BY <1>2, <1>3
<1> QED BY <1>2, <1>3, <1>4, QuietRun

LEMMA DelegateAudit ==
  ASSUME Audit, NEW r \in Runs, NEW d \in Delegates, NEW k \in Confidences,
         Delegate(r, d, k)
  PROVE  Audit'
<1> DEFINE c == [delegate |-> d, confidence |-> k]
           s == [run[r] EXCEPT !.calls = Append(run[r].calls, c), !.called = c]
<1>1. c \in Calls
  BY DEF Calls
<1> HIDE DEF c
<1>2. /\ run[r].pc = "streaming" /\ run' = [run EXCEPT ![r] = s]
      /\ UNCHANGED <<log, desk>>
  BY DEF Delegate, Remembered, c
<1>3. run[r] \in RunStates /\ run[r].calls \in Seq(Calls)
  BY LogTyped DEF Audit
<1>4. /\ Append(run[r].calls, c) \in Seq(Calls)
      /\ Append(run[r].calls, c) # <<>>
      /\ Append(run[r].calls, c)[Len(Append(run[r].calls, c))] = c
  BY <1>1, <1>3, AppendProperties
<1>5. s \in RunStates /\ s.pc = "streaming" /\ s.called = c
      /\ s.calls = Append(run[r].calls, c)
  BY <1>1, <1>2, <1>3, <1>4 DEF RunStates
<1> HIDE DEF s
<1>6. /\ run' \in [Runs -> RunStates] /\ run'[r] = s
      /\ \A q \in Runs : q # r => run'[q] = run[q]
  BY <1>2, <1>5, LogTyped DEF Audit
<1>7. RowIds' = RowIds
  BY <1>2 DEF RowIds
<1>8. \A i \in RowIds : log[i].request # r
  BY <1>2 DEF Audit, Trail
<1>9. RoutingTypeOK'
  BY <1>2, <1>6, <1>7 DEF Audit, RoutingTypeOK
<1>10. Trail'
  BY <1>2, <1>4, <1>5, <1>6, <1>7, <1>8, LogTyped DEF Audit, Trail, LastCall
<1>11. RowIsLastCall'
  BY <1>2, <1>6, <1>7, <1>8, LogTyped DEF Audit, RowIsLastCall, LastCall
<1>12. LoggedIffDelegated'
  BY <1>2, <1>4, <1>5, <1>6, <1>7 DEF Audit, LoggedIffDelegated
<1> QED BY <1>9, <1>10, <1>11, <1>12 DEF Audit

LEMMA EndStreamAudit == ASSUME Audit, NEW r \in Runs, EndStream(r) PROVE Audit'
<1> DEFINE pc == IF run[r].called = Nobody THEN "done" ELSE "recording"
           s == [run[r] EXCEPT !.pc = pc]
<1>1. run[r] \in RunStates /\ run[r].calls \in Seq(Calls)
  BY LogTyped DEF Audit
<1>2. /\ run[r].pc = "streaming" /\ run' = [run EXCEPT ![r] = s]
      /\ UNCHANGED <<log, desk>>
  BY DEF EndStream
<1>3. run[r].calls # <<>> <=> run[r].called # Nobody
  <2>1. CASE run[r].calls = <<>>
    BY <2>1 DEF Audit, Trail
  <2>2. CASE run[r].calls # <<>>
    <3>1. LastCall(r) \in Calls
      BY <1>1, <2>2, ElementOfSeq, EmptySeq DEF LastCall
    <3> QED BY <2>2, <3>1, NobodyApart DEF Audit, Trail
  <2> QED BY <2>1, <2>2
<1>4. /\ pc \in {"done", "recording"}
      /\ pc = "recording" <=> run[r].calls # <<>>
  BY <1>3
<1> HIDE DEF pc
<1>5. /\ s \in RunStates /\ s.calls = run[r].calls /\ s.called = run[r].called
      /\ s.pc = pc
  BY <1>1, <1>4 DEF RunStates
<1> HIDE DEF s
<1> QED BY <1>2, <1>4, <1>5, QuietRun

LEMMA RecordAudit ==
  ASSUME Audit, NEW r \in Runs, NEW end \in {"done", "failed"}, Record(r, end)
  PROVE  Audit'
<1> DEFINE k == run[r].called.confidence
           row == [request |-> r, delegate |-> run[r].called.delegate,
                   confidence |-> IF k = "absent" THEN "unknown" ELSE k,
                   verdict |-> "none"]
           s == [run[r] EXCEPT !.pc = end]
           N == Len(log) + 1
<1>1. run[r] \in RunStates /\ run[r].calls \in Seq(Calls) /\ log \in Seq(Rows)
      /\ Len(log) \in Nat
  BY LogTyped DEF Audit
<1>2. /\ run[r].pc = "recording" /\ log' = Append(log, row)
      /\ run' = [run EXCEPT ![r] = s] /\ desk' = desk
  BY DEF Record
<1>3. run[r].calls # <<>> /\ run[r].called = LastCall(r)
  BY <1>2 DEF Audit, Trail
<1>4. LastCall(r) \in Calls
  BY <1>1, <1>3, ElementOfSeq, EmptySeq DEF LastCall
<1>5. /\ row \in Rows /\ row.request = r /\ row.delegate = LastCall(r).delegate
      /\ row.confidence = (IF LastCall(r).confidence = "absent"
                           THEN "unknown" ELSE LastCall(r).confidence)
  BY <1>3, <1>4 DEF Rows, Calls, Confidences
<1> HIDE DEF row
<1>6. /\ log' \in Seq(Rows) /\ Len(log') = N /\ log'[N] = row
      /\ \A i \in 1 .. Len(log) : log'[i] = log[i]
  BY <1>1, <1>2, <1>5, AppendProperties
<1>7. /\ s \in RunStates /\ s.pc = end
      /\ s.calls = run[r].calls /\ s.called = run[r].called
  BY <1>1 DEF RunStates
<1> HIDE DEF s
<1>8. /\ run' \in [Runs -> RunStates] /\ run'[r] = s
      /\ \A q \in Runs : /\ q # r => run'[q] = run[q]
                         /\ run'[q].calls = run[q].calls
                         /\ run'[q].called = run[q].called
  BY <1>2, <1>7, LogTyped DEF Audit
<1>9. /\ RowIds' = RowIds \cup {N} /\ N \notin RowIds
      /\ \A i \in RowIds : log'[i] = log[i]
  BY <1>1, <1>6 DEF RowIds
<1>10. \A i \in RowIds : log[i].request # r
  BY <1>2 DEF Audit, Trail
<1>11. RoutingTypeOK'
  BY <1>2, <1>6, <1>8, <1>9 DEF Audit, RoutingTypeOK
<1> HIDE DEF N
<1>12. Trail'
  <2>1. ASSUME NEW q \in Runs
        PROVE  run'[q].called = IF run'[q].calls = <<>> THEN Nobody
                                  ELSE run'[q].calls[Len(run'[q].calls)]
    BY <1>8 DEF Audit, Trail, LastCall
  <2>2. ASSUME NEW q \in Runs, run'[q].pc = "recording"
        PROVE  run'[q].calls # <<>>
    BY <1>3, <1>8, <2>2 DEF Audit, Trail
  <2>3. ASSUME NEW i \in RowIds'
        PROVE  run'[log'[i].request].pc \in {"done", "failed"}
    <3>1. CASE i = N
      BY <1>5, <1>6, <1>7, <1>8, <3>1
    <3>2. CASE i \in RowIds
      <4>1. log'[i] = log[i] /\ log[i].request \in Runs
        BY <1>9, <3>2, LogTyped DEF Audit
      <4>2. run[log[i].request].pc \in {"done", "failed"}
        BY <3>2 DEF Audit, Trail
      <4> QED BY <1>7, <1>8, <4>1, <4>2
    <3> QED BY <1>9, <2>3, <3>1, <3>2
  <2> QED BY <2>1, <2>2, <2>3 DEF Trail, LastCall
<1>13. RowIsLastCall'
  <2>1. ASSUME NEW q \in Runs PROVE LastCall(q)' = LastCall(q)
    BY <1>8 DEF LastCall
  <2>2. ASSUME NEW i \in RowIds'
        PROVE  /\ log'[i].request \in Runs /\ run'[log'[i].request].calls # <<>>
               /\ log'[i].delegate = LastCall(log'[i].request).delegate
               /\ log'[i].confidence =
                    (IF LastCall(log'[i].request).confidence = "absent"
                     THEN "unknown" ELSE LastCall(log'[i].request).confidence)
    <3>1. CASE i = N
      BY <1>3, <1>5, <1>6, <1>8, <3>1
    <3>2. CASE i \in RowIds
      BY <1>8, <1>9, <3>2, LogTyped DEF Audit, RowIsLastCall
    <3> QED BY <1>9, <2>2, <3>1, <3>2
  <2>3. ASSUME NEW i \in RowIds', NEW j \in RowIds',
               log'[i].request = log'[j].request
        PROVE  i = j
    BY <1>5, <1>6, <1>9, <1>10, <2>3 DEF Audit, RowIsLastCall
  <2> QED BY <2>1, <2>2, <2>3 DEF RowIsLastCall, LastCall
<1>14. LoggedIffDelegated'
  <2>1. ASSUME NEW q \in Runs, run'[q].pc = "done",
               run'[q].calls # <<>>
        PROVE  \E i \in RowIds' : log'[i].request = q
    BY <1>5, <1>6, <1>8, <1>9, <2>1 DEF Audit, LoggedIffDelegated
  <2>2. ASSUME NEW q \in Runs, run'[q].calls = <<>>
        PROVE  \A i \in RowIds' : log'[i].request # q
    BY <1>3, <1>5, <1>6, <1>8, <1>9, <2>2 DEF Audit, LoggedIffDelegated
  <2> QED BY <2>1, <2>2 DEF LoggedIffDelegated
<1> QED BY <1>11, <1>12, <1>13, <1>14 DEF Audit

LEMMA RunFailsAudit == ASSUME Audit, NEW r \in Runs, RunFails(r) PROVE Audit'
<1> DEFINE s == [run[r] EXCEPT !.pc = "failed"]
<1>1. run[r] \in RunStates
  BY LogTyped DEF Audit
<1>2. /\ run[r].pc \in {"streaming", "recording"}
      /\ run' = [run EXCEPT ![r] = s] /\ UNCHANGED <<log, desk>>
  BY DEF RunFails
<1>3. /\ s \in RunStates /\ s.calls = run[r].calls /\ s.called = run[r].called
      /\ s.pc = "failed"
  BY <1>1 DEF RunStates
<1> HIDE DEF s
<1> QED BY <1>2, <1>3, QuietRun

LEMMA ListRowsAudit ==
  ASSUME Audit, NEW v \in Reviewers, NEW bucket, ListRows(v, bucket)
  PROVE  Audit'
<1>1. ListForReview(bucket, Limit) \in SUBSET RowIds
  BY DEF ListForReview, Unreviewed
<1>2. RowIds' = RowIds /\ log' = log /\ run' = run
  BY DEF ListRows, RowIds
<1>3. RoutingTypeOK'
  BY <1>1, <1>2 DEF Audit, RoutingTypeOK, ListRows
<1> QED BY <1>2, <1>3 DEF Audit, Trail, RowIsLastCall, LoggedIffDelegated, LastCall

LEMMA MarkReviewedAudit ==
  ASSUME Audit, NEW v \in Reviewers, NEW i \in desk[v], NEW w \in Verdicts,
         MarkReviewed(v, i, w)
  PROVE  Audit'
<1> DEFINE row == [log[i] EXCEPT !.verdict = w]
<1>1. log' = [log EXCEPT ![i] = row] /\ run' = run
      /\ desk' = [desk EXCEPT ![v] = desk[v] \ {i}]
  BY DEF MarkReviewed
<1>2. i \in RowIds /\ i \in 1 .. Len(log) /\ log[i] \in Rows /\ log \in Seq(Rows)
  BY LogTyped DEF Audit, RowIds
<1>3. /\ row \in Rows /\ row.request = log[i].request
      /\ row.delegate = log[i].delegate /\ row.confidence = log[i].confidence
  BY <1>2 DEF Rows
<1> HIDE DEF row
<1>4. /\ log' \in Seq(Rows) /\ Len(log') = Len(log) /\ log'[i] = row
      /\ \A j \in 1 .. Len(log) : j # i => log'[j] = log[j]
  BY <1>1, <1>2, <1>3, ExceptSeq
<1>5. /\ RowIds' = RowIds
      /\ \A j \in RowIds : /\ log'[j].request = log[j].request
                           /\ log'[j].delegate = log[j].delegate
                           /\ log'[j].confidence = log[j].confidence
  BY <1>3, <1>4 DEF RowIds
<1>6. RoutingTypeOK'
  BY <1>1, <1>4, <1>5, LogTyped DEF Audit, RoutingTypeOK
<1>7. Trail' /\ RowIsLastCall' /\ LoggedIffDelegated'
  BY <1>1, <1>5 DEF Audit, Trail, RowIsLastCall, LoggedIffDelegated, LastCall
<1> QED BY <1>6, <1>7 DEF Audit

LEMMA AuditStep == Audit /\ [Next]_vars => Audit'
<1> SUFFICES ASSUME Audit, [Next]_vars PROVE Audit'
  OBVIOUS
<1>1. ASSUME NEW r \in Runs, RunNext(r) PROVE Audit'
  BY <1>1, BeginRunAudit, DelegateAudit, EndStreamAudit, RecordAudit,
     RunFailsAudit
  DEF RunNext
<1>2. ASSUME NEW v \in Reviewers, ReviewNext(v) PROVE Audit'
  BY <1>2, ListRowsAudit, MarkReviewedAudit DEF ReviewNext
<1>3. CASE UNCHANGED vars
  BY <1>3 DEF vars, Audit, RoutingTypeOK, Trail, RowIsLastCall,
     LoggedIffDelegated, LastCall, RowIds
<1> QED BY <1>1, <1>2, <1>3 DEF Next

-----------------------------------------------------------------------------
(* The audit trail holds however many prompts and reviewers there are.     *)
THEOREM AuditInvariance == Spec => []Audit
<1> QED BY AuditInit, AuditStep, PTL DEF Spec

(* Rows, runs and desks are always well formed. *)
THEOREM RoutingTyped == Spec => []RoutingTypeOK
<1>1. Audit => RoutingTypeOK
  BY DEF Audit
<1> QED BY <1>1, AuditInvariance, PTL

(* A row always pairs the delegate with the confidence of the very same    *)
(* tool call, however many calls its run made (run_supervisor).  Which of  *)
(* them it is follows from RowIsLastCall: the last.                        *)
THEOREM RowsAreOneCall == Spec => []RowIsOneCall
<1>1. ASSUME Audit PROVE RowIsOneCall
  <2> SUFFICES ASSUME NEW i \in RowIds
               PROVE  \E n \in DOMAIN run[log[i].request].calls :
                        LET call == run[log[i].request].calls[n]
                        IN  /\ log[i].delegate = call.delegate
                            /\ log[i].confidence =
                                 IF call.confidence = "absent"
                                 THEN "unknown" ELSE call.confidence
    BY DEF RowIsOneCall
  <2> DEFINE calls == run[log[i].request].calls
  <2>1. calls \in Seq(Calls) /\ calls # <<>>
    BY <1>1, LogTyped DEF Audit, RowIsLastCall
  <2>2. Len(calls) \in DOMAIN calls
    BY <2>1, EmptySeq
  <2> QED BY <1>1, <2>2 DEF Audit, RowIsLastCall, LastCall
<1> QED BY <1>1, AuditInvariance, PTL

(* A run that returns has a row exactly if it delegated. *)
THEOREM DelegationsLeaveARow == Spec => []LoggedIffDelegated
<1>1. Audit => LoggedIffDelegated
  BY DEF Audit
<1> QED BY <1>1, AuditInvariance, PTL

(* Only a bucket with a wrong row can have the higher wrong-rate, and only *)
(* one with a right row the lower. *)
LEMMA HigherRate ==
  ASSUME NEW lw \in Nat, NEW lr \in Nat, NEW hw \in Nat, NEW hr \in Nat,
         lw <= lr, hw <= hr, lw * hr > hw * lr
  PROVE  lw # 0 /\ hw < hr
<1>1. lw # 0
  <2>1. hw * lr \in Nat
    OBVIOUS
  <2> QED BY <2>1
<1>2. hw # hr
  <2>1. SUFFICES ASSUME hw = hr PROVE FALSE
    OBVIOUS
  <2>2. hr * lw <= hr * lr
    <3>1. PICK d \in Nat : lr = lw + d
      <4>1. lr - lw \in Nat /\ lr = lw + (lr - lw)
        OBVIOUS
      <4> QED BY <4>1
    <3>2. hr * lr = hr * lw + hr * d /\ hr * d \in Nat /\ hr * lw \in Nat
      BY <3>1
    <3> QED BY <3>2
  <2> QED BY <2>1, <2>2
<1> QED BY <1>1, <1>2

LEMMA TallySets ==
  ASSUME RoutingTypeOK, NEW k
  PROVE  LET seen == {i \in Bucket(k) : log[i].verdict # "none"}
             bad == {i \in Bucket(k) : log[i].verdict = "incorrect"}
         IN  /\ Tally(k).reviewed = Cardinality(seen)
             /\ Tally(k).wrong = Cardinality(bad)
             /\ IsFiniteSet(seen) /\ IsFiniteSet(bad) /\ bad \subseteq seen
             /\ Tally(k).reviewed \in Nat /\ Tally(k).wrong \in Nat
             /\ Tally(k).wrong <= Tally(k).reviewed
<1> DEFINE seen == {i \in Bucket(k) : log[i].verdict # "none"}
           bad == {i \in Bucket(k) : log[i].verdict = "incorrect"}
<1>1. IsFiniteSet(RowIds) /\ seen \subseteq RowIds /\ bad \subseteq seen
  <2>1. Len(log) \in Int /\ 1 \in Int
    BY LogTyped
  <2>2. IsFiniteSet(RowIds)
    BY <2>1, FS_Interval DEF RowIds
  <2> QED BY <2>2 DEF Bucket
<1>2. IsFiniteSet(seen) /\ IsFiniteSet(bad)
  BY <1>1, FS_Subset
<1>3. Tally(k).reviewed = Cardinality(seen) /\ Tally(k).wrong = Cardinality(bad)
  BY DEF Tally
<1> HIDE DEF seen, bad
<1>4. /\ Cardinality(seen) \in Nat /\ Cardinality(bad) \in Nat
      /\ Cardinality(bad) <= Cardinality(seen)
  BY <1>1, <1>2, FS_CardinalityType, FS_Subset
<1> QED BY <1>1, <1>2, <1>3, <1>4 DEF seen, bad

(* The report trusts the signal only when a low call was found wrong and a *)
(* high one right, whatever the threshold and however rows are sampled.    *)
THEOREM CalibrationGrounded == Spec => []CalibratedOnEvidence
<1>1. ASSUME Audit, Calibration = "calibrated"
      PROVE  \E i \in Bucket("low"), j \in Bucket("high") :
               /\ log[i].verdict = "incorrect" /\ log[j].verdict = "correct"
               /\ LastCall(log[i].request).confidence = "low"
               /\ LastCall(log[j].request).confidence = "high"
  <2> DEFINE high == Tally("high")
             low == Tally("low")
             seen == {i \in Bucket("high") : log[i].verdict # "none"}
             bad == {i \in Bucket("high") : log[i].verdict = "incorrect"}
             badLow == {i \in Bucket("low") : log[i].verdict = "incorrect"}
  <2>1. low.wrong * high.reviewed > high.wrong * low.reviewed
    BY <1>1 DEF Calibration
  <2>2. /\ high.reviewed = Cardinality(seen) /\ high.wrong = Cardinality(bad)
        /\ low.wrong = Cardinality(badLow) /\ bad \subseteq seen
        /\ high.reviewed \in Nat /\ high.wrong \in Nat
        /\ low.reviewed \in Nat /\ low.wrong \in Nat
        /\ low.wrong <= low.reviewed /\ high.wrong <= high.reviewed
    BY <1>1, TallySets DEF Audit
  <2> HIDE DEF high, low
  <2>3. low.wrong # 0 /\ high.wrong < high.reviewed
    BY <2>1, <2>2, HigherRate
  <2>4. badLow # {}
    BY <2>2, <2>3, FS_EmptySet
  <2>5. seen # bad
    <3> HIDE DEF seen, bad
    <3>1. Cardinality(bad) < Cardinality(seen) /\ Cardinality(seen) \in Nat
      BY <2>2, <2>3
    <3>2. ASSUME seen = bad PROVE FALSE
      <4>1. Cardinality(bad) = Cardinality(seen)
        BY <3>2
      <4> QED BY <3>1, <4>1
    <3> QED BY <3>2
  <2>6. PICK i \in Bucket("low") : log[i].verdict = "incorrect"
    BY <2>4
  <2>7. PICK j \in Bucket("high") :
          log[j].verdict # "none" /\ log[j].verdict # "incorrect"
    BY <2>2, <2>5
  <2>8. /\ i \in RowIds /\ log[i].confidence = "low"
        /\ j \in RowIds /\ log[j].confidence = "high"
    BY DEF Bucket
  <2>9. log[j].verdict = "correct"
    BY <1>1, <2>7, <2>8, LogTyped DEF Audit, Rows, Verdicts
  <2>10. /\ LastCall(log[i].request).confidence = "low"
         /\ LastCall(log[j].request).confidence = "high"
    BY <1>1, <2>8 DEF Audit, RowIsLastCall
  <2> QED BY <2>6, <2>7, <2>9, <2>10
<1>2. Audit => CalibratedOnEvidence
  BY <1>1 DEF CalibratedOnEvidence
<1> QED BY <1>2, AuditInvariance, PTL

-----------------------------------------------------------------------------
(* What one reviewer decided. *)

(* What a reviewer has in front of him has no verdict yet. *)
FreshDesks == \A v \in Reviewers : \A i \in desk[v] : log[i].verdict = "none"

(* A row keeps its place in the table, and its verdict unless a reviewer   *)
(* marks it. *)
LEMMA TableKept ==
  ASSUME Audit, [Next]_vars,
         \A v \in Reviewers : \A i \in desk[v], w \in Verdicts :
           ~MarkReviewed(v, i, w)
  PROVE  RowIds \subseteq RowIds' /\ \A i \in RowIds : log'[i] = log[i]
<1>1. log \in Seq(Rows) /\ Len(log) \in Nat
  BY LogTyped DEF Audit
<1>2. CASE log' = log
  BY <1>2 DEF RowIds
<1>3. ASSUME NEW r \in Runs, NEW end \in {"done", "failed"}, Record(r, end)
      PROVE  RowIds \subseteq RowIds' /\ \A i \in RowIds : log'[i] = log[i]
  <2>1. PICK row : log' = Append(log, row)
    BY <1>3 DEF Record
  <2>2. /\ Len(log') = Len(log) + 1
        /\ \A i \in 1 .. Len(log) : log'[i] = log[i]
    BY <1>1, <2>1
  <2> QED BY <1>1, <2>2 DEF RowIds
<1>4. (\E r \in Runs, end \in {"done", "failed"} : Record(r, end)) \/ log' = log
  BY DEF Next, vars, RunNext, ReviewNext, BeginRun, Delegate, EndStream, RunFails,
     ListRows
<1> QED BY <1>2, <1>3, <1>4

LEMMA FreshStep ==
  ASSUME \A v, w \in Reviewers : v = w, Audit, FreshDesks, [Next]_vars
  PROVE  FreshDesks'
<1>1. ASSUME NEW v \in Reviewers, NEW i \in desk[v], NEW w \in Verdicts,
             MarkReviewed(v, i, w)
      PROVE  FreshDesks'
  <2>1. /\ log' = [log EXCEPT ![i].verdict = w]
        /\ desk' = [desk EXCEPT ![v] = desk[v] \ {i}]
    BY <1>1 DEF MarkReviewed
  <2>2. desk \in [Reviewers -> SUBSET RowIds] /\ desk'[v] = desk[v] \ {i}
    BY <2>1, LogTyped DEF Audit
  <2>3. log \in Seq(Rows) /\ \A j \in RowIds : j # i => log'[j] = log[j]
    BY <2>1, LogTyped DEF Audit, RowIds
  <2> QED BY <2>2, <2>3 DEF FreshDesks
<1>2. ASSUME \A v \in Reviewers : \A i \in desk[v], w \in Verdicts :
               ~MarkReviewed(v, i, w)
      PROVE  FreshDesks'
  <2>1. RowIds \subseteq RowIds' /\ \A i \in RowIds : log'[i] = log[i]
    BY <1>2, TableKept
  <2>2. desk \in [Reviewers -> SUBSET RowIds]
    BY LogTyped DEF Audit
  <2>3. ASSUME NEW v \in Reviewers, NEW bucket, ListRows(v, bucket)
        PROVE  FreshDesks'
    <3>1. \A i \in ListForReview(bucket, Limit) :
            i \in RowIds /\ log[i].verdict = "none"
      BY DEF ListForReview, Unreviewed
    <3>2. desk' = [desk EXCEPT ![v] = ListForReview(bucket, Limit)] /\ log' = log
      BY <2>3 DEF ListRows
    <3> QED BY <2>2, <3>1, <3>2 DEF FreshDesks
  <2>4. (\E v \in Reviewers, bucket \in {"any", "high", "low"} : ListRows(v, bucket))
        \/ desk' = desk
    BY <1>2 DEF Next, vars, RunNext, ReviewNext, BeginRun, Delegate, EndStream,
       RunFails, Record
  <2>5. CASE desk' = desk
    BY <2>1, <2>2, <2>5 DEF FreshDesks
  <2> QED BY <2>3, <2>4, <2>5
<1> QED BY <1>1, <1>2

(* What a reviewer who works alone decided is never decided again, however *)
(* many runs record rows meanwhile and however he samples.                 *)
THEOREM LoneVerdictStands ==
  ASSUME \A v, w \in Reviewers : v = w PROVE Spec => VerdictStands
<1>1. Init => FreshDesks
  BY DEF Init, FreshDesks
<1>2. Audit /\ FreshDesks /\ [Next]_vars => FreshDesks'
  BY FreshStep
<1>3. ASSUME Audit, FreshDesks, [Next]_vars, NEW i \in RowIds,
             log[i].verdict # "none"
      PROVE  log'[i].verdict = log[i].verdict
  <2>1. CASE \E v \in Reviewers : \E j \in desk[v], w \in Verdicts :
               MarkReviewed(v, j, w)
    <3>1. PICK v \in Reviewers, w \in Verdicts :
            \E j \in desk[v] : MarkReviewed(v, j, w)
      BY <2>1
    <3>2. PICK j \in desk[v] : MarkReviewed(v, j, w)
      BY <3>1
    <3>3. j # i
      BY <1>3 DEF FreshDesks
    <3>4. log \in Seq(Rows) /\ log' = [log EXCEPT ![j].verdict = w]
      BY <1>3, <3>2, LogTyped DEF Audit, MarkReviewed
    <3> QED BY <1>3, <3>3, <3>4 DEF RowIds
  <2>2. CASE \A v \in Reviewers : \A j \in desk[v], w \in Verdicts :
               ~MarkReviewed(v, j, w)
    BY <1>3, <2>2, TableKept
  <2> QED BY <2>1, <2>2
<1>4. Audit /\ FreshDesks /\ [Next]_vars =>
        [\A i \in RowIds : log[i].verdict # "none" =>
           log'[i].verdict = log[i].verdict]_vars
  BY <1>3
<1> QED BY <1>1, <1>2, <1>4, AuditInvariance, PTL DEF Spec, VerdictStands
=============================================================================
