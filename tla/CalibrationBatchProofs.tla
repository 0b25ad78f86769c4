----------------------- MODULE CalibrationBatchProofs -----------------------
(* What the calibration batch promises its user, for any number of         *)
(* prompts, failures, resumptions, other processes and reviewers.          *)
EXTENDS CalibrationBatch, SequenceTheorems, FiniteSetTheorems, TLAPS

Rows(n) == [try : {Other} \cup (1 .. n), reviewed : BOOLEAN]

Scripts(n, m) ==
  [pc : {"off", "next", "running", "listing", "failed", "crashed", "done"},
   at : 1 .. N + 1, last : 0 .. N, before : SUBSET (1 .. m), logged : 0 .. N,
   told : Prompts, job : SUBSET Prompts, launch : 1 .. n + 1, base : 0 .. m]

(* The first prompt that has not returned. *)
Frontier == IF script.pc = "listing" THEN script.at + 1 ELSE script.at

InHand == tries[Len(tries)]

(* Where the script is in its job. *)
Course ==
  /\ script.pc = "off" => tries = <<>>
  /\ script.pc \in {"running", "listing"} =>
       /\ InHand.prompt = script.at /\ InHand.said = "nothing"
       /\ script.at <= script.last
  /\ script.pc = "running" => InHand.state = "streaming"
  /\ script.pc = "failed" => script.told = script.at
  /\ script.pc \in {"next", "running", "listing", "failed"} =>
       /\ \A p \in Prompts : p >= Frontier => ReturnedFor(p) = {}
       /\ \A p \in script.job : p < Frontier => ReturnedFor(p) # {}
  /\ script.pc \in {"next", "running", "listing"} =>
       \A p \in script.job : p <= script.last
  /\ script.logged <= script.at - 1

(* The listing before a prompt holds none of its rows; it has none before  *)
(* its call returns. *)
Bracketed ==
  /\ script.pc \in {"running", "listing"} =>
       \A i \in script.before : log[i].try # Len(tries)
  /\ script.pc = "running" => \A i \in RowIds : log[i].try # Len(tries)

BatchInv ==
  BatchTypeOK /\ Course /\ Bracketed /\ JobReturnedOnce /\ DeclinedLeavesNoRow

-----------------------------------------------------------------------------
LEMMA Constants ==
  /\ N \in Nat \ {0} /\ PageLimit \in Nat \ {0} /\ NoLimit \notin Int
BY BatchAssumption

LEMMA TypeParts ==
  BatchTypeOK <=>
    /\ tries \in Seq(Tries) /\ log \in Seq(Rows(Len(tries)))
    /\ script \in Scripts(Len(tries), Len(log))
    /\ script.pc \in {"running", "listing"} => tries # <<>>
BY DEF BatchTypeOK, Rows, Scripts, TryIds, RowIds

LEMMA TypePartsNext ==
  BatchTypeOK' <=>
    /\ tries' \in Seq(Tries) /\ log' \in Seq(Rows(Len(tries')))
    /\ script' \in Scripts(Len(tries'), Len(log'))
    /\ script'.pc \in {"running", "listing"} => tries' # <<>>
BY DEF BatchTypeOK, Rows, Scripts, TryIds, RowIds

LEMMA SeqWiden ==
  ASSUME NEW S, NEW T, NEW s \in Seq(S), \A i \in 1 .. Len(s) : s[i] \in T
  PROVE  s \in Seq(T)
<1>1. Len(s) \in Nat /\ s = [i \in 1 .. Len(s) |-> s[i]]
  OBVIOUS
<1> QED BY <1>1

LEMMA Typed ==
  ASSUME BatchTypeOK
  PROVE  /\ tries \in Seq(Tries) /\ Len(tries) \in Nat
         /\ \A t \in TryIds : tries[t] \in Tries
         /\ log \in Seq(Rows(Len(tries))) /\ Len(log) \in Nat
         /\ \A i \in RowIds : /\ log[i] \in Rows(Len(tries))
                              /\ log[i].reviewed \in BOOLEAN
                              /\ log[i].try # Other => log[i].try \in TryIds
         /\ script \in Scripts(Len(tries), Len(log))
         /\ script.pc \in {"running", "listing"} => Len(tries) \in TryIds
<1>1. /\ tries \in Seq(Tries) /\ log \in Seq(Rows(Len(tries)))
      /\ script \in Scripts(Len(tries), Len(log))
      /\ script.pc \in {"running", "listing"} => tries # <<>>
  BY TypeParts
<1>2. \A t \in TryIds : tries[t] \in Tries
  BY <1>1, ElementOfSeq DEF TryIds
<1>3. \A i \in RowIds : log[i] \in Rows(Len(tries))
  BY <1>1, ElementOfSeq DEF RowIds
<1>4. \A i \in RowIds : /\ log[i].reviewed \in BOOLEAN
                        /\ log[i].try # Other => log[i].try \in TryIds
  BY <1>3 DEF Rows, TryIds
<1>5. tries # <<>> => Len(tries) \in TryIds
  BY <1>1, EmptySeq DEF TryIds
<1> QED BY <1>1, <1>2, <1>3, <1>4, <1>5

(* A listing shows every unreviewed row of a table that fits its page. *)
LEMMA PageIsAll ==
  ASSUME Len(log) \in Nat, Len(log) <= PageLimit
  PROVE  Page = Unreviewed
<1>1. ASSUME NEW i \in Unreviewed
      PROVE  Cardinality({j \in Unreviewed : j < i}) < PageLimit
  <2> DEFINE S == {j \in Unreviewed : j < i}
  <2>1. i \in 1 .. Len(log) /\ S \subseteq 1 .. i - 1
    BY DEF Unreviewed, RowIds
  <2>2. IsFiniteSet(1 .. i - 1) /\ Cardinality(1 .. i - 1) = i - 1
    <3>1. 1 \in Int /\ i - 1 \in Int /\ 1 <= i
      BY <2>1
    <3>2. Cardinality(1 .. i - 1) = IF 1 > i - 1 THEN 0 ELSE (i - 1) - 1 + 1
      BY <3>1, FS_Interval
    <3>3. IsFiniteSet(1 .. i - 1)
      BY <3>1, FS_Interval
    <3>4. (IF 1 > i - 1 THEN 0 ELSE (i - 1) - 1 + 1) = i - 1
      BY <2>1
    <3> QED BY <3>2, <3>3, <3>4
  <2> HIDE DEF S
  <2>3. Cardinality(S) <= i - 1 /\ Cardinality(S) \in Nat
    BY <2>1, <2>2, FS_Subset, FS_CardinalityType
  <2> QED BY <2>1, <2>3, Constants DEF S
<1> QED BY <1>1 DEF Page

(* What returned stays what it is while no try changes its prompt or       *)
(* returns. *)
LEMMA SameReturned ==
  ASSUME Len(tries) \in Nat, Len(tries') \in Nat, Len(tries) <= Len(tries'),
         \A t \in TryIds : /\ tries'[t].prompt = tries[t].prompt
                           /\ tries'[t].state = "returned" <=>
                                tries[t].state = "returned",
         \A t \in TryIds' : t \notin TryIds => tries'[t].state # "returned"
  PROVE  \A p \in Prompts : ReturnedFor(p)' = ReturnedFor(p)
<1>1. TryIds \subseteq TryIds'
  BY DEF TryIds
<1> QED BY <1>1 DEF ReturnedFor

(* The try in hand with one of its fields set. *)
LEMMA HandUpdated ==
  ASSUME BatchTypeOK, script.pc \in {"running", "listing"},
         NEW h \in Tries, tries' = [tries EXCEPT ![Len(tries)] = h]
  PROVE  /\ tries' \in Seq(Tries) /\ Len(tries') = Len(tries) /\ tries' # <<>>
         /\ tries'[Len(tries)] = h
         /\ \A t \in TryIds : t # Len(tries) => tries'[t] = tries[t]
<1>1. tries \in Seq(Tries) /\ Len(tries) \in 1 .. Len(tries)
  BY Typed DEF TryIds
<1>2. /\ tries' \in Seq(Tries) /\ Len(tries') = Len(tries)
      /\ \A j \in 1 .. Len(tries) :
           tries'[j] = IF j = Len(tries) THEN h ELSE tries[j]
  BY <1>1, ExceptSeq
<1>3. tries' # <<>>
  BY <1>1, <1>2, EmptySeq
<1> QED BY <1>1, <1>2, <1>3 DEF TryIds

(* The log after a call that returned, or failed after its INSERT. *)
LEMMA LogAfter ==
  ASSUME BatchTypeOK, script.pc = "running", log' \in {log, Recorded}
  PROVE  /\ log' \in Seq(Rows(Len(tries))) /\ Len(log') \in Nat
         /\ Len(log) <= Len(log')
         /\ \A i \in RowIds : log'[i] = log[i]
         /\ \A i \in RowIds' : i \notin RowIds => log'[i].try = Len(tries)
<1> DEFINE row == [try |-> Len(tries), reviewed |-> FALSE]
<1>1. Len(tries) \in 1 .. Len(tries) /\ log \in Seq(Rows(Len(tries)))
      /\ Len(log) \in Nat
  BY Typed DEF TryIds
<1>2. row \in Rows(Len(tries)) /\ row.try = Len(tries)
  BY <1>1 DEF Rows
<1>3. log' = log \/ log' = Append(log, row)
  BY DEF Recorded
<1> HIDE DEF row
<1>4. CASE log' = log
  BY <1>1, <1>4 DEF RowIds
<1>5. CASE log' = Append(log, row)
  <2>1. /\ log' \in Seq(Rows(Len(tries))) /\ Len(log') = Len(log) + 1
        /\ log'[Len(log) + 1] = row
        /\ \A i \in 1 .. Len(log) : log'[i] = log[i]
    BY <1>1, <1>2, <1>5, AppendProperties
  <2>2. \A i \in RowIds' : i \notin RowIds => i = Len(log) + 1
    BY <1>1, <2>1 DEF RowIds
  <2> QED BY <1>1, <1>2, <2>1, <2>2 DEF RowIds
<1> QED BY <1>3, <1>4, <1>5

-----------------------------------------------------------------------------
LEMMA BatchInit == Init => BatchInv
<1> SUFFICES ASSUME Init PROVE BatchInv
  OBVIOUS
<1>1. /\ tries = <<>> /\ log = <<>> /\ Len(tries) = 0 /\ Len(log) = 0
      /\ tries \in Seq(Tries) /\ log \in Seq(Rows(0)) /\ TryIds = {} /\ RowIds = {}
  BY EmptySeq DEF Init, TryIds, RowIds
<1>2. script \in Scripts(0, 0) /\ script.pc = "off" /\ script.at = 1
      /\ script.logged = 0
  BY Constants DEF Init, Scripts, Prompts
<1>3. BatchTypeOK
  BY <1>1, <1>2, TypeParts
<1>4. Course /\ Bracketed /\ JobReturnedOnce /\ DeclinedLeavesNoRow
  BY <1>1, <1>2 DEF Course, Bracketed, JobReturnedOnce, DeclinedLeavesNoRow,
     ReturnedFor
<1> QED BY <1>3, <1>4 DEF BatchInv

(* Starting a process at a prompt from which nothing has returned. *)
LEMMA LaunchInv ==
  ASSUME BatchInv, NEW start \in Prompts, NEW limit \in Limits,
         NEW job \in SUBSET Prompts,
         script' = [Launched(start, limit) EXCEPT !.job = job],
         UNCHANGED <<log, tries>>,
         \A p \in Prompts : p >= start => ReturnedFor(p) = {},
         \A p \in job : p < start => ReturnedFor(p) # {},
         \A p \in job : p <= LastPrompt(start, limit)
  PROVE  BatchInv'
<1> DEFINE l == LastPrompt(start, limit)
<1>1. l \in 0 .. N
  <2>1. start \in 1 .. N /\ N \in Nat
    BY Constants DEF Prompts
  <2>2. CASE limit \in {NoLimit, 0}
    BY <2>1, <2>2 DEF LastPrompt
  <2>3. CASE limit \notin {NoLimit, 0}
    <3>1. limit \in 0 .. N /\ limit # 0
      BY <2>3 DEF Limits
    <3>2. l = IF start - 1 + limit < N THEN start - 1 + limit ELSE N
      BY <2>3 DEF LastPrompt
    <3> QED BY <2>1, <3>1, <3>2
  <2> QED BY <2>2, <2>3
<1> HIDE DEF l
<1>2. /\ script \in Scripts(Len(tries), Len(log))
      /\ Len(tries) \in Nat /\ Len(log) \in Nat
  BY Typed DEF BatchInv
<1>3. script' = [script EXCEPT !.pc = "next", !.at = start, !.last = l,
                               !.logged = 0, !.told = 1,
                               !.launch = Len(tries) + 1, !.base = Len(log),
                               !.job = job]
  BY <1>2 DEF Launched, l, Scripts
<1>4. /\ script'.pc = "next" /\ script'.at = start /\ script'.last = l
      /\ script'.job = job /\ script'.logged = 0
      /\ script' \in Scripts(Len(tries), Len(log))
  <2>1. /\ start \in 1 .. N + 1 /\ 1 \in Prompts /\ 0 \in 0 .. N
        /\ Len(tries) + 1 \in 1 .. Len(tries) + 1 /\ Len(log) \in 0 .. Len(log)
    BY <1>2, Constants DEF Prompts
  <2>2. script' \in Scripts(Len(tries), Len(log))
    BY <1>1, <1>2, <1>3, <2>1 DEF Scripts
  <2> QED BY <1>2, <1>3, <2>2 DEF Scripts
<1>5. /\ TryIds' = TryIds /\ RowIds' = RowIds
      /\ \A p \in Prompts : ReturnedFor(p)' = ReturnedFor(p)
  BY DEF TryIds, RowIds, ReturnedFor
<1>6. BatchTypeOK'
  BY <1>4, TypeParts, TypePartsNext DEF BatchInv
<1>7. Course'
  <2>1. start \in Nat /\ 0 <= start - 1
    BY Constants DEF Prompts
  <2> QED BY <1>4, <1>5, <2>1 DEF Course, Frontier, l
<1>8. Bracketed' /\ JobReturnedOnce' /\ DeclinedLeavesNoRow'
  BY <1>4, <1>5 DEF BatchInv, Bracketed, JobReturnedOnce, DeclinedLeavesNoRow
<1> QED BY <1>6, <1>7, <1>8 DEF BatchInv

LEMMA BeginInv ==
  ASSUME BatchInv, NEW start \in Prompts, NEW limit \in Limits,
         Begin(start, limit)
  PROVE  BatchInv'
<1>1. tries = <<>> /\ TryIds = {}
  BY EmptySeq DEF Begin, BatchInv, Course, TryIds
<1>2. \A p \in Prompts : ReturnedFor(p) = {}
  BY <1>1 DEF ReturnedFor
<1>3. Asked(start, limit) \in SUBSET Prompts
      /\ \A p \in Asked(start, limit) : p >= start /\ p <= LastPrompt(start, limit)
  <2>1. start \in 1 .. N /\ N \in Nat
    BY Constants DEF Prompts
  <2>2. ASSUME NEW p \in Asked(start, limit)
        PROVE  p \in 1 .. N /\ p >= start /\ p <= LastPrompt(start, limit)
    <3>1. p \in start .. N /\ (limit # NoLimit => p < start + limit)
      BY DEF Asked
    <3>2. CASE limit \in {NoLimit, 0}
      BY <2>1, <3>1, <3>2 DEF LastPrompt
    <3>3. CASE limit \notin {NoLimit, 0}
      <4>1. limit \in 0 .. N /\ p < start + limit
        BY <3>1, <3>3 DEF Limits
      <4>2. LastPrompt(start, limit) =
              IF start - 1 + limit < N THEN start - 1 + limit ELSE N
        BY <3>3 DEF LastPrompt
      <4> QED BY <2>1, <3>1, <4>1, <4>2
    <3> QED BY <3>2, <3>3
  <2> QED BY <2>2 DEF Prompts
<1>4. /\ script' = [Launched(start, limit) EXCEPT !.job = Asked(start, limit)]
      /\ UNCHANGED <<log, tries>>
  BY DEF Begin
<1>5. \A p \in Asked(start, limit) : ~(p < start)
  BY <1>3, Constants DEF Prompts
<1> QED BY <1>2, <1>3, <1>4, <1>5, LaunchInv

LEMMA ResumeInv == ASSUME BatchInv, Resume PROVE BatchInv'
<1>1. script.pc = "failed" /\ script' = Launched(script.told, NoLimit)
      /\ UNCHANGED <<log, tries>>
  BY DEF Resume
<1>2. /\ script \in Scripts(Len(tries), Len(log)) /\ script.told = script.at
      /\ Frontier = script.at
  BY <1>1, Typed DEF BatchInv, Course, Frontier
<1>3. script.told \in Prompts /\ script.job \in SUBSET Prompts /\ NoLimit \in Limits
  BY <1>2 DEF Scripts, Limits
<1>4. script' = [Launched(script.told, NoLimit) EXCEPT !.job = script.job]
  BY <1>1, <1>2 DEF Launched, Scripts
<1>5. \A p \in script.job : p <= LastPrompt(script.told, NoLimit)
  BY <1>3, Constants DEF LastPrompt, Prompts
<1>6. /\ \A p \in Prompts : p >= script.told => ReturnedFor(p) = {}
      /\ \A p \in script.job : p < script.told => ReturnedFor(p) # {}
  BY <1>1, <1>2 DEF BatchInv, Course
<1> QED BY <1>1, <1>3, <1>4, <1>5, <1>6, LaunchInv

LEMMA BeginPromptInv == ASSUME BatchInv, BeginPrompt PROVE BatchInv'
<1> DEFINE h == Try(script.at)
<1>1. /\ script.pc = "next" /\ script.at <= script.last
      /\ tries' = Append(tries, h)
      /\ script' = [script EXCEPT !.pc = "running", !.before = Page]
      /\ log' = log
  BY DEF BeginPrompt
<1>2. /\ script \in Scripts(Len(tries), Len(log)) /\ tries \in Seq(Tries)
      /\ Len(tries) \in Nat /\ Len(log) \in Nat
      /\ log \in Seq(Rows(Len(tries)))
  BY Typed DEF BatchInv
<1>3. /\ h \in Tries /\ h.prompt = script.at /\ h.said = "nothing"
      /\ h.state = "streaming"
  <2>1. script.at \in Prompts
    BY <1>1, <1>2, Constants DEF Scripts, Prompts
  <2> QED BY <2>1 DEF Try, Tries
<1> HIDE DEF h
<1>4. /\ tries' \in Seq(Tries) /\ Len(tries') = Len(tries) + 1
      /\ tries'[Len(tries) + 1] = h
      /\ \A t \in 1 .. Len(tries) : tries'[t] = tries[t]
  BY <1>1, <1>2, <1>3, AppendProperties
<1>5. /\ TryIds \subseteq TryIds' /\ RowIds' = RowIds
      /\ \A t \in TryIds' : t \notin TryIds => t = Len(tries) + 1
      /\ Len(tries) + 1 \notin TryIds
      /\ \A t \in TryIds : tries'[t] = tries[t]
  BY <1>1, <1>2, <1>4 DEF TryIds, RowIds
<1>6. /\ script'.pc = "running" /\ script'.at = script.at
      /\ script'.last = script.last /\ script'.job = script.job
      /\ script'.logged = script.logged /\ script'.before = Page
      /\ script' \in Scripts(Len(tries'), Len(log'))
  <2>1. Page \in SUBSET (1 .. Len(log))
    BY DEF Page, Unreviewed, RowIds
  <2> HIDE DEF h
  <2>2. 1 .. Len(tries) + 1 \subseteq 1 .. Len(tries') + 1
    BY <1>2, <1>4
  <2> QED BY <1>1, <1>2, <2>1, <2>2 DEF Scripts
<1>7. log' \in Seq(Rows(Len(tries')))
  <2>1. \A i \in 1 .. Len(log) : log[i] \in Rows(Len(tries'))
    BY <1>2, <1>4, Typed DEF BatchInv, Rows, RowIds
  <2> QED BY <1>1, <1>2, <2>1, SeqWiden
<1>8. tries' # <<>>
  BY <1>2, <1>4, EmptySeq
<1>9. BatchTypeOK'
  BY <1>4, <1>6, <1>7, <1>8, TypePartsNext
<1>10. \A p \in Prompts : ReturnedFor(p)' = ReturnedFor(p)
  BY <1>2, <1>3, <1>4, <1>5, SameReturned
<1>11. Course'
  BY <1>1, <1>2, <1>3, <1>4, <1>6, <1>10 DEF BatchInv, Course, Frontier, InHand,
     Scripts
<1>12. Bracketed'
  <2>1. \A i \in RowIds : log[i].try # Len(tries) + 1
    BY <1>2, <1>5, Typed DEF BatchInv, Other, TryIds
  <2>2. Page \subseteq RowIds
    BY DEF Page, Unreviewed
  <2> QED BY <1>1, <1>4, <1>5, <1>6, <2>1, <2>2 DEF Bracketed
<1>13. JobReturnedOnce'
  BY <1>6, <1>10 DEF BatchInv, JobReturnedOnce
<1>14. DeclinedLeavesNoRow'
  BY <1>1, <1>5, Typed DEF BatchInv, DeclinedLeavesNoRow
<1> QED BY <1>9, <1>11, <1>12, <1>13, <1>14 DEF BatchInv

LEMMA DelegateInv == ASSUME BatchInv, Delegate PROVE BatchInv'
<1> DEFINE h == [InHand EXCEPT !.delegated = TRUE]
<1>1. /\ script.pc = "running" /\ tries' = [tries EXCEPT ![Len(tries)] = h]
      /\ log' = log /\ script' = script
  BY DEF Delegate, InHand
<1>2. InHand \in Tries /\ Len(tries) \in TryIds /\ Len(tries) \in Nat
  BY <1>1, Typed DEF BatchInv, InHand
<1>3. /\ h \in Tries /\ h.prompt = InHand.prompt /\ h.state = InHand.state
      /\ h.said = InHand.said
  BY <1>2 DEF Tries
<1> HIDE DEF h
<1>4. /\ tries' \in Seq(Tries) /\ Len(tries') = Len(tries) /\ tries' # <<>>
      /\ tries'[Len(tries)] = h
      /\ \A t \in TryIds : t # Len(tries) => tries'[t] = tries[t]
  BY <1>1, <1>3, HandUpdated DEF BatchInv
<1>5. /\ TryIds' = TryIds /\ RowIds' = RowIds
      /\ \A t \in TryIds : /\ tries'[t].prompt = tries[t].prompt
                           /\ tries'[t].state = tries[t].state
                           /\ tries'[t].said = tries[t].said
  BY <1>1, <1>3, <1>4 DEF TryIds, RowIds, InHand
<1>6. BatchTypeOK'
  BY <1>1, <1>4, TypeParts, TypePartsNext DEF BatchInv
<1>7. \A p \in Prompts : ReturnedFor(p)' = ReturnedFor(p)
  BY <1>2, <1>4, <1>5, SameReturned
<1>8. Course'
  BY <1>1, <1>2, <1>4, <1>5, <1>7, Typed
  DEF BatchInv, Course, Frontier, InHand, Scripts
<1>9. Bracketed' /\ JobReturnedOnce'
  BY <1>1, <1>4, <1>5, <1>7 DEF BatchInv, Bracketed, JobReturnedOnce
<1>10. DeclinedLeavesNoRow'
  BY <1>1, <1>5, Typed DEF BatchInv, DeclinedLeavesNoRow
<1> QED BY <1>6, <1>8, <1>9, <1>10 DEF BatchInv

(* What a call that ends does to the rows. *)
LEMMA EndedRows ==
  ASSUME BatchInv, script.pc = "running", log' \in {log, Recorded},
         NEW h \in Tries, tries' = [tries EXCEPT ![Len(tries)] = h],
         h.said = "nothing", script' \in Scripts(Len(tries), Len(log)),
         script'.before \in {script.before, {}}, script'.pc # "running"
  PROVE  BatchTypeOK' /\ Bracketed' /\ DeclinedLeavesNoRow'
<1>1. /\ tries' \in Seq(Tries) /\ Len(tries') = Len(tries) /\ tries' # <<>>
      /\ tries'[Len(tries)] = h
      /\ \A t \in TryIds : t # Len(tries) => tries'[t] = tries[t]
  BY HandUpdated DEF BatchInv
<1>2. /\ log' \in Seq(Rows(Len(tries))) /\ Len(log') \in Nat
      /\ Len(log) <= Len(log') /\ Len(log) \in Nat
      /\ \A i \in RowIds : log'[i] = log[i]
      /\ \A i \in RowIds' : i \notin RowIds => log'[i].try = Len(tries)
  BY LogAfter, Typed DEF BatchInv
<1>3. script' \in Scripts(Len(tries'), Len(log'))
  <2>1. SUBSET (1 .. Len(log)) \subseteq SUBSET (1 .. Len(log'))
        /\ 0 .. Len(log) \subseteq 0 .. Len(log')
    BY <1>2
  <2> QED BY <1>1, <2>1 DEF Scripts
<1>4. BatchTypeOK'
  BY <1>1, <1>2, <1>3, TypePartsNext
<1>5. Bracketed'
  <2>1. \A i \in script.before : log[i].try # Len(tries) /\ i \in RowIds
    BY Typed DEF BatchInv, Bracketed, Scripts, RowIds
  <2>2. \A i \in script'.before : log'[i].try # Len(tries)
    BY <1>2, <2>1
  <2> QED BY <1>1, <2>2 DEF Bracketed
<1>6. DeclinedLeavesNoRow'
  <2>1. SUFFICES ASSUME Len(log') <= PageLimit, NEW i \in RowIds',
                        log'[i].try # Other, ~log'[i].reviewed
                 PROVE  tries'[log'[i].try].said # "declined"
    BY DEF DeclinedLeavesNoRow
  <2>2. CASE log'[i].try = Len(tries)
    BY <1>1, <2>2
  <2>3. CASE log'[i].try # Len(tries)
    <3>1. i \in RowIds /\ log'[i] = log[i]
      BY <1>2, <2>3
    <3>2. log[i].try \in TryIds /\ Len(log) <= PageLimit
      BY <1>2, <2>1, <3>1, Typed, Constants DEF BatchInv
    <3>3. tries[log[i].try].said # "declined"
      BY <2>1, <3>1, <3>2 DEF BatchInv, DeclinedLeavesNoRow
    <3> QED BY <1>1, <2>3, <3>1, <3>2, <3>3
  <2> QED BY <2>2, <2>3
<1> QED BY <1>4, <1>5, <1>6

LEMMA ReturnsInv == ASSUME BatchInv, Returns PROVE BatchInv'
<1> DEFINE h == [InHand EXCEPT !.state = "returned"]
           n == Len(tries)
<1>1. /\ script.pc = "running" /\ tries' = [tries EXCEPT ![Len(tries)] = h]
      /\ log' = Recorded /\ script' = [script EXCEPT !.pc = "listing"]
  BY DEF Returns, InHand
<1>2. /\ InHand \in Tries /\ n \in TryIds /\ n \in Nat
      /\ script \in Scripts(Len(tries), Len(log))
      /\ InHand.prompt = script.at /\ InHand.said = "nothing"
      /\ InHand.state = "streaming" /\ script.at <= script.last
  BY <1>1, Typed DEF BatchInv, InHand, Course
<1>3. /\ h \in Tries /\ h.prompt = script.at /\ h.state = "returned"
      /\ h.said = "nothing"
  BY <1>2 DEF Tries
<1>4. /\ script' \in Scripts(Len(tries), Len(log)) /\ script'.pc = "listing"
      /\ script'.at = script.at /\ script'.last = script.last
      /\ script'.job = script.job /\ script'.before = script.before
      /\ script'.logged = script.logged
  BY <1>1, <1>2 DEF Scripts
<1> HIDE DEF h, n
<1>5. /\ Len(tries') = Len(tries) /\ tries'[Len(tries)] = h
      /\ \A t \in TryIds : t # Len(tries) => tries'[t] = tries[t]
  BY <1>1, <1>3, HandUpdated DEF BatchInv
<1>6. BatchTypeOK' /\ Bracketed' /\ DeclinedLeavesNoRow'
  <2>1. log' \in {log, Recorded} /\ script'.pc # "running"
        /\ script'.before \in {script.before, {}}
    BY <1>1, <1>4
  <2> QED BY <1>1, <1>3, <1>4, <2>1, EndedRows
<1>7. TryIds' = TryIds
  BY <1>5 DEF TryIds
<1>8. script.at \in Prompts /\ \A p \in Prompts : p \in Nat
  BY <1>2, Constants DEF Scripts, Prompts
<1>9. ReturnedFor(script.at)' = {n}
  <2>1. ReturnedFor(script.at) = {}
    BY <1>1, <1>8 DEF BatchInv, Course, Frontier
  <2>2. \A t \in TryIds : t # n =>
          ~(tries'[t].prompt = script.at /\ tries'[t].state = "returned")
    BY <1>5, <2>1 DEF ReturnedFor, n
  <2>3. n \in TryIds' /\ tries'[n].prompt = script.at
        /\ tries'[n].state = "returned"
    BY <1>2, <1>3, <1>5, <1>7 DEF n
  <2>4. ReturnedFor(script.at)' = {t \in TryIds : tries'[t].prompt = script.at
                                      /\ tries'[t].state = "returned"}
    BY <1>4, <1>7 DEF ReturnedFor
  <2> QED BY <1>7, <2>2, <2>3, <2>4
<1>10. \A p \in Prompts : p # script.at => ReturnedFor(p)' = ReturnedFor(p)
  <2>1. ASSUME NEW p \in Prompts, p # script.at, NEW t \in TryIds
        PROVE  (tries'[t].prompt = p /\ tries'[t].state = "returned") <=>
               (tries[t].prompt = p /\ tries[t].state = "returned")
    BY <1>2, <1>3, <1>5, <2>1 DEF InHand
  <2> QED BY <1>7, <2>1 DEF ReturnedFor
<1>11. Course'
  <2>1. /\ Frontier' = script.at + 1 /\ Frontier = script.at
        /\ script.job \subseteq Prompts /\ script.logged <= script.at - 1
        /\ script.at \in Nat
    BY <1>1, <1>2, <1>4, <1>8 DEF Frontier, Scripts, BatchInv, Course
  <2>2. \A p \in Prompts : p >= script.at + 1 => ReturnedFor(p)' = {}
    BY <1>1, <1>8, <1>10, <2>1 DEF BatchInv, Course
  <2>3. ASSUME NEW p \in script.job, p < script.at + 1
        PROVE  ReturnedFor(p)' # {}
    <3>1. CASE p = script.at
      BY <1>4, <1>9, <3>1
    <3>2. CASE p # script.at
      <4>1. p \in Prompts /\ p < Frontier
        BY <1>8, <2>1, <2>3, <3>2
      <4> QED BY <1>1, <1>10, <3>2, <4>1 DEF BatchInv, Course
    <3> QED BY <3>1, <3>2
  <2>4. \A p \in script.job : p <= script.last
    BY <1>1 DEF BatchInv, Course
  <2> QED BY <1>2, <1>3, <1>4, <1>5, <2>1, <2>2, <2>3, <2>4 DEF Course, InHand
<1>12. JobReturnedOnce'
  BY <1>4, <1>9, <1>10 DEF BatchInv, JobReturnedOnce
<1> QED BY <1>6, <1>11, <1>12 DEF BatchInv

LEMMA RunFailsInv ==
  ASSUME BatchInv, NEW end \in {"failed", "crashed"}, NEW kept \in BOOLEAN,
         RunFails(end, kept)
  PROVE  BatchInv'
<1> DEFINE h == [InHand EXCEPT !.state = "failed"]
           told == IF end = "failed" THEN script.at ELSE 1
<1>1. /\ script.pc = "running" /\ tries' = [tries EXCEPT ![Len(tries)] = h]
      /\ log' \in {log, Recorded}
      /\ script' = [script EXCEPT !.pc = end, !.before = {}, !.told = told]
  BY DEF RunFails, InHand, ResumePoint
<1>2. /\ InHand \in Tries /\ Len(tries) \in TryIds /\ Len(tries) \in Nat
      /\ script \in Scripts(Len(tries), Len(log))
      /\ InHand.said = "nothing" /\ InHand.state = "streaming"
      /\ script.at <= script.last
  BY <1>1, Typed DEF BatchInv, InHand, Course
<1>3. /\ h \in Tries /\ h.prompt = InHand.prompt /\ h.state = "failed"
      /\ h.said = "nothing"
  BY <1>2 DEF Tries
<1> HIDE DEF h
<1>4. script.at \in Prompts /\ 1 \in Prompts
  BY <1>2, Constants DEF Scripts, Prompts
<1>5. /\ script' \in Scripts(Len(tries), Len(log)) /\ script'.pc = end
      /\ script'.at = script.at /\ script'.told = told
      /\ script'.job = script.job /\ script'.before = {}
      /\ script'.logged = script.logged
  BY <1>1, <1>2, <1>4 DEF Scripts
<1>6. BatchTypeOK' /\ Bracketed' /\ DeclinedLeavesNoRow'
  BY <1>1, <1>3, <1>5, EndedRows
<1>7. /\ Len(tries') = Len(tries) /\ tries'[Len(tries)] = h
      /\ \A t \in TryIds : t # Len(tries) => tries'[t] = tries[t]
  BY <1>1, <1>3, HandUpdated DEF BatchInv
<1>8. TryIds' = TryIds
  BY <1>7 DEF TryIds
<1>9. \A t \in TryIds : /\ tries'[t].prompt = tries[t].prompt
                        /\ tries'[t].state = "returned" <=>
                             tries[t].state = "returned"
  BY <1>2, <1>3, <1>7 DEF InHand
<1>10. \A p \in Prompts : ReturnedFor(p)' = ReturnedFor(p)
  BY <1>2, <1>7, <1>8, <1>9, SameReturned
<1>11. Course'
  BY <1>1, <1>2, <1>5, <1>10 DEF BatchInv, Course, Frontier, Scripts
<1>12. JobReturnedOnce'
  BY <1>5, <1>10 DEF BatchInv, JobReturnedOnce
<1> QED BY <1>6, <1>11, <1>12 DEF BatchInv

LEMMA ListingFailsInv == ASSUME BatchInv, ListingFails PROVE BatchInv'
<1>1. /\ script' = [script EXCEPT !.pc = "crashed", !.before = {}]
      /\ UNCHANGED <<log, tries>>
  BY DEF ListingFails
<1>2. script \in Scripts(Len(tries), Len(log))
  BY Typed DEF BatchInv
<1>3. /\ script' \in Scripts(Len(tries), Len(log)) /\ script'.pc = "crashed"
      /\ script'.at = script.at /\ script'.logged = script.logged
  BY <1>1, <1>2 DEF Scripts
<1>4. BatchTypeOK'
  BY <1>1, <1>3, TypeParts, TypePartsNext DEF BatchInv
<1>5. /\ TryIds' = TryIds /\ RowIds' = RowIds
      /\ \A p \in Prompts : ReturnedFor(p)' = ReturnedFor(p)
  BY <1>1 DEF TryIds, RowIds, ReturnedFor
<1>6. Course' /\ Bracketed' /\ JobReturnedOnce' /\ DeclinedLeavesNoRow'
  BY <1>1, <1>3, <1>5 DEF BatchInv, Course, Bracketed, JobReturnedOnce,
     DeclinedLeavesNoRow
<1> QED BY <1>4, <1>6 DEF BatchInv

LEMMA ReportInv == ASSUME BatchInv, Report PROVE BatchInv'
<1> DEFINE landed == NewRows # {}
           h == [InHand EXCEPT !.said = IF landed THEN "logged" ELSE "declined"]
           one == IF landed THEN 1 ELSE 0
<1>1. /\ script.pc = "listing" /\ tries' = [tries EXCEPT ![Len(tries)] = h]
      /\ log' = log
      /\ script' = [script EXCEPT !.pc = "next", !.at = script.at + 1,
                                  !.before = {}, !.logged = script.logged + one]
  BY DEF Report, InHand
<1>2. /\ InHand \in Tries /\ Len(tries) \in TryIds /\ Len(tries) \in Nat
      /\ script \in Scripts(Len(tries), Len(log)) /\ Len(log) \in Nat
      /\ script.at <= script.last /\ script.logged <= script.at - 1
      /\ \A p \in script.job : p <= script.last
  BY <1>1, Typed DEF BatchInv, InHand, Course
<1>3. /\ h \in Tries /\ h.prompt = InHand.prompt /\ h.state = InHand.state
      /\ h.said = "declined" => ~landed
  BY <1>2 DEF Tries
<1>4. one \in {0, 1}
  OBVIOUS
<1> HIDE DEF h, landed, one
<1>5. /\ script' \in Scripts(Len(tries), Len(log)) /\ script'.pc = "next"
      /\ script'.at = script.at + 1 /\ script'.last = script.last
      /\ script'.job = script.job /\ script'.logged <= script'.at - 1
  <2>1. script.at + 1 \in 1 .. N + 1 /\ script.logged + one \in 0 .. N
        /\ script.logged + one <= script.at
    BY <1>2, <1>4, Constants DEF Scripts
  <2>2. script' \in Scripts(Len(tries), Len(log))
    BY <1>1, <1>2, <2>1 DEF Scripts
  <2>3. /\ script'.pc = "next" /\ script'.at = script.at + 1
        /\ script'.last = script.last /\ script'.job = script.job
        /\ script'.logged = script.logged + one
    BY <1>1, <1>2 DEF Scripts
  <2> QED BY <1>2, <1>4, <2>1, <2>2, <2>3 DEF Scripts
<1>6. /\ tries' \in Seq(Tries) /\ Len(tries') = Len(tries) /\ tries' # <<>>
      /\ tries'[Len(tries)] = h
      /\ \A t \in TryIds : t # Len(tries) => tries'[t] = tries[t]
  BY <1>1, <1>3, HandUpdated DEF BatchInv
<1>7. TryIds' = TryIds /\ RowIds' = RowIds
  BY <1>1, <1>6 DEF TryIds, RowIds
<1>8. \A t \in TryIds : /\ tries'[t].prompt = tries[t].prompt
                        /\ tries'[t].state = tries[t].state
  BY <1>3, <1>6 DEF InHand
<1>9. BatchTypeOK'
  BY <1>1, <1>5, <1>6, TypeParts, TypePartsNext DEF BatchInv
<1>10. \A p \in Prompts : ReturnedFor(p)' = ReturnedFor(p)
  BY <1>2, <1>6, <1>7, <1>8, SameReturned
<1>11. Course'
  <2>1. Frontier' = Frontier
    BY <1>1, <1>5 DEF Frontier
  <2> QED BY <1>1, <1>2, <1>5, <1>10, <2>1 DEF BatchInv, Course, Scripts
<1>12. Bracketed' /\ JobReturnedOnce'
  BY <1>5, <1>10 DEF BatchInv, Bracketed, JobReturnedOnce
<1>13. DeclinedLeavesNoRow'
  <2>1. SUFFICES ASSUME Len(log) <= PageLimit, NEW i \in RowIds,
                        log[i].try # Other, ~log[i].reviewed
                 PROVE  tries'[log[i].try].said # "declined"
    BY <1>1, <1>7 DEF DeclinedLeavesNoRow
  <2>2. log[i].try \in TryIds
    BY <2>1, Typed DEF BatchInv
  <2>3. CASE log[i].try = Len(tries)
    <3>1. i \in Page
      BY <1>2, <2>1, PageIsAll DEF Unreviewed
    <3>2. i \notin script.before
      BY <1>1, <2>3 DEF BatchInv, Bracketed
    <3>3. landed
      BY <3>1, <3>2 DEF landed, NewRows
    <3> QED BY <1>3, <1>6, <2>3, <3>3
  <2>4. CASE log[i].try # Len(tries)
    BY <1>6, <2>1, <2>2, <2>4 DEF BatchInv, DeclinedLeavesNoRow
  <2> QED BY <2>3, <2>4
<1> QED BY <1>9, <1>11, <1>12, <1>13 DEF BatchInv

LEMMA FinishInv == ASSUME BatchInv, Finish PROVE BatchInv'
<1>1. /\ script.pc = "next" /\ script.at > script.last
      /\ script' = [script EXCEPT !.pc = "done"] /\ UNCHANGED <<log, tries>>
  BY DEF Finish
<1>2. script \in Scripts(Len(tries), Len(log))
  BY Typed DEF BatchInv
<1>3. /\ script' \in Scripts(Len(tries), Len(log)) /\ script'.pc = "done"
      /\ script'.job = script.job /\ script'.at = script.at
      /\ script'.logged = script.logged
  BY <1>1, <1>2 DEF Scripts
<1>4. BatchTypeOK'
  BY <1>1, <1>3, TypeParts, TypePartsNext DEF BatchInv
<1>5. /\ TryIds' = TryIds /\ RowIds' = RowIds
      /\ \A p \in Prompts : ReturnedFor(p)' = ReturnedFor(p)
  BY <1>1 DEF TryIds, RowIds, ReturnedFor
<1>6. Course' /\ Bracketed' /\ DeclinedLeavesNoRow'
  BY <1>1, <1>3, <1>5 DEF BatchInv, Course, Bracketed, DeclinedLeavesNoRow
<1>7. JobReturnedOnce'
  <2>1. ASSUME NEW p \in script.job PROVE ReturnedFor(p) # {}
    <3>1. p <= script.last /\ p \in Nat /\ script.last \in Nat /\ script.at \in Nat
      BY <1>1, <1>2, Constants DEF BatchInv, Course, Scripts, Prompts
    <3>2. p < script.at /\ Frontier = script.at
      BY <1>1, <3>1 DEF Frontier
    <3> QED BY <1>1, <3>2 DEF BatchInv, Course
  <2>2. script.job \subseteq Prompts
    BY <1>2 DEF Scripts
  <2> QED BY <1>3, <1>5, <2>1, <2>2 DEF BatchInv, JobReturnedOnce
<1> QED BY <1>4, <1>6, <1>7 DEF BatchInv

LEMMA OtherRecordsInv == ASSUME BatchInv, OtherRecords PROVE BatchInv'
<1> DEFINE row == [try |-> Other, reviewed |-> FALSE]
<1>1. log' = Append(log, row) /\ UNCHANGED <<tries, script>>
  BY DEF OtherRecords
<1>2. /\ log \in Seq(Rows(Len(tries))) /\ Len(log) \in Nat /\ Len(tries) \in Nat
      /\ script \in Scripts(Len(tries), Len(log))
      /\ script.pc \in {"running", "listing"} => Len(tries) \in TryIds
  BY Typed DEF BatchInv
<1>3. row \in Rows(Len(tries)) /\ row.try = Other
  BY DEF Rows
<1> HIDE DEF row
<1>4. /\ log' \in Seq(Rows(Len(tries))) /\ Len(log') = Len(log) + 1
      /\ log'[Len(log) + 1] = row /\ \A i \in 1 .. Len(log) : log'[i] = log[i]
  BY <1>1, <1>2, <1>3, AppendProperties
<1>5. /\ \A i \in RowIds : log'[i] = log[i]
      /\ \A i \in RowIds' : i \notin RowIds => log'[i].try = Other
  BY <1>2, <1>3, <1>4 DEF RowIds
<1>6. BatchTypeOK'
  <2>1. SUBSET (1 .. Len(log)) \subseteq SUBSET (1 .. Len(log'))
        /\ 0 .. Len(log) \subseteq 0 .. Len(log')
    BY <1>2, <1>4
  <2>2. script' \in Scripts(Len(tries'), Len(log'))
    BY <1>1, <1>2, <2>1 DEF Scripts
  <2> QED BY <1>1, <1>4, <2>2, TypeParts, TypePartsNext DEF BatchInv
<1>7. TryIds' = TryIds /\ \A p \in Prompts : ReturnedFor(p)' = ReturnedFor(p)
  BY <1>1 DEF TryIds, ReturnedFor
<1>8. Course' /\ JobReturnedOnce'
  <2>1. Frontier' = Frontier /\ InHand' = InHand
        /\ \A p \in script.job : p \in Prompts
    BY <1>1, <1>2 DEF Frontier, InHand, Scripts
  <2>2. Course'
    BY <1>1, <1>7, <2>1 DEF BatchInv, Course
  <2> QED BY <1>1, <1>7, <2>1, <2>2 DEF BatchInv, JobReturnedOnce
<1>9. Bracketed'
  <2>1. script.pc \in {"running", "listing"} => Len(tries) # Other
    BY <1>2 DEF TryIds, Other
  <2>2. script.before \subseteq RowIds
    BY <1>2 DEF Scripts, RowIds
  <2> QED BY <1>1, <1>5, <2>1, <2>2 DEF BatchInv, Bracketed
<1>10. DeclinedLeavesNoRow'
  <2>1. Len(log') <= PageLimit => Len(log) <= PageLimit
    BY <1>2, <1>4, Constants
  <2> QED BY <1>1, <1>5, <2>1 DEF BatchInv, DeclinedLeavesNoRow
<1> QED BY <1>6, <1>8, <1>9, <1>10 DEF BatchInv

LEMMA MarkReviewedInv ==
  ASSUME BatchInv, NEW i \in RowIds, MarkReviewed(i) PROVE BatchInv'
<1> DEFINE row == [log[i] EXCEPT !.reviewed = TRUE]
<1>1. log' = [log EXCEPT ![i] = row] /\ UNCHANGED <<tries, script>>
  BY DEF MarkReviewed
<1>2. /\ log \in Seq(Rows(Len(tries))) /\ Len(log) \in Nat
      /\ i \in 1 .. Len(log) /\ log[i] \in Rows(Len(tries))
      /\ script \in Scripts(Len(tries), Len(log))
  BY Typed DEF BatchInv, RowIds
<1>3. row \in Rows(Len(tries)) /\ row.try = log[i].try /\ row.reviewed
  BY <1>2 DEF Rows
<1> HIDE DEF row
<1>4. /\ log' \in Seq(Rows(Len(tries))) /\ Len(log') = Len(log)
      /\ \A j \in 1 .. Len(log) : log'[j] = IF j = i THEN row ELSE log[j]
  BY <1>1, <1>2, <1>3, ExceptSeq
<1>5. /\ RowIds' = RowIds
      /\ \A j \in RowIds : /\ log'[j].try = log[j].try
                           /\ ~log'[j].reviewed => ~log[j].reviewed
  BY <1>3, <1>4 DEF RowIds
<1>6. BatchTypeOK'
  BY <1>1, <1>2, <1>4, TypeParts, TypePartsNext DEF BatchInv
<1>7. TryIds' = TryIds /\ \A p \in Prompts : ReturnedFor(p)' = ReturnedFor(p)
  BY <1>1 DEF TryIds, ReturnedFor
<1>8. Course' /\ JobReturnedOnce'
  <2>1. Frontier' = Frontier /\ InHand' = InHand
        /\ \A p \in script.job : p \in Prompts
    BY <1>1, <1>2 DEF Frontier, InHand, Scripts
  <2>2. Course'
    BY <1>1, <1>7, <2>1 DEF BatchInv, Course
  <2> QED BY <1>1, <1>7, <2>1, <2>2 DEF BatchInv, JobReturnedOnce
<1>9. Bracketed'
  <2>1. script.before \subseteq RowIds
    BY <1>2 DEF Scripts, RowIds
  <2> QED BY <1>1, <1>5, <2>1 DEF BatchInv, Bracketed
<1>10. DeclinedLeavesNoRow'
  BY <1>1, <1>4, <1>5 DEF BatchInv, DeclinedLeavesNoRow
<1> QED BY <1>6, <1>8, <1>9, <1>10 DEF BatchInv

LEMMA BatchStep == BatchInv /\ [Next]_vars => BatchInv'
<1> SUFFICES ASSUME BatchInv, [Next]_vars PROVE BatchInv'
  OBVIOUS
<1>1. CASE UNCHANGED vars
  BY <1>1 DEF vars, BatchInv, BatchTypeOK, Course, Bracketed, JobReturnedOnce,
     DeclinedLeavesNoRow, TryIds, RowIds, ReturnedFor, Frontier, InHand
<1> QED
  BY <1>1, BeginInv, ResumeInv, BeginPromptInv, DelegateInv, ReturnsInv,
     RunFailsInv, ListingFailsInv, ReportInv, FinishInv, OtherRecordsInv,
     MarkReviewedInv
  DEF Next

-----------------------------------------------------------------------------
(* The batch keeps its course, whatever fails and whoever else is at work. *)
THEOREM BatchInvariance == Spec => []BatchInv
<1> QED BY BatchInit, BatchStep, PTL DEF Spec

(* Rows, tries and the script's locals stay well formed. *)
THEOREM BatchTyped == Spec => []BatchTypeOK
<1>1. BatchInv => BatchTypeOK
  BY DEF BatchInv
<1> QED BY <1>1, BatchInvariance, PTL

(* Following the printed command loses no prompt and repeats none that     *)
(* returned, however often it is needed.                                   *)
THEOREM ResumptionLosesNothing == Spec => []JobReturnedOnce
<1>1. BatchInv => JobReturnedOnce
  BY DEF BatchInv
<1> QED BY <1>1, BatchInvariance, PTL

(* "Declined" is true of every row still waiting, whoever recorded and     *)
(* reviewed rows meanwhile.                                                *)
THEOREM DeclinedIsTrue == Spec => []DeclinedLeavesNoRow
<1>1. BatchInv => DeclinedLeavesNoRow
  BY DEF BatchInv
<1> QED BY <1>1, BatchInvariance, PTL

-----------------------------------------------------------------------------
(* The count of logged prompts. *)

Mine == script.base + 1 .. Len(log)

(* Nobody else recorded or reviewed a row since this process began. *)
Undisturbed ==
  /\ Len(log) <= PageLimit
  /\ \A i \in Mine : log[i].try >= script.launch /\ ~log[i].reviewed

Counted == {i \in Mine : tries[log[i].try].said # "nothing"}

(* A try leaves one row at most, the rows there were before the process    *)
(* began are of older tries, and while the process is undisturbed every    *)
(* row that waits but the last one's was in its last listing. *)
Counting ==
  /\ \A i, j \in RowIds :
       log[i].try = log[j].try /\ log[i].try # Other => i = j
  /\ \A i \in RowIds : i <= script.base => log[i].try < script.launch
  /\ script.pc \in {"running", "listing"} => script.launch <= Len(tries)
  /\ script.pc \in {"running", "listing"} /\ Undisturbed =>
       \A i \in Unreviewed : log[i].try # Len(tries) => i \in script.before
  /\ Undisturbed => script.logged = Cardinality(Counted)

LEMMA CountingInit == Init => Counting
<1> SUFFICES ASSUME Init PROVE Counting
  OBVIOUS
<1>1. Len(log) = 0 /\ RowIds = {} /\ script.base = 0 /\ script.logged = 0
      /\ script.pc = "off"
  BY EmptySeq DEF Init, RowIds
<1>2. Counted = {}
  BY <1>1 DEF Counted, Mine
<1>3. Cardinality({}) = 0
  BY FS_EmptySet
<1> QED BY <1>1, <1>2, <1>3 DEF Counting

(* What the process has logged is finite and of its own tries. *)
LEMMA CountedRows ==
  ASSUME BatchInv
  PROVE  /\ script.base \in Nat /\ script.launch \in Nat \ {0}
         /\ script.base <= Len(log)
         /\ Mine \subseteq RowIds /\ IsFiniteSet(Counted)
         /\ Undisturbed => \A i \in Mine : log[i].try \in TryIds
<1>1. /\ script \in Scripts(Len(tries), Len(log))
      /\ Len(log) \in Nat /\ Len(tries) \in Nat
  BY Typed DEF BatchInv
<1>2. /\ script.base \in Nat /\ script.launch \in Nat \ {0}
      /\ script.base <= Len(log)
  BY <1>1 DEF Scripts
<1>3. Mine \subseteq RowIds
  BY <1>1, <1>2 DEF Mine, RowIds
<1>4. IsFiniteSet(RowIds)
  <2>1. 1 \in Int /\ Len(log) \in Int
    BY <1>1
  <2> QED BY <2>1, FS_Interval DEF RowIds
<1>5. IsFiniteSet(Counted)
  BY <1>3, <1>4, FS_Subset DEF Counted
<1>6. ASSUME Undisturbed, NEW i \in Mine PROVE log[i].try \in TryIds
  <2>1. log[i].try # Other
    BY <1>2, <1>6 DEF Undisturbed, Other
  <2> QED BY <1>3, <2>1, Typed DEF BatchInv
<1> QED BY <1>2, <1>3, <1>5, <1>6

(* A step of the same process, or of others beside it, under which the     *)
(* table only grows and no try is said otherwise. *)
LEMMA CountKept ==
  ASSUME BatchInv, BatchInv', Counting,
         script'.base = script.base, script'.launch = script.launch,
         script'.logged = script.logged, Len(log) <= Len(log'),
         \A i \in RowIds : /\ log'[i].try = log[i].try
                           /\ ~log'[i].reviewed => ~log[i].reviewed,
         \A i \in RowIds' : i \notin RowIds /\ log'[i].try >= script.launch =>
           tries'[log'[i].try].said = "nothing",
         \A t \in TryIds : tries'[t].said = tries[t].said
  PROVE  /\ Undisturbed' => Undisturbed
         /\ Undisturbed' => script'.logged = Cardinality(Counted)'
<1>1. /\ Len(log) \in Nat /\ Len(log') \in Nat /\ Len(tries) \in Nat
      /\ script.base \in Nat /\ script.base <= Len(log)
      /\ Mine \subseteq RowIds
  BY CountedRows, Typed DEF BatchInv, BatchTypeOK
<1>2. Mine \subseteq Mine' /\ \A i \in Mine' : i \notin Mine => i \in RowIds' \ RowIds
  BY <1>1 DEF Mine, RowIds
<1>3. ASSUME Undisturbed' PROVE Undisturbed
  <2>1. PageLimit \in Nat /\ Len(log') <= PageLimit
    BY <1>3, Constants DEF Undisturbed
  <2>2. Len(log) <= PageLimit
    BY <1>1, <2>1
  <2>3. \A i \in Mine : log[i].try >= script.launch /\ ~log[i].reviewed
    BY <1>1, <1>2, <1>3 DEF Undisturbed
  <2> QED BY <2>2, <2>3 DEF Undisturbed
<1>4. ASSUME Undisturbed' PROVE Counted' = Counted
  <2>1. \A i \in Mine : log[i].try \in TryIds /\ log'[i].try = log[i].try
    BY <1>1, <1>3, <1>4, CountedRows
  <2>2. \A i \in Mine : tries'[log'[i].try].said = tries[log[i].try].said
    BY <2>1
  <2>3. \A i \in Mine' : i \notin Mine => tries'[log'[i].try].said = "nothing"
    BY <1>2, <1>4 DEF Undisturbed
  <2> QED BY <1>2, <2>2, <2>3 DEF Counted
<1> QED BY <1>3, <1>4 DEF Counting

(* A step of the prompt in hand, or of others beside it, that neither      *)
(* lists rows nor reports. *)
LEMMA CountingKept ==
  ASSUME BatchInv, BatchInv', Counting,
         script'.base = script.base, script'.launch = script.launch,
         script'.logged = script.logged,
         script'.pc \in {"running", "listing"} =>
           script.pc \in {"running", "listing"} /\ script'.before = script.before,
         Len(tries') = Len(tries),
         \A t \in TryIds : tries'[t].said = tries[t].said,
         Len(log) <= Len(log'), Len(log') <= Len(log) + 1,
         \A i \in RowIds : /\ log'[i].try = log[i].try
                           /\ ~log'[i].reviewed => ~log[i].reviewed,
         \A i \in RowIds' : i \notin RowIds =>
           \/ log'[i].try = Other
           \/ log'[i].try = Len(tries) /\ script.pc = "running"
  PROVE  Counting'
<1>1. /\ Len(log) \in Nat /\ Len(log') \in Nat /\ Len(tries) \in Nat
      /\ script.launch \in Nat \ {0} /\ script.base <= Len(log)
      /\ script.base \in Nat
  BY CountedRows, Typed DEF BatchInv, BatchTypeOK
<1>2. \A i \in RowIds' : i \notin RowIds => i = Len(log) + 1
  BY <1>1 DEF RowIds
<1>3. script.pc = "running" =>
        /\ Len(tries) \in TryIds /\ tries[Len(tries)].said = "nothing"
        /\ \A i \in RowIds : log[i].try # Len(tries)
  BY Typed DEF BatchInv, Course, InHand, Bracketed
<1>4. \A i \in RowIds' : i \notin RowIds /\ log'[i].try >= script.launch =>
        tries'[log'[i].try].said = "nothing"
  BY <1>1, <1>3 DEF Other
<1>5. /\ Undisturbed' => Undisturbed
      /\ Undisturbed' => script'.logged = Cardinality(Counted)'
  BY <1>4, CountKept
<1>6. ASSUME NEW i \in RowIds', NEW j \in RowIds',
             log'[i].try = log'[j].try, log'[i].try # Other
      PROVE  i = j
  <2>1. ASSUME NEW k \in RowIds, NEW n \in RowIds', n \notin RowIds,
               log'[n].try # Other
        PROVE  log'[k].try # log'[n].try
    BY <1>3, <2>1
  <2>2. CASE i \in RowIds /\ j \in RowIds
    BY <1>6, <2>2 DEF Counting
  <2>3. CASE i \notin RowIds /\ j \notin RowIds
    BY <1>2, <2>3
  <2> QED BY <1>6, <2>1, <2>2, <2>3
<1>7. ASSUME script'.pc \in {"running", "listing"}, Undisturbed',
             NEW i \in Unreviewed', log'[i].try # Len(tries)
      PROVE  i \in script.before
  <2>1. i \in RowIds' /\ ~log'[i].reviewed
    BY DEF Unreviewed
  <2>2. CASE i \in RowIds
    <3>1. i \in Unreviewed /\ log[i].try # Len(tries)
      BY <1>7, <2>1, <2>2 DEF Unreviewed
    <3> QED BY <1>5, <1>7, <3>1 DEF Counting
  <2>3. CASE i \notin RowIds
    <3>1. log'[i].try = Other /\ i = Len(log) + 1
      BY <1>2, <1>7, <2>1, <2>3
    <3>2. i \in Mine'
      BY <1>1, <2>1, <3>1 DEF Mine, RowIds
    <3> QED BY <1>1, <1>7, <3>1, <3>2 DEF Undisturbed, Other
  <2> QED BY <2>2, <2>3
<1>8. \A i \in RowIds' : i <= script.base => log'[i].try < script.launch
  BY <1>1, <1>2 DEF Counting
<1> QED BY <1>5, <1>6, <1>7, <1>8 DEF Counting

LEMMA LaunchCounts ==
  ASSUME BatchInv, Counting, NEW start \in Prompts, NEW limit \in Limits,
         NEW job, script' = [Launched(start, limit) EXCEPT !.job = job],
         UNCHANGED <<log, tries>>
  PROVE  Counting'
<1>1. /\ script \in Scripts(Len(tries), Len(log)) /\ Len(log) \in Nat
      /\ Len(tries) \in Nat
  BY Typed DEF BatchInv
<1>2. /\ script'.base = Len(log) /\ script'.logged = 0 /\ script'.pc = "next"
      /\ script'.launch = Len(tries) + 1
  BY <1>1 DEF Launched, Scripts
<1>0. \A i \in RowIds : log[i].try < Len(tries) + 1
  BY <1>1, Typed DEF BatchInv, TryIds, Other
<1>3. Counted' = {}
  BY <1>1, <1>2 DEF Counted, Mine
<1>4. Cardinality({}) = 0
  BY FS_EmptySet
<1> QED BY <1>0, <1>2, <1>3, <1>4 DEF Counting, RowIds

LEMMA BeginPromptCounts ==
  ASSUME BatchInv, BatchInv', Counting, BeginPrompt PROVE Counting'
<1> DEFINE h == Try(script.at)
<1>1. /\ tries' = Append(tries, h) /\ log' = log
      /\ script' = [script EXCEPT !.pc = "running", !.before = Page]
  BY DEF BeginPrompt
<1>2. /\ script \in Scripts(Len(tries), Len(log)) /\ tries \in Seq(Tries)
      /\ Len(tries) \in Nat /\ Len(log) \in Nat
  BY Typed DEF BatchInv
<1>3. h \in Tries
  <2>1. script.at \in Prompts
    BY <1>2, Constants DEF BeginPrompt, Scripts, Prompts
  <2> QED BY <2>1 DEF Try, Tries
<1> HIDE DEF h
<1>4. \A t \in TryIds : tries'[t] = tries[t]
  BY <1>1, <1>2, <1>3, AppendProperties DEF TryIds
<1>5. /\ script'.base = script.base /\ script'.launch = script.launch
      /\ script'.logged = script.logged /\ script'.before = Page
  BY <1>1, <1>2 DEF Scripts
<1>6. RowIds' = RowIds /\ Unreviewed' = Unreviewed
  BY <1>1 DEF RowIds, Unreviewed
<1>7. Undisturbed' => script'.logged = Cardinality(Counted)'
  <2>1. /\ Len(log) <= Len(log') /\ RowIds' = RowIds
        /\ \A i \in RowIds : log'[i] = log[i]
        /\ \A t \in TryIds : tries'[t].said = tries[t].said
    <3>1. Len(log') = Len(log) /\ \A i \in RowIds : log'[i] = log[i]
      BY <1>1
    <3>2. \A t \in TryIds : tries'[t].said = tries[t].said
      BY <1>4
    <3>3. Len(log) <= Len(log')
      BY <1>2, <3>1
    <3> QED BY <1>6, <3>1, <3>2, <3>3
  <2> QED BY <1>5, <2>1, CountKept
<1>8. Undisturbed' => Page = Unreviewed
  BY <1>1, <1>2, PageIsAll DEF Undisturbed
<1>9. Len(tries') = Len(tries) + 1 /\ script.launch <= Len(tries) + 1
  BY <1>1, <1>2 DEF Scripts
<1> QED BY <1>1, <1>5, <1>6, <1>7, <1>8, <1>9 DEF Counting

(* The script's own row of this prompt is the only one that was not there. *)
LEMMA ReportCounts ==
  ASSUME BatchInv, BatchInv', Counting, Report PROVE Counting'
<1> DEFINE landed == NewRows # {}
           h == [InHand EXCEPT !.said = IF landed THEN "logged" ELSE "declined"]
           one == IF landed THEN 1 ELSE 0
           n == Len(tries)
<1>1. /\ script.pc = "listing" /\ tries' = [tries EXCEPT ![Len(tries)] = h]
      /\ log' = log
      /\ script' = [script EXCEPT !.pc = "next", !.at = script.at + 1,
                                  !.before = {}, !.logged = script.logged + one]
  BY DEF Report, InHand
<1>2. /\ InHand \in Tries /\ n \in TryIds /\ n \in Nat /\ InHand.said = "nothing"
      /\ script \in Scripts(Len(tries), Len(log)) /\ Len(log) \in Nat
  BY <1>1, Typed DEF BatchInv, InHand, Course
<1>3. /\ script'.base = script.base /\ script'.launch = script.launch
      /\ script'.logged = script.logged + one /\ script'.pc = "next"
  BY <1>1, <1>2 DEF Scripts
<1>4. h \in Tries /\ h.said # "nothing"
  BY <1>2 DEF Tries
<1> HIDE DEF h, landed, n
<1>5. /\ tries'[n] = h /\ \A t \in TryIds : t # n => tries'[t] = tries[t]
  BY <1>1, <1>4, HandUpdated DEF BatchInv, n
<1>6. ASSUME Undisturbed'
      PROVE  script'.logged = Cardinality(Counted)'
  <2>1. Undisturbed /\ Mine' = Mine /\ Page = Unreviewed
    BY <1>1, <1>2, <1>3, <1>6, PageIsAll DEF Undisturbed, Mine
  <2>2. /\ IsFiniteSet(Counted) /\ Mine \subseteq RowIds
        /\ \A i \in Mine : log[i].try \in TryIds /\ ~log[i].reviewed
        /\ script.logged = Cardinality(Counted)
    BY <2>1, CountedRows DEF Counting, Undisturbed
  <2>3. Counted' = Counted \cup {i \in Mine : log[i].try = n}
    BY <1>1, <1>2, <1>4, <1>5, <2>1, <2>2 DEF Counted, InHand, n
  <2>4. \A i \in Unreviewed : i \in NewRows => log[i].try = n
    BY <1>1, <2>1 DEF Counting, NewRows, n
  <2>5. CASE \E i \in Mine : log[i].try = n
    <3>1. PICK i \in Mine : log[i].try = n
      BY <2>5
    <3>2. i \in NewRows
      BY <1>1, <2>1, <2>2, <3>1 DEF NewRows, Unreviewed, BatchInv, Bracketed, n
    <3>3. one = 1
      BY <3>2 DEF landed
    <3>4. \A j \in Mine : log[j].try = n => j = i
      BY <1>2, <2>2, <3>1 DEF Counting, Other, TryIds
    <3>5. Counted' = Counted \cup {i}
      BY <2>3, <3>1, <3>4
    <3>6. i \notin Counted
      BY <1>2, <3>1 DEF Counted, InHand, n
    <3>7. Cardinality(Counted \cup {i}) = Cardinality(Counted) + 1
      BY <2>2, <3>6, FS_AddElement
    <3> QED BY <1>3, <2>2, <3>3, <3>5, <3>7
  <2>6. CASE \A i \in Mine : log[i].try # n
    <3>1. one = 0
      <4>1. SUFFICES ASSUME NEW i \in NewRows PROVE FALSE
        BY DEF landed
      <4>2. i \in RowIds /\ log[i].try = n
        BY <2>1, <2>4 DEF NewRows, Unreviewed
      <4>3. ~(i <= script.base)
        BY <1>1, <1>2, <4>2, CountedRows DEF Counting, n
      <4>4. i \in Mine
        BY <1>2, <4>2, <4>3, CountedRows DEF Mine, RowIds
      <4> QED BY <2>6, <4>2, <4>4
    <3>2. Counted' = Counted
      BY <2>3, <2>6
    <3>3. script.logged + one = script.logged
      BY <1>2, <3>1 DEF Scripts
    <3> QED BY <1>3, <2>2, <3>2, <3>3
  <2> QED BY <2>5, <2>6
<1> QED BY <1>1, <1>3, <1>6 DEF Counting, RowIds

LEMMA DelegateCounts ==
  ASSUME BatchInv, BatchInv', Counting, Delegate PROVE Counting'
<1> DEFINE h == [InHand EXCEPT !.delegated = TRUE]
<1>1. /\ script.pc = "running" /\ tries' = [tries EXCEPT ![Len(tries)] = h]
      /\ log' = log /\ script' = script
  BY DEF Delegate, InHand
<1>2. InHand \in Tries /\ Len(log) \in Nat
  BY <1>1, Typed DEF BatchInv, InHand
<1>3. h \in Tries /\ h.said = InHand.said
  BY <1>2 DEF Tries
<1> HIDE DEF h
<1>4. /\ Len(tries') = Len(tries)
      /\ \A t \in TryIds : tries'[t].said = tries[t].said
  BY <1>1, <1>3, HandUpdated DEF BatchInv, InHand
<1>5. RowIds' = RowIds /\ Len(log') = Len(log)
  BY <1>1 DEF RowIds
<1> QED BY <1>1, <1>2, <1>4, <1>5, CountingKept

(* A call ends, in one way or another. *)
LEMMA EndedCounts ==
  ASSUME BatchInv, BatchInv', Counting, script.pc = "running",
         log' \in {log, Recorded},
         NEW h \in Tries, tries' = [tries EXCEPT ![Len(tries)] = h],
         h.said = "nothing", script'.base = script.base,
         script'.launch = script.launch, script'.logged = script.logged,
         script'.pc = "listing" => script'.before = script.before,
         script'.pc # "running"
  PROVE  Counting'
<1>1. tries[Len(tries)].said = "nothing" /\ Len(log) \in Nat
  BY Typed DEF BatchInv, Course, InHand
<1>2. /\ Len(tries') = Len(tries)
      /\ \A t \in TryIds : tries'[t].said = tries[t].said
  BY <1>1, HandUpdated DEF BatchInv
<1>3. /\ Len(log) <= Len(log')
      /\ \A i \in RowIds : log'[i] = log[i]
      /\ \A i \in RowIds' : i \notin RowIds => log'[i].try = Len(tries)
  BY LogAfter DEF BatchInv
<1>4. Len(log') <= Len(log) + 1
  <2>1. log \in Seq(Rows(Len(tries)))
    BY Typed DEF BatchInv
  <2>2. log' = log \/ \E row : log' = Append(log, row)
    BY DEF Recorded
  <2> QED BY <1>1, <2>1, <2>2
<1> QED BY <1>1, <1>2, <1>3, <1>4, CountingKept

LEMMA ReturnsCounts ==
  ASSUME BatchInv, BatchInv', Counting, Returns PROVE Counting'
<1> DEFINE h == [InHand EXCEPT !.state = "returned"]
<1>1. /\ script.pc = "running" /\ tries' = [tries EXCEPT ![Len(tries)] = h]
      /\ log' = Recorded /\ script' = [script EXCEPT !.pc = "listing"]
  BY DEF Returns, InHand
<1>2. InHand \in Tries /\ InHand.said = "nothing"
      /\ script \in Scripts(Len(tries), Len(log))
  BY <1>1, Typed DEF BatchInv, InHand, Course
<1>3. h \in Tries /\ h.said = "nothing"
  BY <1>2 DEF Tries
<1>4. /\ script'.pc = "listing" /\ script'.before = script.before
      /\ script'.base = script.base /\ script'.launch = script.launch
      /\ script'.logged = script.logged
  BY <1>1, <1>2 DEF Scripts
<1> HIDE DEF h
<1> QED BY <1>1, <1>3, <1>4, EndedCounts

LEMMA RunFailsCounts ==
  ASSUME BatchInv, BatchInv', Counting, NEW end \in {"failed", "crashed"},
         NEW kept \in BOOLEAN, RunFails(end, kept)
  PROVE  Counting'
<1> DEFINE h == [InHand EXCEPT !.state = "failed"]
<1>1. PICK told : script' = [script EXCEPT !.pc = end, !.before = {}, !.told = told]
  BY DEF RunFails
<1>2. /\ script.pc = "running" /\ tries' = [tries EXCEPT ![Len(tries)] = h]
      /\ log' \in {log, Recorded}
  BY DEF RunFails, InHand
<1>3. InHand \in Tries /\ InHand.said = "nothing"
      /\ script \in Scripts(Len(tries), Len(log))
  BY <1>2, Typed DEF BatchInv, InHand, Course
<1>4. h \in Tries /\ h.said = "nothing"
  BY <1>3 DEF Tries
<1>5. /\ script'.pc \notin {"listing", "running"}
      /\ script'.base = script.base /\ script'.launch = script.launch
      /\ script'.logged = script.logged
  BY <1>1, <1>3 DEF Scripts
<1> HIDE DEF h
<1> QED BY <1>2, <1>4, <1>5, EndedCounts

(* The process stops, between prompts or at a listing. *)
LEMMA StopCounts ==
  ASSUME BatchInv, BatchInv', Counting, ListingFails \/ Finish PROVE Counting'
<1>1. UNCHANGED <<log, tries>> /\ Len(log) \in Nat
  BY Typed DEF ListingFails, Finish, BatchInv
<1>2. script \in Scripts(Len(tries), Len(log))
  BY Typed DEF BatchInv
<1>3. /\ script'.pc \in {"crashed", "done"} /\ script'.base = script.base
      /\ script'.launch = script.launch /\ script'.logged = script.logged
  BY <1>2 DEF ListingFails, Finish, Scripts
<1>4. RowIds' = RowIds /\ Len(log') = Len(log)
  BY <1>1 DEF RowIds
<1> QED BY <1>1, <1>3, <1>4, CountingKept

LEMMA OtherRecordsCounts ==
  ASSUME BatchInv, BatchInv', Counting, OtherRecords PROVE Counting'
<1> DEFINE row == [try |-> Other, reviewed |-> FALSE]
<1>1. log' = Append(log, row) /\ UNCHANGED <<tries, script>>
  BY DEF OtherRecords
<1>2. log \in Seq(Rows(Len(tries))) /\ Len(log) \in Nat
  BY Typed DEF BatchInv
<1>3. row \in Rows(Len(tries)) /\ row.try = Other
  BY DEF Rows
<1> HIDE DEF row
<1>4. /\ Len(log') = Len(log) + 1 /\ log'[Len(log) + 1] = row
      /\ \A i \in 1 .. Len(log) : log'[i] = log[i]
  BY <1>1, <1>2, <1>3, AppendProperties
<1>5. /\ \A i \in RowIds : log'[i] = log[i]
      /\ \A i \in RowIds' : i \notin RowIds => log'[i].try = Other
  BY <1>2, <1>3, <1>4 DEF RowIds
<1>6. /\ script' = script /\ tries' = tries
      /\ Len(log) <= Len(log') /\ Len(log') <= Len(log) + 1
  BY <1>1, <1>2, <1>4
<1> QED BY <1>5, <1>6, CountingKept

LEMMA MarkReviewedCounts ==
  ASSUME BatchInv, BatchInv', Counting, NEW i \in RowIds, MarkReviewed(i)
  PROVE  Counting'
<1> DEFINE row == [log[i] EXCEPT !.reviewed = TRUE]
<1>1. log' = [log EXCEPT ![i] = row] /\ UNCHANGED <<tries, script>>
  BY DEF MarkReviewed
<1>2. /\ log \in Seq(Rows(Len(tries))) /\ Len(log) \in Nat
      /\ i \in 1 .. Len(log) /\ log[i] \in Rows(Len(tries))
  BY Typed DEF BatchInv, RowIds
<1>3. row \in Rows(Len(tries)) /\ row.try = log[i].try /\ row.reviewed
  BY <1>2 DEF Rows
<1> HIDE DEF row
<1>4. /\ Len(log') = Len(log)
      /\ \A j \in 1 .. Len(log) : log'[j] = IF j = i THEN row ELSE log[j]
  BY <1>1, <1>2, <1>3, ExceptSeq
<1>5. /\ RowIds' = RowIds
      /\ \A j \in RowIds : /\ log'[j].try = log[j].try
                           /\ ~log'[j].reviewed => ~log[j].reviewed
  BY <1>3, <1>4 DEF RowIds
<1> QED BY <1>1, <1>2, <1>4, <1>5, CountingKept

LEMMA CountingStep == BatchInv /\ BatchInv' /\ Counting /\ [Next]_vars => Counting'
<1> SUFFICES ASSUME BatchInv, BatchInv', Counting, [Next]_vars PROVE Counting'
  OBVIOUS
<1>1. ASSUME NEW start \in Prompts, NEW limit \in Limits, Begin(start, limit)
      PROVE  Counting'
  BY <1>1, LaunchCounts DEF Begin
<1>2. CASE Resume
  <2>1. script \in Scripts(Len(tries), Len(log)) /\ NoLimit \in Limits
    BY Typed DEF BatchInv, Limits
  <2>2. script.told \in Prompts
    BY <2>1 DEF Scripts
  <2>3. /\ script' = [Launched(script.told, NoLimit) EXCEPT !.job = script.job]
        /\ UNCHANGED <<log, tries>>
    BY <1>2, <2>1 DEF Resume, Launched, Scripts
  <2> QED BY <2>1, <2>2, <2>3, LaunchCounts
<1>3. CASE UNCHANGED vars
  BY <1>3 DEF vars, Counting, Undisturbed, Counted, Mine, Unreviewed, RowIds
<1> QED
  BY <1>1, <1>2, <1>3, BeginPromptCounts, DelegateCounts, ReturnsCounts,
     RunFailsCounts, StopCounts, ReportCounts, OtherRecordsCounts,
     MarkReviewedCounts
  DEF Next

(* While a process is left alone with its rows, its count of logged        *)
(* prompts is the number of rows they left, for any number of prompts,     *)
(* failures and earlier processes. *)
THEOREM CountIsExact == Spec => []CountExact
<1>1. Counting => CountExact
  BY DEF Counting, CountExact, Undisturbed, Counted, Mine
<1> QED BY <1>1, CountingInit, CountingStep, BatchInvariance, PTL DEF Spec
=============================================================================
