------------------------- MODULE AccountLookupProofs -------------------------
(* The opportunity a case acts on, whatever Salesforce holds, however long *)
(* the window is and whenever midnight falls.                              *)
EXTENDS AccountLookup, FiniteSetTheorems, TLAPS

(* Before a query has counted, nothing is kept. *)
NothingKept ==
  stage \in {"exact", "widened", "ambiguous_account", "no_opportunity", "error"}
    => records = {}

(* What the pick was on the day it was made. *)
PickWasBest ==
  stage \in {"judge", "passed", "outside_window"} =>
    \A o \in records : Dated(o) =>
      /\ Dated(picked)
      /\ IF agent = Renewal
         THEN Away(picked, chosenOn) <= Away(o, chosenOn)
         ELSE Close(picked) >= Close(o)

(* What the judgement was on the day it was made. *)
JudgedByWindow ==
  /\ stage \in {"passed", "outside_window"} => chosenOn <= judgedOn
  /\ stage = "outside_window" => Dated(picked) /\ Away(picked, judgedOn) > Window
  /\ stage = "passed" => ~Dated(picked) \/ Away(picked, judgedOn) <= Window

LookupInv ==
  /\ LookupTypeOK
  /\ OwnAccountOnly
  /\ OneAccount
  /\ MissJustified
  /\ NothingKept
  /\ PickWasBest
  /\ JudgedByWindow

-----------------------------------------------------------------------------
(* Helpers. *)

LEMMA AnswersAreHits ==
  ASSUME NEW hits, NEW limit, NEW got \in Answers(hits, limit)
  PROVE  got \subseteq hits /\ (Cardinality(hits) <= limit => got = hits
                                \/ Cardinality(hits) > limit)
BY DEF Answers

(* An answer that its LIMIT did not cut is complete. *)
LEMMA UncutAnswer ==
  ASSUME NEW hits \in SUBSET Opps, NEW limit \in Nat,
         NEW got \in Answers(hits, limit), Cardinality(hits) <= limit
  PROVE  got = hits
<1>1. Cardinality(hits) \in Nat
  BY OppAssumption, FS_Subset, FS_CardinalityType
<1>2. ~(Cardinality(hits) > limit)
  BY <1>1
<1> QED BY <1>2 DEF Answers

(* No two accounts left means one account. *)
LEMMA NotAmbiguous ==
  ASSUME NEW S \in SUBSET Accounts, ~Ambiguous(S), NEW a \in S, NEW b \in S
  PROVE  a = b
<1>1. IsFiniteSet(S) /\ Cardinality(S) \in Nat
  BY OppAssumption, FS_Subset, FS_CardinalityType
<1>2. SUFFICES ASSUME a # b PROVE FALSE
  OBVIOUS
<1>3. IsFiniteSet({a}) /\ Cardinality({a}) = 1
  BY FS_Singleton
<1>4. Cardinality({a} \cup {b}) = 2 /\ IsFiniteSet({a} \cup {b})
  BY <1>2, <1>3, FS_AddElement
<1>5. Cardinality({a} \cup {b}) <= Cardinality(S)
  <2>1. ({a} \cup {b}) \in SUBSET S
    OBVIOUS
  <2> QED BY <1>1, <2>1, FS_Subset
<1> QED BY <1>1, <1>4, <1>5 DEF Ambiguous

(* The same name but for a period normalises alike, and only the same      *)
(* words do.                                                               *)
LEMMA NormalizedButForPeriod ==
  ASSUME NEW n
  PROVE  /\ ButForPeriod(n) => Normalized(n) = Normalized(given)
         /\ Normalized(n) = Normalized(given) => n.root = given.root
<1>1. ASSUME ButForPeriod(n)
      PROVE  Normalized(n) = Normalized(given)
  <2>1. n.root = given.root /\ n.tail # "blank_dot" /\ given.tail # "blank_dot"
    BY <1>1 DEF ButForPeriod
  <2> QED BY <2>1 DEF Normalized
<1>2. ASSUME Normalized(n) = Normalized(given)
      PROVE  n.root = given.root
  <2>1. Normalized(n).root = n.root /\ Normalized(given).root = given.root
    BY DEF Normalized
  <2> QED BY <1>2, <2>1
<1> QED BY <1>1, <1>2

(* LIKE hits every stored name that has a period more than the given one.  *)
LEMMA PeriodOccurs ==
  ASSUME LookupTypeOK, NEW n \in Spellings, ButForPeriod(n), given.tail = "none"
  PROVE  Occurs(given, n)
<1>1. given \in Spellings
  BY DEF LookupTypeOK
<1>2. given.root \in Roots /\ n.root = given.root /\ n.doubled = given.doubled
  BY <1>1, NameAssumption DEF ButForPeriod
<1> QED BY <1>2, NameAssumption DEF Occurs

LEMMA BookNames ==
  ASSUME NEW b \in Books, NEW o \in Opps
  PROVE  /\ NameOf(b, o) \in Spellings
         /\ b.opp[o].account \in Accounts
         /\ b.opp[o].close \in Int \cup {NoDate}
BY DateAssumption DEF Books, NameOf

(* Days away are a number, and one day moves them by one at most.          *)
LEMMA AwayMoves ==
  ASSUME LookupTypeOK, NEW o \in records, Dated(o),
         NEW d \in Int, NEW e \in Int, d <= e
  PROVE  /\ Away(o, d) \in Int /\ Away(o, e) \in Int
         /\ Away(o, d) - (e - d) <= Away(o, e)
         /\ Away(o, e) <= Away(o, d) + (e - d)
<1>1. o \in Opps /\ book \in Books
  BY DEF LookupTypeOK
<1>2. Close(o) \in Int
  BY <1>1, BookNames DEF Close, Dated
<1> QED BY <1>2 DEF Away

(* A step that leaves the book and what was kept of it alone.              *)
LEMMA KeptAsItWas ==
  ASSUME OwnAccountOnly, OneAccount, UNCHANGED <<given, book, records>>
  PROVE  /\ OwnAccountOnly' /\ OneAccount'
         /\ stage' # "no_opportunity" => MissJustified'
BY DEF OwnAccountOnly, OneAccount, MissJustified, LikeHits, Occurs, NameOf,
       ButForPeriod

-----------------------------------------------------------------------------
(* Each action keeps the invariant. *)

LEMMA LookupInit == Init => LookupInv
<1> SUFFICES ASSUME Init PROVE LookupInv
  OBVIOUS
<1> USE DEF Init
<1>1. LookupTypeOK
  BY DEF LookupTypeOK, Stages, Stops
<1>2. OwnAccountOnly /\ OneAccount /\ MissJustified
  BY DEF OwnAccountOnly, OneAccount, MissJustified
<1>3. NothingKept /\ PickWasBest /\ JudgedByWindow
  BY DEF NothingKept, PickWasBest, JudgedByWindow
<1> QED BY <1>1, <1>2, <1>3 DEF LookupInv

LEMMA QueryExactStep == LookupInv /\ QueryExact => LookupInv'
<1> SUFFICES ASSUME LookupInv, QueryExact PROVE LookupInv'
  OBVIOUS
<1>0. LookupTypeOK /\ records = {} /\ stage = "exact" /\ stale = {}
  BY DEF LookupInv, LookupTypeOK, QueryExact, NothingKept
<1>1. PICK b \in Books : \E got \in Answers(ExactHits(b), ExactLimit) :
        IF got = {}
        THEN stage' = "widened" /\ UNCHANGED <<book, records>>
        ELSE stage' = AfterLookup /\ book' = b /\ records' = got
  BY DEF QueryExact
<1>2. PICK got \in Answers(ExactHits(b), ExactLimit) :
        IF got = {}
        THEN stage' = "widened" /\ UNCHANGED <<book, records>>
        ELSE stage' = AfterLookup /\ book' = b /\ records' = got
  BY <1>1
<1>3. UNCHANGED <<agent, given, today, stale, picked, chosenOn, judgedOn>>
  BY DEF QueryExact
<1>4. AfterLookup \in {"hygiene", "choose"}
  BY DEF AfterLookup
<1>5. CASE got = {}
  <2>1. stage' = "widened" /\ book' = book /\ records' = {}
    BY <1>0, <1>2, <1>5
  <2>2. LookupTypeOK'
    BY <1>0, <1>3, <2>1 DEF LookupTypeOK, Stages, Stops
  <2>3. OwnAccountOnly' /\ OneAccount' /\ MissJustified'
    BY <2>1 DEF OwnAccountOnly, OneAccount, MissJustified
  <2>4. NothingKept' /\ PickWasBest' /\ JudgedByWindow'
    BY <2>1 DEF NothingKept, PickWasBest, JudgedByWindow
  <2> QED BY <2>2, <2>3, <2>4 DEF LookupInv
<1>6. CASE got # {}
  <2>1. stage' \in {"hygiene", "choose"} /\ book' = b /\ records' = got
    BY <1>2, <1>4, <1>6
  <2>2. got \subseteq Opps /\ \A o \in got : NameOf(b, o) = given
    BY AnswersAreHits DEF ExactHits
  <2>3. LookupTypeOK'
    <3>1. picked = NoOpp
      BY <1>0 DEF LookupTypeOK
    <3> QED BY <1>0, <1>3, <1>6, <2>1, <2>2, <3>1 DEF LookupTypeOK, Stages, Stops
  <2>4. \A o \in records' : NameOf(book', o) = given'
    BY <1>3, <2>1, <2>2
  <2>5. OwnAccountOnly' /\ OneAccount' /\ MissJustified'
    BY <2>1, <2>4 DEF OwnAccountOnly, OneAccount, MissJustified
  <2>6. NothingKept' /\ PickWasBest' /\ JudgedByWindow'
    BY <2>1 DEF NothingKept, PickWasBest, JudgedByWindow
  <2> QED BY <2>3, <2>5, <2>6 DEF LookupInv
<1> QED BY <1>5, <1>6

LEMMA QueryWidenedStep == LookupInv /\ QueryWidened => LookupInv'
<1> SUFFICES ASSUME LookupInv, QueryWidened PROVE LookupInv'
  OBVIOUS
<1>0. LookupTypeOK /\ records = {} /\ stale = {} /\ picked = NoOpp
  BY DEF LookupInv, LookupTypeOK, QueryWidened, NothingKept
<1> DEFINE accountsIn(b, got) == {b.opp[o].account : o \in TieBroken(b, got)}
           answered(b, got) ==
             /\ book' = b
             /\ \/ /\ Ambiguous(accountsIn(b, got))
                   /\ stage' = "ambiguous_account" /\ UNCHANGED records
                \/ /\ accountsIn(b, got) = {}
                   /\ stage' = "no_opportunity" /\ UNCHANGED records
                \/ /\ ~Ambiguous(accountsIn(b, got))
                   /\ \E a \in accountsIn(b, got) :
                        records' = {o \in got : b.opp[o].account = a}
                   /\ stage' = AfterLookup
<1>1. PICK b \in Books : \E got \in Answers(LikeHits(b), WideLimit) :
        answered(b, got)
  BY DEF QueryWidened, Stop
<1>2. PICK got \in Answers(LikeHits(b), WideLimit) : answered(b, got)
  BY <1>1
<1>3. UNCHANGED <<agent, given, today, stale, picked, chosenOn, judgedOn>>
  BY DEF QueryWidened
<1>4. got \subseteq LikeHits(b) /\ LikeHits(b) \subseteq Opps
  BY AnswersAreHits DEF LikeHits
<1>5. Cardinality(LikeHits(b)) <= WideLimit => got = LikeHits(b)
  BY <1>4, UncutAnswer, LimitAssumption
<1>6. \A o \in Opps : NameOf(b, o) \in Spellings /\ b.opp[o].account \in Accounts
  BY BookNames
<1>7. \A o \in got : ButForPeriod(NameOf(b, o)) => o \in TieBroken(b, got)
  BY NormalizedButForPeriod DEF TieBroken
<1>8. CASE /\ Ambiguous(accountsIn(b, got))
           /\ stage' = "ambiguous_account" /\ UNCHANGED records
  <2>1. records' = {} /\ book' = b /\ stage' = "ambiguous_account"
    BY <1>0, <1>2, <1>8
  <2>2. LookupTypeOK'
    BY <1>0, <1>3, <2>1 DEF LookupTypeOK, Stages, Stops
  <2>3. OwnAccountOnly' /\ OneAccount' /\ MissJustified'
    BY <2>1 DEF OwnAccountOnly, OneAccount, MissJustified
  <2>4. NothingKept' /\ PickWasBest' /\ JudgedByWindow'
    BY <2>1 DEF NothingKept, PickWasBest, JudgedByWindow
  <2> QED BY <2>2, <2>3, <2>4 DEF LookupInv
<1>9. CASE /\ accountsIn(b, got) = {}
           /\ stage' = "no_opportunity" /\ UNCHANGED records
  <2>1. records' = {} /\ book' = b /\ stage' = "no_opportunity"
    BY <1>0, <1>2, <1>9
  <2>2. LookupTypeOK'
    BY <1>0, <1>3, <2>1 DEF LookupTypeOK, Stages, Stops
  <2>3. OwnAccountOnly' /\ OneAccount'
    BY <2>1 DEF OwnAccountOnly, OneAccount
  <2>4. TieBroken(b, got) = {}
    BY <1>9
  <2>5. ASSUME given.tail = "none", Cardinality(LikeHits(b)) <= WideLimit,
               NEW o \in Opps, ButForPeriod(NameOf(b, o))
        PROVE  FALSE
    <3>1. Occurs(given, NameOf(b, o))
      BY <1>0, <1>6, <2>5, PeriodOccurs
    <3>2. o \in got
      BY <1>5, <2>5, <3>1 DEF LikeHits
    <3> QED BY <1>7, <2>4, <2>5, <3>2
  <2>6. MissJustified'
    BY <1>3, <2>1, <2>5 DEF MissJustified, LikeHits, Occurs, ButForPeriod, NameOf
  <2>7. NothingKept' /\ PickWasBest' /\ JudgedByWindow'
    BY <2>1 DEF NothingKept, PickWasBest, JudgedByWindow
  <2> QED BY <2>2, <2>3, <2>6, <2>7 DEF LookupInv
<1>10. CASE /\ ~Ambiguous(accountsIn(b, got))
            /\ \E a \in accountsIn(b, got) :
                 records' = {o \in got : b.opp[o].account = a}
            /\ stage' = AfterLookup
  <2>1. PICK a \in accountsIn(b, got) :
          records' = {o \in got : b.opp[o].account = a}
    BY <1>10
  <2>2. book' = b /\ stage' \in {"hygiene", "choose"}
    BY <1>2, <1>10 DEF AfterLookup
  <2>3. PICK w \in TieBroken(b, got) : a = b.opp[w].account
    OBVIOUS
  <2>4. w \in got /\ Normalized(NameOf(b, w)) = Normalized(given)
    BY <2>3 DEF TieBroken
  <2>5. records' \subseteq Opps /\ w \in records'
    BY <1>4, <2>1, <2>3, <2>4
  <2>6. LookupTypeOK'
    BY <1>0, <1>3, <2>2, <2>5 DEF LookupTypeOK, Stages, Stops
  <2>7. \A o \in records' : NameOf(b, o) = NameOf(b, w)
    BY <2>1, <2>3 DEF NameOf
  <2>8. OwnAccountOnly'
    <3>1. NameOf(b, w).root = given.root
      BY <2>4, NormalizedButForPeriod
    <3>2. \A o \in records' : NameOf(book', o).root = given'.root
      BY <1>3, <2>2, <2>7, <3>1
    <3> QED BY <3>2 DEF OwnAccountOnly
  <2>9. ASSUME Cardinality(LikeHits(b)) <= WideLimit,
               NEW o \in records', NEW p \in LikeHits(b),
               ButForPeriod(NameOf(b, p))
        PROVE  b.opp[o].account = b.opp[p].account
    <3>1. p \in TieBroken(b, got)
      BY <1>5, <1>7, <2>9
    <3>2. b.opp[p].account \in accountsIn(b, got)
      BY <3>1
    <3>3. accountsIn(b, got) \in SUBSET Accounts
      BY <1>4, <1>6 DEF TieBroken
    <3>4. ~Ambiguous(accountsIn(b, got))
      BY <1>10
    <3> HIDE DEF accountsIn
    <3>5. b.opp[p].account = a
      BY <3>2, <3>3, <3>4, NotAmbiguous
    <3> QED BY <2>1, <3>5
  <2>10. OneAccount'
    <3>1. LikeHits(book)' = LikeHits(b)
      BY <1>3, <2>2 DEF LikeHits, Occurs, NameOf
    <3>2. \A p : ButForPeriod(NameOf(book, p))' <=> ButForPeriod(NameOf(b, p))
      BY <1>3, <2>2 DEF ButForPeriod, NameOf
    <3>3. SUFFICES ASSUME Cardinality(LikeHits(b)) <= WideLimit,
                          NEW o \in records', NEW p \in LikeHits(b),
                          ButForPeriod(NameOf(b, p))
                   PROVE  book'.opp[o].account = book'.opp[p].account
      BY <3>1, <3>2 DEF OneAccount
    <3> QED BY <2>2, <2>9, <3>3
  <2>11. MissJustified' /\ NothingKept' /\ PickWasBest' /\ JudgedByWindow'
    BY <2>2 DEF MissJustified, NothingKept, PickWasBest, JudgedByWindow
  <2> QED BY <2>6, <2>8, <2>10, <2>11 DEF LookupInv
<1> QED BY <1>2, <1>8, <1>9, <1>10

LEMMA NoteStaleStep == LookupInv /\ NoteStale => LookupInv'
<1> SUFFICES ASSUME LookupInv, NoteStale PROVE LookupInv'
  OBVIOUS
<1>1. stage = "hygiene" /\ stage' = "choose"
  BY DEF NoteStale
<1>2. UNCHANGED <<agent, given, today, book, records, picked, chosenOn, judgedOn>>
  BY DEF NoteStale
<1>3. stale' \subseteq records
  BY DEF NoteStale
<1>4. LookupTypeOK'
  BY <1>1, <1>2, <1>3 DEF LookupInv, LookupTypeOK, Stages, Stops
<1>5. OwnAccountOnly' /\ OneAccount' /\ MissJustified'
  BY <1>1, <1>2, KeptAsItWas DEF LookupInv
<1>6. NothingKept' /\ PickWasBest' /\ JudgedByWindow'
  BY <1>1 DEF NothingKept, PickWasBest, JudgedByWindow
<1> QED BY <1>4, <1>5, <1>6 DEF LookupInv

LEMMA ChooseStep == LookupInv /\ Choose => LookupInv'
<1> SUFFICES ASSUME LookupInv, Choose PROVE LookupInv'
  OBVIOUS
<1>1. stage = "choose" /\ stage' = "judge" /\ chosenOn' = today
  BY DEF Choose
<1>2. UNCHANGED <<agent, given, today, book, records, stale, judgedOn>>
  BY DEF Choose
<1>3. /\ picked' \in records
      /\ IF agent = Renewal THEN Closest(picked') ELSE Latest(picked')
  BY DEF Choose
<1>4. LookupTypeOK'
  BY <1>1, <1>2, <1>3 DEF LookupInv, LookupTypeOK, Stages, Stops
<1>5. OwnAccountOnly' /\ OneAccount' /\ MissJustified'
  BY <1>1, <1>2, KeptAsItWas DEF LookupInv
<1>6. PickWasBest'
  <2>1. ASSUME NEW o \in records, Dated(o)
        PROVE  /\ Dated(picked')
               /\ IF agent = Renewal
                  THEN Away(picked', today) <= Away(o, today)
                  ELSE Close(picked') >= Close(o)
    BY <1>3, <2>1 DEF Closest, Latest
  <2> QED BY <1>1, <1>2, <2>1 DEF PickWasBest, Dated, Away, Close
<1>7. NothingKept' /\ JudgedByWindow'
  BY <1>1 DEF NothingKept, JudgedByWindow
<1> QED BY <1>4, <1>5, <1>6, <1>7 DEF LookupInv

LEMMA JudgeStep == LookupInv /\ Judge => LookupInv'
<1> SUFFICES ASSUME LookupInv, Judge PROVE LookupInv'
  OBVIOUS
<1>1. stage = "judge" /\ judgedOn' = today
  BY DEF Judge
<1>2. UNCHANGED <<agent, given, today, book, records, stale, picked, chosenOn>>
  BY DEF Judge
<1>3. IF Dated(picked) /\ Away(picked, today) > Window
      THEN stage' = "outside_window" ELSE stage' = "passed"
  BY DEF Judge, Stop
<1>4. stage' \in {"outside_window", "passed"}
  BY <1>3
<1>5. LookupTypeOK'
  BY <1>1, <1>2, <1>4 DEF LookupInv, LookupTypeOK, Stages, Stops
<1>6. OwnAccountOnly' /\ OneAccount' /\ MissJustified'
  BY <1>2, <1>4, KeptAsItWas DEF LookupInv
<1>7. NothingKept' /\ PickWasBest'
  BY <1>1, <1>2, <1>4 DEF LookupInv, NothingKept, PickWasBest, Dated, Away, Close
<1>8. JudgedByWindow'
  <2>1. chosenOn <= today
    BY DEF LookupInv, LookupTypeOK
  <2>2. picked \in Opps /\ book \in Books /\ today \in Int
    BY <1>1 DEF LookupInv, LookupTypeOK
  <2>3. Dated(picked) => Away(picked, today) \in Int
    BY <2>2, BookNames DEF Dated, Away, Close
  <2>4. \/ stage' = "outside_window" /\ Dated(picked) /\ Away(picked, today) > Window
        \/ stage' = "passed" /\ (~Dated(picked) \/ Away(picked, today) <= Window)
    BY <1>3, <2>3, LimitAssumption
  <2> QED BY <1>1, <1>2, <2>1, <2>4 DEF JudgedByWindow, Dated, Away, Close
<1> QED BY <1>5, <1>6, <1>7, <1>8 DEF LookupInv

LEMMA OtherSteps ==
  LookupInv /\ (QueryFails \/ Midnight \/ UNCHANGED vars) => LookupInv'
<1> SUFFICES ASSUME LookupInv, QueryFails \/ Midnight \/ UNCHANGED vars
             PROVE  LookupInv'
  OBVIOUS
<1>1. CASE QueryFails
  <2>1. UNCHANGED <<agent, given, today, book, records, stale, picked,
                    chosenOn, judgedOn>>
    BY <1>1 DEF QueryFails
  <2>2. stage \in {"exact", "widened"} /\ stage' = "error"
    BY <1>1 DEF QueryFails, Stop
  <2>3. LookupTypeOK'
    BY <2>1, <2>2 DEF LookupInv, LookupTypeOK, Stages, Stops
  <2>4. OwnAccountOnly' /\ OneAccount' /\ MissJustified'
    BY <2>1, <2>2, KeptAsItWas DEF LookupInv
  <2>5. NothingKept' /\ PickWasBest' /\ JudgedByWindow'
    BY <2>1, <2>2 DEF LookupInv, NothingKept, PickWasBest, JudgedByWindow
  <2> QED BY <2>3, <2>4, <2>5 DEF LookupInv
<1>2. CASE Midnight \/ UNCHANGED vars
  <2>1. UNCHANGED <<agent, given, stage, book, records, stale, picked,
                    chosenOn, judgedOn>>
    BY <1>2 DEF Midnight, vars
  <2>2. today' = today + 1 \/ today' = today
    BY <1>2 DEF Midnight, vars
  <2>3. LookupTypeOK'
    BY <2>1, <2>2 DEF LookupInv, LookupTypeOK
  <2>4. OwnAccountOnly' /\ OneAccount'
    BY <2>1, KeptAsItWas DEF LookupInv
  <2>5. MissJustified'
    BY <2>1 DEF LookupInv, MissJustified, LikeHits, Occurs, NameOf, ButForPeriod
  <2>6. NothingKept' /\ PickWasBest' /\ JudgedByWindow'
    BY <2>1 DEF LookupInv, NothingKept, PickWasBest, JudgedByWindow, Dated,
                Away, Close
  <2> QED BY <2>3, <2>4, <2>5, <2>6 DEF LookupInv
<1> QED BY <1>1, <1>2

LEMMA LookupStep == LookupInv /\ [Next]_vars => LookupInv'
BY QueryExactStep, QueryWidenedStep, NoteStaleStep, ChooseStep, JudgeStep,
   OtherSteps DEF Next

(* What the invariant says about a judged opportunity: the arithmetic of   *)
(* two days.                                                               *)
LEMMA StopsFollow == LookupInv => StopJustified
<1> SUFFICES ASSUME LookupInv, stage = "outside_window",
                    NEW o \in records, Dated(o)
             PROVE  IF agent = Renewal
                    THEN Away(o, judgedOn) > Window - 2 * (judgedOn - chosenOn)
                    ELSE Close(picked) <= judgedOn => Away(o, judgedOn) > Window
  BY DEF StopJustified
<1>1. LookupTypeOK /\ picked \in records /\ Dated(picked)
  BY DEF LookupInv, LookupTypeOK, JudgedByWindow
<1>2. chosenOn \in Int /\ judgedOn \in Int /\ chosenOn <= judgedOn
  BY DEF LookupInv, LookupTypeOK, JudgedByWindow
<1>3. Away(picked, judgedOn) > Window /\ Window \in Int
  BY LimitAssumption DEF LookupInv, JudgedByWindow
<1>4. CASE agent = Renewal
  <2>1. Away(picked, chosenOn) <= Away(o, chosenOn)
    BY <1>4 DEF LookupInv, PickWasBest
  <2>2. /\ Away(o, chosenOn) \in Int /\ Away(o, judgedOn) \in Int
        /\ Away(o, chosenOn) - (judgedOn - chosenOn) <= Away(o, judgedOn)
    BY <1>1, <1>2, AwayMoves
  <2>3. /\ Away(picked, chosenOn) \in Int /\ Away(picked, judgedOn) \in Int
        /\ Away(picked, judgedOn) <= Away(picked, chosenOn) + (judgedOn - chosenOn)
    BY <1>1, <1>2, AwayMoves
  <2>4. Away(o, judgedOn) > Window - 2 * (judgedOn - chosenOn)
    BY <1>2, <1>3, <2>1, <2>2, <2>3
  <2> QED BY <1>4, <2>4
<1>5. CASE agent # Renewal
  <2>1. Close(picked) >= Close(o)
    BY <1>5 DEF LookupInv, PickWasBest
  <2>2. Close(picked) \in Int /\ Close(o) \in Int
    <3>1. picked \in Opps /\ o \in Opps /\ book \in Books
      BY <1>1 DEF LookupTypeOK
    <3> QED BY <1>1, <3>1, BookNames DEF Close, Dated
  <2>3. Close(picked) <= judgedOn => Away(o, judgedOn) > Window
    BY <1>2, <1>3, <2>1, <2>2 DEF Away
  <2> QED BY <1>5, <2>3
<1> QED BY <1>4, <1>5

LEMMA PicksFollow == LookupInv => PickJustified
<1> SUFFICES ASSUME LookupInv, stage = "passed" PROVE PickJustified
  BY DEF PickJustified
<1>1. CASE Dated(picked)
  <2>1. Away(picked, judgedOn) <= Window
    BY <1>1 DEF LookupInv, JudgedByWindow
  <2>2. ASSUME agent = Onboarding, NEW o \in records, Dated(o)
        PROVE  Close(o) <= Close(picked)
    <3>1. Close(picked) >= Close(o)
      BY <2>2 DEF LookupInv, PickWasBest, Onboarding, Renewal
    <3>2. picked \in Opps /\ o \in Opps /\ book \in Books
      BY DEF LookupInv, LookupTypeOK
    <3>3. Close(picked) \in Int /\ Close(o) \in Int
      BY <1>1, <2>2, <3>2, BookNames DEF Close, Dated
    <3> QED BY <3>1, <3>3
  <2> QED BY <1>1, <2>1, <2>2 DEF PickJustified
<1>2. CASE ~Dated(picked)
  <2>1. \A o \in records : ~Dated(o)
    BY <1>2 DEF LookupInv, PickWasBest
  <2> QED BY <2>1 DEF PickJustified
<1> QED BY <1>1, <1>2

-----------------------------------------------------------------------------
(* Everything the lookup keeps true, for any content of Salesforce at each *)
(* query, any limits and window, and midnight anywhere.                    *)
THEOREM LookupInvariance == Spec => []LookupInv
<1> QED BY LookupInit, LookupStep, PTL DEF Spec

(* The lookup's variables are always well formed. *)
THEOREM LookupTyped == Spec => []LookupTypeOK
<1>1. LookupInv => LookupTypeOK
  BY DEF LookupInv
<1> QED BY <1>1, LookupInvariance, PTL

(* No opportunity of a sibling account is ever acted on or reported. *)
THEOREM SiblingsLeftAlone == Spec => []OwnAccountOnly
<1>1. LookupInv => OwnAccountOnly
  BY DEF LookupInv
<1> QED BY <1>1, LookupInvariance, PTL

(* A widened search that goes on means one account. *)
THEOREM WidenedMeansOneAccount == Spec => []OneAccount
<1>1. LookupInv => OneAccount
  BY DEF LookupInv
<1> QED BY <1>1, LookupInvariance, PTL

(* A case that finds nothing for a name without a period had none to find. *)
THEOREM MissesJustified == Spec => []MissJustified
<1>1. LookupInv => MissJustified
  BY DEF LookupInv
<1> QED BY <1>1, LookupInvariance, PTL

(* A renewal stopped for its dates kept no record in the window, but for   *)
(* twice the days that passed between choosing and judging; an onboarding  *)
(* so stopped kept none, unless its latest deal lies in the future.        *)
THEOREM StopsJustified == Spec => []StopJustified
<1> QED BY StopsFollow, LookupInvariance, PTL

(* The opportunity a case goes on with was in the window when judged, or   *)
(* no opportunity had a date.                                              *)
THEOREM PicksJustified == Spec => []PickJustified
<1> QED BY PicksFollow, LookupInvariance, PTL
=============================================================================
