---------------------------- MODULE AccountLookup ----------------------------
(***************************************************************************)
(* Which opportunity a case acts on: verify_account of order_renewal and   *)
(* detect of customer_onboarding look the account up by its exact name,    *)
(* then, when nothing answers, by a widened LIKE query whose hits are      *)
(* sorted out by normalised name; pick one opportunity; and stop unless it *)
(* is within a window of days around today.                                *)
(*                                                                         *)
(* Salesforce is external and may hold anything at each query.  The code   *)
(* asks for the date again at each place that needs it, so midnight may    *)
(* fall between any two of them.  Dates are numbers of days.               *)
(*                                                                         *)
(* A spelling of a name is its words (root), whether the words are apart   *)
(* by more than one blank, and what follows the last word: nothing, a      *)
(* period, or a blank and a period.  Case is left out: SOQL compares text  *)
(* without it, and casefold removes it.                                    *)
(***************************************************************************)
EXTENDS Integers, FiniteSets

CONSTANTS
  Roots,       \* names without their punctuation
  Within,      \* <<r, s>>: the text of r, ending at a word, begins that of s
  Accounts,    \* Salesforce account ids
  Opps,        \* Salesforce opportunity ids
  NoOpp,       \* no opportunity picked yet
  Closes,      \* the close dates that occur
  NoDate,      \* an opportunity without a CloseDate
  Window,      \* renewal_window_days / onboarding_window_days
  ExactLimit,  \* LIMIT of the exact query
  WideLimit,   \* LIMIT of the widened query
  Spellings,   \* the spellings that occur
  MaxDay       \* bound: the last day of the calendar

Tails == {"none", "dot", "blank_dot"}

ASSUME NameAssumption ==
  /\ Within \subseteq Roots \X Roots /\ \A r \in Roots : <<r, r>> \in Within
  /\ Spellings \subseteq [root : Roots, doubled : BOOLEAN, tail : Tails]
ASSUME DateAssumption == Closes \subseteq Int /\ NoDate \notin Int
ASSUME OppAssumption ==
  IsFiniteSet(Accounts) /\ IsFiniteSet(Opps) /\ NoOpp \notin Opps
ASSUME LimitAssumption ==
  /\ Window \in Nat /\ MaxDay \in Nat
  /\ ExactLimit \in Nat \ {0} /\ WideLimit \in Nat \ {0}

VARIABLES
  agent,     \* whose case it is
  given,     \* account_name, as whatever started the case spelled it
  today,     \* what date.today() answers
  stage,     \* where the node is
  book,      \* what Salesforce held at the last query that counted
  records,   \* the opportunities the lookup kept
  stale,     \* stale_opportunities: past due and still open
  picked,    \* the opportunity to act on
  chosenOn,  \* the day the pick was made on
  judgedOn   \* the day the window was judged on

vars == <<agent, given, today, stage, book, records, stale, picked,
          chosenOn, judgedOn>>

Renewal == "order_renewal"
Onboarding == "customer_onboarding"

Stops == {"ambiguous_account", "no_opportunity", "outside_window", "error"}

Stages == {"exact", "widened", "hygiene", "choose", "judge", "passed"} \cup Stops

(* Any content: a name for each account, and for each opportunity its      *)
(* account, its close date and whether it is closed.                       *)
Books == [name : [Accounts -> Spellings],
          opp  : [Opps -> [account : Accounts, close : Closes \cup {NoDate},
                           closed : BOOLEAN]]]

EmptyBook == [name |-> <<>>, opp |-> <<>>]

Init ==
  /\ agent \in {Renewal, Onboarding}
  /\ given \in Spellings
  /\ today = 0
  /\ stage = "exact"
  /\ book = EmptyBook
  /\ records = {} /\ stale = {}
  /\ picked = NoOpp
  /\ chosenOn = 0 /\ judgedOn = 0

-----------------------------------------------------------------------------
(* Names. *)

(* Faulty: nothing is stripped. *)
NormalizedTailKept(n) == [root |-> n.root, tail |-> n.tail]

(* " ".join(split()), then rstrip("."), then casefold(): the period goes,  *)
(* a blank before it stays.                                                *)
Normalized(n) ==
  [root |-> n.root, tail |-> IF n.tail = "blank_dot" THEN "blank" ELSE "none"]

(* Account.Name LIKE '%given%': the given spelling occurs in the stored    *)
(* one as it is.                                                           *)
Occurs(g, n) ==
  /\ <<g.root, n.root>> \in Within
  /\ g.doubled = n.doubled
  /\ g.tail = "none" \/ (g.root = n.root /\ g.tail = n.tail)

NameOf(b, o) == b.name[b.opp[o].account]

ExactHits(b) == {o \in Opps : NameOf(b, o) = given}
LikeHits(b) == {o \in Opps : Occurs(given, NameOf(b, o))}

(* LIMIT without ORDER BY: all hits if they fit, otherwise any that fit. *)
Answers(hits, limit) ==
  {got \in SUBSET hits : \/ got = hits /\ Cardinality(hits) <= limit
                         \/ Cardinality(hits) > limit /\ Cardinality(got) = limit}

-----------------------------------------------------------------------------
(* The two queries. *)

Stop(why) == stage' = why

(* order_renewal takes note of stale opportunities before it picks. *)
AfterLookup == IF agent = Renewal THEN "hygiene" ELSE "choose"

(* Faulty: an empty answer is not looked at. *)
QueryExactOnly ==
  /\ stage = "exact"
  /\ \E b \in Books : \E got \in Answers(ExactHits(b), ExactLimit) :
       stage' = AfterLookup /\ book' = b /\ records' = got
  /\ UNCHANGED <<agent, given, today, stale, picked, chosenOn, judgedOn>>

QueryExact ==
  /\ stage = "exact"
  /\ \E b \in Books : \E got \in Answers(ExactHits(b), ExactLimit) :
       IF got = {}
       THEN stage' = "widened" /\ UNCHANGED <<book, records>>
       ELSE stage' = AfterLookup /\ book' = b /\ records' = got
  /\ UNCHANGED <<agent, given, today, stale, picked, chosenOn, judgedOn>>

(* Faulty: every LIKE hit is trusted. *)
TrustedHits(b, got) == got

(* The hits whose account's normalised name is the given one's. *)
TieBroken(b, got) ==
  {o \in got : Normalized(NameOf(b, o)) = Normalized(given)}

(* Faulty: several accounts match and one of them is taken. *)
AmbiguousNever(accounts) == FALSE

Ambiguous(accounts) == Cardinality(accounts) > 1

QueryWidened ==
  /\ stage = "widened"
  /\ \E b \in Books : \E got \in Answers(LikeHits(b), WideLimit) :
       LET accounts == {b.opp[o].account : o \in TieBroken(b, got)}
       IN  /\ book' = b
           /\ \/ /\ Ambiguous(accounts)
                 /\ Stop("ambiguous_account") /\ UNCHANGED records
              \/ /\ accounts = {}
                 /\ Stop("no_opportunity") /\ UNCHANGED records
              \/ /\ ~Ambiguous(accounts)
                 /\ \E a \in accounts :
                      records' = {o \in got : b.opp[o].account = a}
                 /\ stage' = AfterLookup
  /\ UNCHANGED <<agent, given, today, stale, picked, chosenOn, judgedOn>>

(* Either query may raise a ConnectorError, which ends the case. *)
QueryFails ==
  /\ stage \in {"exact", "widened"}
  /\ Stop("error")
  /\ UNCHANGED <<agent, given, today, book, records, stale, picked,
                 chosenOn, judgedOn>>

-----------------------------------------------------------------------------
(* The pick and the window. *)

Close(o) == book.opp[o].close
Dated(o) == Close(o) # NoDate
Away(o, day) == IF Close(o) >= day THEN Close(o) - day ELSE day - Close(o)

NoteStale ==
  /\ stage = "hygiene"
  /\ stale' = {o \in records : /\ Dated(o) /\ ~book.opp[o].closed
                               /\ Close(o) < today}
  /\ stage' = "choose"
  /\ UNCHANGED <<agent, given, today, book, records, picked, chosenOn, judgedOn>>

(* Faulty: the next one to close, as SOQL's ORDER BY would give it. *)
EarliestClose(o) ==
  Dated(o) /\ \A p \in records : Dated(p) => Close(o) <= Close(p)

(* _closest_to_today: past or future; no date sorts last. *)
Closest(o) ==
  \A p \in records : Dated(p) => Dated(o) /\ Away(o, today) <= Away(p, today)

(* Faulty: an undated opportunity sorts first. *)
LatestUndatedFirst(o) ==
  \A p \in records : Dated(o) => Dated(p) /\ Close(o) >= Close(p)

(* _most_recently_closed: the empty string sorts before every date. *)
Latest(o) ==
  \A p \in records : Dated(p) => Dated(o) /\ Close(o) >= Close(p)

Choose ==
  /\ stage = "choose"
  /\ \E o \in records :
       /\ IF agent = Renewal THEN Closest(o) ELSE Latest(o)
       /\ picked' = o
  /\ chosenOn' = today
  /\ stage' = "judge"
  /\ UNCHANGED <<agent, given, today, book, records, stale, judgedOn>>

(* An opportunity without a date is not judged at all. *)
Judge ==
  /\ stage = "judge"
  /\ judgedOn' = today
  /\ IF Dated(picked) /\ Away(picked, today) > Window
     THEN Stop("outside_window")
     ELSE stage' = "passed"
  /\ UNCHANGED <<agent, given, today, book, records, stale, picked, chosenOn>>

Midnight ==
  /\ today < MaxDay
  /\ today' = today + 1
  /\ UNCHANGED <<agent, given, stage, book, records, stale, picked,
                 chosenOn, judgedOn>>

Next == \/ QueryExact \/ QueryWidened \/ QueryFails
        \/ NoteStale \/ Choose \/ Judge
        \/ Midnight

Spec == Init /\ [][Next]_vars

-----------------------------------------------------------------------------
(* Properties. *)

(* Every variable holds what it may hold; what was kept came from the book *)
(* and what was picked from what was kept.                                 *)
LookupTypeOK ==
  /\ agent \in {Renewal, Onboarding}
  /\ given \in Spellings
  /\ today \in Nat /\ chosenOn \in 0 .. today /\ judgedOn \in 0 .. today
  /\ stage \in Stages
  /\ book \in Books \cup {EmptyBook}
  /\ records \in SUBSET Opps /\ stale \in SUBSET records
  /\ picked \in records \cup {NoOpp}
  /\ records # {} => book \in Books
  /\ stage \in {"hygiene", "choose", "judge", "passed"} => records # {}
  /\ stage \in {"judge", "passed", "outside_window"} => picked \in records

(* Nothing a case acts on or reports as stale belongs to a sibling account *)
(* whose name merely contains the given one ("a same-substring sibling     *)
(* account ... shouldn't get silently treated as the right one").          *)
OwnAccountOnly == \A o \in records : NameOf(book, o).root = given.root

(* A spelling that differs from the given one in a trailing period at most. *)
ButForPeriod(n) ==
  /\ n.root = given.root /\ n.doubled = given.doubled
  /\ {n.tail, given.tail} \subseteq {"none", "dot"}

(* A case that had to widen its search goes on only if one account is      *)
(* meant: no other account that a complete answer of the query showed is   *)
(* spelled as the given one but for a period ("can't safely pick one       *)
(* without a real Account id to disambiguate").                            *)
OneAccount ==
  /\ \E o \in records : NameOf(book, o) # given
  /\ Cardinality(LikeHits(book)) <= WideLimit
  => \A o \in records, p \in LikeHits(book) :
       ButForPeriod(NameOf(book, p)) => book.opp[o].account = book.opp[p].account

(* A case that finds no opportunity for a name given without a period,     *)
(* from a query its LIMIT did not cut, had none to find, with or without a *)
(* trailing period ("real account names drift").                           *)
MissJustified ==
  /\ stage = "no_opportunity"
  /\ given.tail = "none"
  /\ Cardinality(LikeHits(book)) <= WideLimit
  => \A o \in Opps : ~ButForPeriod(NameOf(book, o))

(* A case stopped for being outside the window had no opportunity inside   *)
(* it, of the records it kept from answers that a LIMIT may have cut: for  *)
(* a renewal, but for twice the days that passed between choosing and      *)
(* judging; for an onboarding, only if the latest deal had closed at all   *)
(* (one with a later date than today's hides the one that just closed).    *)
StopJustified ==
  stage = "outside_window" =>
    \A o \in records : Dated(o) =>
      IF agent = Renewal
      THEN Away(o, judgedOn) > Window - 2 * (judgedOn - chosenOn)
      ELSE Close(picked) <= judgedOn => Away(o, judgedOn) > Window

(* The opportunity a case goes on with is inside the window on the day it  *)
(* is judged; or it has no date, which happens only if none has; and no    *)
(* onboarding goes on with a deal when a later one was closed.             *)
PickJustified ==
  stage = "passed" =>
    \/ /\ Dated(picked) /\ Away(picked, judgedOn) <= Window
       /\ agent = Onboarding =>
            \A o \in records : Dated(o) => Close(o) <= Close(picked)
    \/ \A o \in records : ~Dated(o)
=============================================================================
