-------------------------- MODULE CalibrationBatch --------------------------
(***************************************************************************)
(* run_calibration_batch.py: one process runs numbered prompts through the *)
(* Supervisor, one after the other, and lists the unreviewed rows before   *)
(* and after each to say whether the prompt logged one.  When a prompt     *)
(* fails it prints the number to resume from, and the user starts another  *)
(* process there.  Meanwhile other processes record rows and reviewers     *)
(* mark them (module RoutingLog has those in detail).                      *)
(*                                                                         *)
(* Abstracted: of a call of run_supervisor, whether it delegated and what  *)
(* became of it; of a row, which call recorded it and whether it was       *)
(* reviewed.                                                               *)
(***************************************************************************)
EXTENDS Integers, Sequences, FiniteSets

CONSTANTS
  N,                \* len(PROMPTS)
  NoLimit,          \* --limit was not given
  PageLimit,        \* the LIMIT of the script's listings, 10_000
  FailuresAllowed,  \* may a call, a listing or the process fail?
  MaxTries,         \* bound: calls of run_supervisor
  MaxRows           \* bound: rows of the log

ASSUME BatchAssumption ==
  /\ N \in Nat \ {0} /\ PageLimit \in Nat \ {0} /\ NoLimit \notin Int
  /\ MaxTries \in Nat /\ MaxRows \in Nat /\ FailuresAllowed \in BOOLEAN

VARIABLES
  log,     \* supervisor_routing_log, oldest row first
  tries,   \* the script's calls of run_supervisor, in order
  script   \* locals of main, and what the user asked for

vars == <<log, tries, script>>

Prompts == 1 .. N
Limits == {NoLimit} \cup (0 .. N)
TryIds == 1 .. Len(tries)
RowIds == 1 .. Len(log)

(* Nobody's number: a row of another process. *)
Other == 0

Try(p) == [prompt |-> p, delegated |-> FALSE, state |-> "streaming",
           said |-> "nothing"]

(* job: the prompts the user asked for; launch, base: the first try and    *)
(* the last older row of the process now running.                          *)
Init ==
  /\ log = <<>>
  /\ tries = <<>>
  /\ script = [pc |-> "off", at |-> 1, last |-> 0, before |-> {},
               logged |-> 0, told |-> 1, job |-> {}, launch |-> 1, base |-> 0]

-----------------------------------------------------------------------------
(* Starting the script. *)

(* The end of range(...); "if limit" holds of no limit and of zero alike.  *)
LastPrompt(start, limit) ==
  LET end == IF limit \in {NoLimit, 0} THEN N ELSE start - 1 + limit
  IN  IF end < N THEN end ELSE N

Launched(start, limit) ==
  [script EXCEPT !.pc = "next", !.at = start,
                 !.last = LastPrompt(start, limit), !.logged = 0, !.told = 1,
                 !.launch = Len(tries) + 1, !.base = Len(log)]

(* The prompts "--start start --limit limit" asks for ("only run N prompts *)
(* starting at --start").                                                  *)
Asked(start, limit) ==
  {p \in start .. N : limit # NoLimit => p < start + limit}

(* The user begins at a prompt of his choice; --start out of range exits   *)
(* before anything happens.  Earlier uses of the script are rows of others *)
(* to this one.                                                            *)
Begin(start, limit) ==
  /\ script.pc = "off"
  /\ script' = [Launched(start, limit) EXCEPT !.job = Asked(start, limit)]
  /\ UNCHANGED <<log, tries>>

(* The command the script printed when a prompt failed. *)
Resume ==
  /\ script.pc = "failed"
  /\ script' = Launched(script.told, NoLimit)
  /\ UNCHANGED <<log, tries>>

-----------------------------------------------------------------------------
(* One prompt. *)

Unreviewed == {i \in RowIds : ~log[i].reviewed}

(* list_for_review(limit=10_000): oldest first. *)
Page ==
  {i \in Unreviewed : Cardinality({j \in Unreviewed : j < i}) < PageLimit}

(* The listing before, then the call of run_supervisor. *)
BeginPrompt ==
  /\ script.pc = "next" /\ script.at <= script.last
  /\ Len(tries) < MaxTries
  /\ tries' = Append(tries, Try(script.at))
  /\ script' = [script EXCEPT !.pc = "running", !.before = Page]
  /\ UNCHANGED log

(* The delegate tool runs the downstream agent, reads and proposals        *)
(* included, while the stream goes on.                                     *)
Delegate ==
  /\ script.pc = "running" /\ ~tries[Len(tries)].delegated
  /\ tries' = [tries EXCEPT ![Len(tries)].delegated = TRUE]
  /\ UNCHANGED <<log, script>>

(* record, at the end of the stream: only what was delegated. *)
Recorded ==
  IF tries[Len(tries)].delegated
  THEN Append(log, [try |-> Len(tries), reviewed |-> FALSE])
  ELSE log

Returns ==
  /\ script.pc = "running" /\ Len(log) < MaxRows
  /\ log' = Recorded
  /\ tries' = [tries EXCEPT ![Len(tries)].state = "returned"]
  /\ script' = [script EXCEPT !.pc = "listing"]

(* Faulty: the prompt that failed is skipped. *)
ResumePointAfter == script.at + 1

(* "Resume with: --start i". *)
ResumePoint == script.at

(* run_supervisor raises, and the script prints where to resume; or the    *)
(* process is killed, and prints nothing.  The row may be committed and    *)
(* the answer of the INSERT lost.                                          *)
RunFails(end, kept) ==
  /\ FailuresAllowed
  /\ script.pc = "running" /\ Len(log) < MaxRows
  /\ log' = IF kept THEN Recorded ELSE log
  /\ tries' = [tries EXCEPT ![Len(tries)].state = "failed"]
  /\ script' = [script EXCEPT !.pc = end, !.before = {},
                              !.told = IF end = "failed" THEN ResumePoint ELSE 1]

(* Either listing raises, outside the try block, or the process is killed. *)
ListingFails ==
  /\ FailuresAllowed
  /\ \/ script.pc = "next" /\ script.at <= script.last
     \/ script.pc = "listing"
  /\ script' = [script EXCEPT !.pc = "crashed", !.before = {}]
  /\ UNCHANGED <<log, tries>>

(* Faulty: as many rows as before, so nothing was logged. *)
NewRowsByCount == IF Cardinality(Page) > Cardinality(script.before)
                  THEN Page \ script.before ELSE {}

NewRows == Page \ script.before

(* The listing after, and what the script says of the prompt. *)
Report ==
  LET landed == NewRows # {}
  IN  /\ script.pc = "listing"
      /\ tries' = [tries EXCEPT ![Len(tries)].said =
                     IF landed THEN "logged" ELSE "declined"]
      /\ script' = [script EXCEPT !.pc = "next", !.at = @ + 1,
                                  !.before = {},
                                  !.logged = @ + (IF landed THEN 1 ELSE 0)]
      /\ UNCHANGED log

(* "Done -- ...". *)
Finish ==
  /\ script.pc = "next" /\ script.at > script.last
  /\ script' = [script EXCEPT !.pc = "done"]
  /\ UNCHANGED <<log, tries>>

-----------------------------------------------------------------------------
(* Other processes. *)

OtherRecords ==
  /\ Len(log) < MaxRows
  /\ log' = Append(log, [try |-> Other, reviewed |-> FALSE])
  /\ UNCHANGED <<tries, script>>

MarkReviewed(i) ==
  /\ log' = [log EXCEPT ![i].reviewed = TRUE]
  /\ UNCHANGED <<tries, script>>

Next ==
  \/ \E start \in Prompts, limit \in Limits : Begin(start, limit)
  \/ Resume
  \/ BeginPrompt
  \/ Delegate
  \/ Returns
  \/ \E end \in {"failed", "crashed"}, kept \in BOOLEAN : RunFails(end, kept)
  \/ ListingFails
  \/ Report
  \/ Finish
  \/ OtherRecords
  \/ \E i \in RowIds : MarkReviewed(i)

Spec == Init /\ [][Next]_vars

-----------------------------------------------------------------------------
(* Properties. *)

Tries == [prompt : Prompts, delegated : BOOLEAN,
          state : {"streaming", "returned", "failed"},
          said : {"nothing", "logged", "declined"}]

(* Prompts have their numbers, rows their tries, and the script is at one  *)
(* of its prompts or just past the last. *)
BatchTypeOK ==
  /\ tries \in Seq(Tries)
  /\ log \in Seq([try : {Other} \cup TryIds, reviewed : BOOLEAN])
  /\ script \in [pc : {"off", "next", "running", "listing", "failed",
                       "crashed", "done"},
                 at : 1 .. N + 1, last : 0 .. N, before : SUBSET RowIds,
                 logged : 0 .. N, told : Prompts, job : SUBSET Prompts,
                 launch : 1 .. Len(tries) + 1, base : 0 .. Len(log)]
  /\ script.pc \in {"running", "listing"} => tries # <<>>

ReturnedFor(p) ==
  {t \in TryIds : tries[t].prompt = p /\ tries[t].state = "returned"}

(* However often the script fails and is resumed as it says, no prompt of  *)
(* the job is passed over and none returns twice ("a partial run never has *)
(* to be restarted from the top").                                         *)
JobReturnedOnce ==
  /\ \A p \in Prompts : \A t, u \in ReturnedFor(p) : t = u
  /\ script.pc = "done" => \A p \in script.job : ReturnedFor(p) # {}

(* A prompt the script calls declined left no row that waits for review    *)
(* ("confirms whether this specific prompt actually logged one at all"),   *)
(* however many rows came and were reviewed in between, as long as they    *)
(* fit a page.  The converse fails: another process's row is taken for     *)
(* the prompt's own.                                                       *)
DeclinedLeavesNoRow ==
  Len(log) <= PageLimit =>
    \A i \in RowIds :
      log[i].try # Other /\ ~log[i].reviewed => tries[log[i].try].said # "declined"

(* While nobody else touches what this process logs, its count of logged   *)
(* prompts is the number of rows they left ("{logged}/{i - start}          *)
(* prompt(s) before this one were logged successfully"), whatever happens  *)
(* to older rows.                                                          *)
CountExact ==
  LET mine == script.base + 1 .. Len(log)
  IN  /\ Len(log) <= PageLimit
      /\ \A i \in mine : log[i].try >= script.launch /\ ~log[i].reviewed
      => script.logged =
           Cardinality({i \in mine : tries[log[i].try].said # "nothing"})
=============================================================================
