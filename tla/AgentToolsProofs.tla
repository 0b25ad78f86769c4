-------------------------- MODULE AgentToolsProofs --------------------------
(* What a session's report is worth, for any number of sessions and turns. *)
EXTENDS AgentTools, SequenceTheorems, FiniteSetTheorems, TLAPS

(* An id is the number of its one action, and the only status it can have  *)
(* is that action's decision.                                              *)
IdsApart ==
  /\ \A n \in ActionNumbers :
       /\ actions[n].id = <<"uuid", n>>
       /\ StatusOf(actions[n].id) = IF actions[n].decision = "undecided"
                                    THEN "none" ELSE actions[n].decision
  /\ \A id \in DOMAIN status : \E n \in ActionNumbers : id = actions[n].id

Unseen(s) == {n \in ProposedBy(s) : actions[n].id \notin session[s].seen}

(* A session has seen ids of its own proposals only, reports what it has   *)
(* seen, and has an error for each proposal whose id it has not seen.      *)
Conversed(s) ==
  /\ \A id \in session[s].seen : \E n \in ProposedBy(s) : id = actions[n].id
  /\ session[s].report \subseteq session[s].seen
  /\ session[s].pc = "reported" => session[s].report = session[s].seen
  /\ Cardinality(Unseen(s)) <= session[s].errors

TalkInv == ToolsTypeOK /\ IdsApart /\ \A s \in Sessions : Conversed(s)

-----------------------------------------------------------------------------
LEMMA Typed ==
  ASSUME ToolsTypeOK
  PROVE  /\ actions \in Seq(Proposals) /\ Len(actions) \in Nat
         /\ \A n \in ActionNumbers : actions[n] \in Proposals
         /\ session \in [Sessions -> Conversations]
         /\ \A s \in Sessions : session[s] \in Conversations
<1>1. actions \in Seq(Proposals) /\ session \in [Sessions -> Conversations]
  BY DEF ToolsTypeOK
<1>2. \A n \in ActionNumbers : actions[n] \in Proposals
  BY <1>1, ElementOfSeq DEF ActionNumbers
<1> QED BY <1>1, <1>2

(* What a session has proposed is finite, and so is any part of it.        *)
LEMMA ProposedFinite ==
  ASSUME ToolsTypeOK, NEW s, NEW T \in SUBSET ProposedBy(s)
  PROVE  IsFiniteSet(T) /\ Cardinality(T) \in Nat
<1>1. Len(actions) \in Nat
  BY Typed
<1>2. IsFiniteSet(1 .. Len(actions))
  BY <1>1, FS_Interval
<1>3. T \in SUBSET (1 .. Len(actions))
  BY DEF ProposedBy, ActionNumbers
<1>4. IsFiniteSet(T)
  BY <1>2, <1>3, FS_Subset
<1> QED BY <1>4, FS_CardinalityType

(* The workbook is written from the reporting toolbelt, and from no other.  *)
LEMMA CadencesApart ==
  ASSUME NEW s \in Sessions, NEW tool \in WriteTools, tool \in Toolbelt(Mode[s])
  PROVE  tool \in Excel.writes <=> Mode[s] = "renewal_report"
<1>1. Mode[s] \in Modes
  BY ModeAssumption
<1>2. CASE Mode[s] = "renewal_report"
  BY <1>2 DEF Toolbelt, RenewalReportingTools, WriteTools, Connectors, Gmail,
              Calendar, Excel, Drive, Salesforce, Jira
<1>3. CASE Mode[s] = "renewal_workflow"
  BY <1>3 DEF Toolbelt, RenewalWorkflowTools, Gmail, Calendar, Excel, Drive,
              Salesforce, Jira
<1>4. CASE Mode[s] = "onboarding"
  BY <1>4 DEF Toolbelt, OnboardingTools, Gmail, Calendar, Excel, Drive,
              Salesforce, Jira
<1> QED BY <1>1, <1>2, <1>3, <1>4 DEF Modes

(* The fields of a conversation, and a conversation put together from them. *)
LEMMA Fields ==
  ASSUME NEW u \in Conversations
  PROVE  /\ u.pc \in {"running", "reported", "cut_off"}
         /\ u.turns \in Nat /\ u.errors \in Nat
         /\ u.turns + 1 \in Nat /\ u.errors + 1 \in Nat
         /\ u.errors >= u.errors /\ u.errors + 1 >= u.errors
         /\ u.seen \in SUBSET Ids /\ u.report \in SUBSET Ids
         /\ DOMAIN u = {"pc", "turns", "errors", "seen", "report"}
<1>1. /\ u.pc \in {"running", "reported", "cut_off"}
      /\ u.turns \in Nat /\ u.errors \in Nat
      /\ u.seen \in SUBSET Ids /\ u.report \in SUBSET Ids
  BY DEF Conversations
<1>2. DOMAIN u = {"pc", "turns", "errors", "seen", "report"}
  BY DEF Conversations
<1> QED BY <1>1, <1>2

LEMMA InitTalk == Init => TalkInv
<1> SUFFICES ASSUME Init PROVE TalkInv
  OBVIOUS
<1>1. /\ actions = <<>> /\ status = <<>> /\ actions \in Seq(Proposals)
      /\ Len(actions) = 0 /\ ActionNumbers = {} /\ DOMAIN status = {}
  BY EmptySeq DEF Init, GateInit, ActionNumbers
<1>2. NewSession \in Conversations
  BY DEF NewSession, Conversations
<1>3. session = [s \in Sessions |-> NewSession]
  BY DEF Init
<1>4. ToolsTypeOK
  BY <1>1, <1>2, <1>3 DEF ToolsTypeOK
<1>5. IdsApart
  BY <1>1 DEF IdsApart
<1>6. ASSUME NEW s \in Sessions PROVE Conversed(s)
  <2>1. Unseen(s) = {}
    BY <1>1 DEF Unseen, ProposedBy
  <2>2. Cardinality(Unseen(s)) = 0
    BY <2>1, FS_EmptySet
  <2> QED BY <1>3, <2>2 DEF Conversed, NewSession
<1> QED BY <1>4, <1>5, <1>6 DEF TalkInv

(* A step that leaves the gate alone, in a session whose conversation      *)
(* forgets nothing.                                                        *)
LEMMA GateKept ==
  ASSUME TalkInv, NEW s \in Sessions, NEW u \in Conversations,
         UNCHANGED gateVars, session' = [session EXCEPT ![s] = u],
         u.seen = session[s].seen, u.errors >= session[s].errors,
         u.report \subseteq u.seen, u.pc = "reported" => u.report = u.seen
  PROVE  TalkInv'
<1>1. /\ session \in [Sessions -> Conversations]
      /\ session[s] \in Conversations /\ ToolsTypeOK
  BY Typed DEF TalkInv
<1>2. /\ session' \in [Sessions -> Conversations] /\ session'[s] = u
      /\ \A r \in Sessions : r # s => session'[r] = session[r]
  BY <1>1
<1>3. /\ actions' = actions /\ status' = status /\ ActionNumbers' = ActionNumbers
      /\ \A r : ProposedBy(r)' = ProposedBy(r)
  BY DEF gateVars, ActionNumbers, ProposedBy
<1>4. ToolsTypeOK'
  BY <1>2, <1>3 DEF TalkInv, ToolsTypeOK
<1>5. IdsApart'
  BY <1>3 DEF TalkInv, IdsApart, StatusOf
<1>6. ASSUME NEW r \in Sessions PROVE Conversed(r)'
  <2>1. session'[r].seen = session[r].seen
    BY <1>2
  <2>2. Unseen(r)' = Unseen(r)
    BY <1>3, <2>1 DEF Unseen
  <2>3. Cardinality(Unseen(r)) \in Nat
    BY <1>1, ProposedFinite DEF Unseen
  <2>4. Conversed(r)
    BY DEF TalkInv
  <2>5. CASE r # s
    BY <1>2, <1>3, <2>2, <2>4, <2>5 DEF Conversed
  <2>6. CASE r = s
    <3>1. Cardinality(Unseen(s)) <= u.errors
      BY <1>1, <2>3, <2>4, <2>6 DEF Conversed, Conversations
    <3> QED BY <1>2, <1>3, <2>1, <2>2, <2>4, <2>6, <3>1 DEF Conversed
  <2> QED BY <2>5, <2>6
<1> QED BY <1>4, <1>5, <1>6 DEF TalkInv

(* A proposal the gate records, whether its id is seen or an error noted.  *)
LEMMA GateGrows ==
  ASSUME TalkInv, NEW s \in Sessions, NEW tool \in WriteTools,
         tool \in Toolbelt(Mode[s]), NEW u \in Conversations,
         RecordAction(s, tool, NewId(s, FALSE)),
         session' = [session EXCEPT ![s] = u],
         u.pc = "running", u.report = session[s].report,
         \/ /\ u.seen = session[s].seen \cup {<<"uuid", Len(actions) + 1>>}
            /\ u.errors = session[s].errors
         \/ u.seen = session[s].seen /\ u.errors = session[s].errors + 1
  PROVE  TalkInv'
<1> DEFINE N == Len(actions) + 1
           id == <<"uuid", N>>
           a == [case |-> s, step |-> tool, id |-> id, decision |-> "undecided"]
<1>1. /\ actions \in Seq(Proposals) /\ Len(actions) \in Nat
      /\ session \in [Sessions -> Conversations]
      /\ session[s] \in Conversations /\ ToolsTypeOK
      /\ \A n \in ActionNumbers : actions[n] \in Proposals
  BY Typed DEF TalkInv
<1>2. actions' = Append(actions, a) /\ status' = status
  BY DEF RecordAction, NewId
<1>3. id \in Ids /\ a \in Proposals
  BY <1>1 DEF Ids, Proposals
<1>4. a.id = id /\ a.case = s /\ a.step = tool /\ a.decision = "undecided"
  OBVIOUS
<1> HIDE DEF a
<1>5. /\ actions' \in Seq(Proposals) /\ Len(actions') = N /\ actions'[N] = a
      /\ \A n \in ActionNumbers : actions'[n] = actions[n]
  BY <1>1, <1>2, <1>3, AppendProperties DEF ActionNumbers
<1>6. /\ ActionNumbers' = ActionNumbers \cup {N} /\ N \notin ActionNumbers
      /\ ActionNumbers \subseteq Nat
  BY <1>1, <1>5 DEF ActionNumbers
<1>7. \A n \in ActionNumbers : actions[n].id # id
  BY <1>6 DEF TalkInv, IdsApart
<1>8. /\ session' \in [Sessions -> Conversations] /\ session'[s] = u
      /\ \A r \in Sessions : r # s => session'[r] = session[r]
  BY <1>1
<1>9. ToolsTypeOK'
  <2>1. ASSUME NEW n \in ActionNumbers'
        PROVE  actions'[n].step \in Excel.writes
                 <=> Mode[actions'[n].case] = "renewal_report"
    <3>1. CASE n = N
      BY <1>4, <1>5, <3>1, CadencesApart
    <3>2. CASE n \in ActionNumbers
      BY <1>5, <3>2 DEF TalkInv, ToolsTypeOK
    <3> QED BY <1>6, <3>1, <3>2
  <2> QED BY <1>2, <1>5, <1>8, <2>1 DEF TalkInv, ToolsTypeOK
<1>10. IdsApart'
  <2>1. id \notin DOMAIN status
    BY <1>7 DEF TalkInv, IdsApart
  <2>2. ASSUME NEW n \in ActionNumbers'
        PROVE  /\ actions'[n].id = <<"uuid", n>>
               /\ StatusOf(actions[n].id)' =
                    IF actions'[n].decision = "undecided"
                    THEN "none" ELSE actions'[n].decision
    <3>1. CASE n = N
      BY <1>2, <1>4, <1>5, <2>1, <3>1 DEF StatusOf
    <3>2. CASE n \in ActionNumbers
      BY <1>2, <1>5, <3>2 DEF TalkInv, IdsApart, StatusOf
    <3> QED BY <1>6, <3>1, <3>2
  <2>3. ASSUME NEW i \in DOMAIN status' PROVE \E n \in ActionNumbers' : i = actions'[n].id
    <3>1. PICK n \in ActionNumbers : i = actions[n].id
      BY <1>2 DEF TalkInv, IdsApart
    <3> QED BY <1>5, <1>6, <3>1
  <2> QED BY <2>2, <2>3 DEF IdsApart
<1>11. ASSUME NEW r \in Sessions PROVE Conversed(r)'
  <2>1. ProposedBy(r)' = ProposedBy(r) \cup (IF r = s THEN {N} ELSE {})
    BY <1>4, <1>5, <1>6 DEF ProposedBy
  <2>2. \A n \in ProposedBy(r) : n \in ActionNumbers /\ actions'[n] = actions[n]
    BY <1>5 DEF ProposedBy
  <2>3. Conversed(r)
    BY DEF TalkInv
  <2>4. CASE r # s
    <3>1. ProposedBy(r)' = ProposedBy(r) /\ session'[r] = session[r]
      BY <1>8, <2>1, <2>4
    <3>2. Unseen(r)' = Unseen(r)
      BY <2>2, <3>1 DEF Unseen
    <3> QED BY <2>2, <2>3, <3>1, <3>2 DEF Conversed
  <2>5. CASE r = s
    <3>1. /\ session'[r] = u /\ ProposedBy(s)' = ProposedBy(s) \cup {N}
          /\ session[s].seen \subseteq u.seen
      BY <1>8, <2>1, <2>5
    <3>2. \A i \in u.seen : \E n \in ProposedBy(s)' : i = actions'[n].id
      BY <1>4, <1>5, <2>2, <2>3, <2>5, <3>1 DEF Conversed
    <3>3. u.report \subseteq u.seen
      BY <2>3, <2>5, <3>1 DEF Conversed
    <3>4. /\ IsFiniteSet(Unseen(s)) /\ Cardinality(Unseen(s)) \in Nat
          /\ Cardinality(Unseen(s)) <= session[s].errors
      BY <1>1, <2>3, <2>5, ProposedFinite DEF Unseen, Conversed
    <3>5. Cardinality(Unseen(s)') <= u.errors
      <4>1. CASE u.seen = session[s].seen \cup {id} /\ u.errors = session[s].errors
        <5>1. ASSUME NEW n \in Unseen(s)' PROVE n \in Unseen(s)
          <6>1. n \in ProposedBy(s)' /\ actions'[n].id \notin u.seen
            BY <2>5, <3>1 DEF Unseen
          <6>2. n # N
            BY <1>4, <1>5, <4>1, <6>1
          <6>3. n \in ProposedBy(s) /\ actions'[n] = actions[n]
            BY <2>2, <2>5, <3>1, <6>1, <6>2
          <6> QED BY <4>1, <6>1, <6>3 DEF Unseen
        <5>2. Cardinality(Unseen(s)') <= Cardinality(Unseen(s))
              /\ Cardinality(Unseen(s)') \in Nat
          BY <5>1, <3>4, FS_Subset, FS_CardinalityType
        <5> QED BY <1>1, <3>4, <4>1, <5>2 DEF Conversations
      <4>2. CASE u.seen = session[s].seen /\ u.errors = session[s].errors + 1
        <5>1. Unseen(s)' \subseteq Unseen(s) \cup {N}
          BY <2>2, <2>5, <3>1, <4>2 DEF Unseen
        <5>2. /\ IsFiniteSet(Unseen(s) \cup {N})
              /\ Cardinality(Unseen(s) \cup {N}) <= Cardinality(Unseen(s)) + 1
              /\ Cardinality(Unseen(s) \cup {N}) \in Nat
          <6> DEFINE S == Unseen(s)
          <6> HIDE DEF S, N
          <6>1. IsFiniteSet(S) /\ Cardinality(S) \in Nat
            BY <3>4 DEF S
          <6>2. /\ IsFiniteSet(S \cup {N})
                /\ Cardinality(S \cup {N}) =
                     IF N \in S THEN Cardinality(S) ELSE Cardinality(S) + 1
            BY <6>1, FS_AddElement
          <6>3. /\ Cardinality(S \cup {N}) \in Nat
                /\ Cardinality(S \cup {N}) <= Cardinality(S) + 1
            BY <6>1, <6>2
          <6> QED BY <6>2, <6>3 DEF S
        <5>3. Cardinality(Unseen(s)') <= Cardinality(Unseen(s) \cup {N})
              /\ Cardinality(Unseen(s)') \in Nat
          BY <5>1, <5>2, FS_Subset, FS_CardinalityType
        <5> QED BY <1>1, <3>4, <4>2, <5>2, <5>3 DEF Conversations
      <4> QED BY <4>1, <4>2
    <3> QED BY <2>5, <3>1, <3>2, <3>3, <3>5 DEF Conversed
  <2> QED BY <2>4, <2>5
<1> QED BY <1>9, <1>10, <1>11 DEF TalkInv

LEMMA DecideTalk ==
  ASSUME TalkInv, NEW n \in ActionNumbers,
         NEW decision \in {"approved", "rejected"}, HumanDecides(n, decision)
  PROVE  TalkInv'
<1>1. /\ actions \in Seq(Proposals) /\ Len(actions) \in Nat /\ ToolsTypeOK
      /\ \A m \in ActionNumbers : actions[m] \in Proposals
  BY Typed DEF TalkInv
<1>2. /\ actions' = [actions EXCEPT ![n].decision = decision] /\ session' = session
      /\ status' = [i \in DOMAIN status \cup {actions[n].id} |->
                      IF i = actions[n].id THEN decision ELSE status[i]]
  BY DEF HumanDecides, Decide
<1>3. [actions[n] EXCEPT !.decision = decision] \in Proposals
  BY <1>1 DEF Proposals
<1>4. actions' = [actions EXCEPT ![n] = [actions[n] EXCEPT !.decision = decision]]
  BY <1>2
<1>5. /\ actions' \in Seq(Proposals) /\ Len(actions') = Len(actions)
      /\ \A m \in ActionNumbers :
           actions'[m] = IF m = n THEN [actions[n] EXCEPT !.decision = decision]
                                  ELSE actions[m]
  BY <1>1, <1>3, <1>4, ExceptSeq DEF ActionNumbers
<1>6. ActionNumbers' = ActionNumbers
  BY <1>5 DEF ActionNumbers
<1>7. \A m \in ActionNumbers :
        /\ actions'[m].id = actions[m].id /\ actions'[m].case = actions[m].case
        /\ actions'[m].step = actions[m].step
        /\ actions'[m].decision = IF m = n THEN decision ELSE actions[m].decision
  BY <1>1, <1>5 DEF Proposals
<1>8. \A r : ProposedBy(r)' = ProposedBy(r)
  BY <1>6, <1>7 DEF ProposedBy
<1>9. ToolsTypeOK'
  BY <1>1, <1>2, <1>5, <1>6, <1>7 DEF ToolsTypeOK, Proposals
<1>10. IdsApart'
  <2>1. \A m \in ActionNumbers : actions[m].id = actions[n].id <=> m = n
    BY DEF TalkInv, IdsApart
  <2>2. ASSUME NEW m \in ActionNumbers
        PROVE  StatusOf(actions[m].id)' = IF actions'[m].decision = "undecided"
                                          THEN "none" ELSE actions'[m].decision
    BY <1>2, <1>7, <2>1 DEF TalkInv, IdsApart, StatusOf
  <2>3. \A i \in DOMAIN status' : \E m \in ActionNumbers : i = actions'[m].id
    BY <1>2, <1>7 DEF TalkInv, IdsApart
  <2> QED BY <1>6, <1>7, <2>2, <2>3 DEF TalkInv, IdsApart
<1>11. ASSUME NEW r \in Sessions PROVE Conversed(r)'
  <2>1. /\ ProposedBy(r)' = ProposedBy(r)
        /\ \A m \in ProposedBy(r) : actions'[m].id = actions[m].id
    BY <1>7, <1>8 DEF ProposedBy
  <2>2. Unseen(r)' = Unseen(r)
    BY <1>2, <2>1 DEF Unseen
  <2> QED BY <1>2, <2>1, <2>2 DEF TalkInv, Conversed
<1> QED BY <1>9, <1>10, <1>11 DEF TalkInv

LEMMA SessionTalk ==
  ASSUME TalkInv, NEW s \in Sessions, SessionNext(s) PROVE TalkInv'
<1>1. /\ session \in [Sessions -> Conversations] /\ session[s] \in Conversations
      /\ Conversed(s) /\ Len(actions) \in Nat
  BY Typed DEF TalkInv
<1>2. ASSUME ReadTool(s) PROVE TalkInv'
  <2> DEFINE u == [session[s] EXCEPT !.turns = session[s].turns + 1]
  <2>1. session' = [session EXCEPT ![s] = u] /\ UNCHANGED gateVars
    BY <1>1, <1>2 DEF ReadTool
  <2>2. /\ u \in Conversations /\ u.seen = session[s].seen
        /\ u.errors = session[s].errors /\ u.errors \in Nat
        /\ u.report = session[s].report /\ u.pc = session[s].pc
    BY <1>1 DEF Conversations
  <2> HIDE DEF u
  <2>3. /\ u.report \subseteq u.seen /\ u.errors >= session[s].errors
        /\ u.pc = "reported" => u.report = u.seen
    BY <1>1, <2>2 DEF Conversed
  <2> QED BY <2>1, <2>2, <2>3, GateKept
<1>3. ASSUME NEW tool \in WriteTools, Propose(s, tool) PROVE TalkInv'
  <2> DEFINE id == <<"uuid", Len(actions) + 1>>
             u == [session[s] EXCEPT !.turns = session[s].turns + 1,
                                     !.seen = session[s].seen \cup {id}]
  <2>1. ActionIdsIn(Disambiguated(Answer(id, Len(actions) + 1))) = {id}
    BY DEF ActionIdsIn, Disambiguated, Answer
  <2>2. session' = [session EXCEPT ![s] = u]
    BY <1>1, <1>3, <2>1 DEF Propose, NewId
  <2>3. id \in Ids
    BY <1>1 DEF Ids
  <2>4. session[s].pc = "running" /\ tool \in Toolbelt(Mode[s])
        /\ RecordAction(s, tool, NewId(s, FALSE))
    BY <1>3 DEF Propose, MayCall
  <2>5. /\ u.seen = session[s].seen \cup {id} /\ u.errors = session[s].errors
        /\ u.report = session[s].report /\ u.pc = "running"
    BY <1>1, <2>4 DEF Conversations
  <2>6. session[s].seen \cup {id} \in SUBSET Ids /\ session[s].turns + 1 \in Nat
    BY <1>1, <2>3, Fields
  <2>7. u \in Conversations
    BY <1>1, <2>6 DEF Conversations
  <2> HIDE DEF u
  <2> QED BY <2>2, <2>4, <2>5, <2>7, GateGrows
<1>4. /\ Noticed(s) \in Conversations /\ Noticed(s).seen = session[s].seen
      /\ Noticed(s).errors = session[s].errors + 1
      /\ Noticed(s).errors >= session[s].errors
      /\ Noticed(s).report = session[s].report /\ Noticed(s).pc = session[s].pc
  <2>1. /\ Noticed(s).seen = session[s].seen
        /\ Noticed(s).errors = session[s].errors + 1
        /\ Noticed(s).report = session[s].report /\ Noticed(s).pc = session[s].pc
    BY <1>1 DEF Noticed, Conversations
  <2>2. /\ session[s].turns + 1 \in Nat /\ session[s].errors + 1 \in Nat
        /\ session[s].errors + 1 >= session[s].errors
    BY <1>1, Fields
  <2>3. Noticed(s) \in Conversations
    BY <1>1, <2>2 DEF Noticed, Conversations
  <2> QED BY <2>1, <2>2, <2>3
<1>5. ASSUME NEW tool \in WriteTools, ProposalFails(s, tool) PROVE TalkInv'
  <2>1. session' = [session EXCEPT ![s] = Noticed(s)] /\ UNCHANGED gateVars
    BY <1>5 DEF ProposalFails
  <2>2. /\ Noticed(s).report \subseteq Noticed(s).seen
        /\ Noticed(s).pc = "reported" => Noticed(s).report = Noticed(s).seen
    BY <1>1, <1>4 DEF Conversed
  <2> QED BY <1>4, <2>1, <2>2, GateKept
<1>6. ASSUME NEW tool \in WriteTools, AnswerLost(s, tool) PROVE TalkInv'
  <2>1. /\ session' = [session EXCEPT ![s] = Noticed(s)]
        /\ session[s].pc = "running" /\ tool \in Toolbelt(Mode[s])
        /\ RecordAction(s, tool, NewId(s, FALSE))
    BY <1>6 DEF AnswerLost, MayCall
  <2> QED BY <1>4, <2>1, GateGrows
<1>7. ASSUME Report(s) PROVE TalkInv'
  <2> DEFINE u == [session[s] EXCEPT !.pc = "reported", !.report = session[s].seen]
  <2>1. session' = [session EXCEPT ![s] = u] /\ UNCHANGED gateVars
    BY <1>1, <1>7 DEF Report
  <2>2. /\ u.seen = session[s].seen /\ u.errors = session[s].errors
        /\ u.report = u.seen
    BY <1>1 DEF Conversations
  <2>3. session[s].seen \in SUBSET Ids /\ session[s].errors >= session[s].errors
    BY <1>1, Fields
  <2>4. u \in Conversations
    BY <1>1, <2>3 DEF Conversations
  <2>5. u.errors >= session[s].errors
    BY <2>2, <2>3
  <2> HIDE DEF u
  <2> QED BY <2>1, <2>2, <2>4, <2>5, GateKept
<1>8. ASSUME CutOff(s) PROVE TalkInv'
  <2>1. PICK said \in SUBSET session[s].seen :
          session' = [session EXCEPT ![s].pc = "cut_off", ![s].report = said]
    BY <1>8 DEF CutOff
  <2> DEFINE u == [session[s] EXCEPT !.pc = "cut_off", !.report = said]
  <2>2. session' = [session EXCEPT ![s] = u] /\ UNCHANGED gateVars
    BY <1>1, <1>8, <2>1 DEF CutOff
  <2>3. /\ u.seen = session[s].seen /\ u.errors = session[s].errors
        /\ u.report = said /\ u.pc = "cut_off"
    BY <1>1 DEF Conversations
  <2>4. said \in SUBSET Ids /\ session[s].errors >= session[s].errors
    BY <1>1, Fields
  <2>5. u \in Conversations
    BY <1>1, <2>4 DEF Conversations
  <2>6. u.errors >= session[s].errors /\ u.report \subseteq u.seen
    BY <2>3, <2>4
  <2> HIDE DEF u
  <2> QED BY <2>2, <2>3, <2>5, <2>6, GateKept
<1> QED BY <1>2, <1>3, <1>5, <1>6, <1>7, <1>8 DEF SessionNext

(* In every reachable state the gate tells the decisions of the actions    *)
(* under their own ids, and every session is true to what it saw           *)
(* (run_order_renewal, run_customer_onboarding and their tools).           *)
THEOREM TalkInvariant == Spec => []TalkInv
<1>1. Init => TalkInv
  BY InitTalk
<1>2. TalkInv /\ [Next]_vars => TalkInv'
  <2> SUFFICES ASSUME TalkInv, [Next]_vars PROVE TalkInv'
    OBVIOUS
  <2>1. ASSUME NEW s \in Sessions, SessionNext(s) PROVE TalkInv'
    BY <2>1, SessionTalk
  <2>2. CASE HumanNext
    BY <2>2, DecideTalk DEF HumanNext, ActionNumbers
  <2>3. ASSUME UNCHANGED vars PROVE TalkInv'
    <3>1. actions' = actions /\ status' = status /\ session' = session
      BY <2>3 DEF vars
    <3>2. /\ ActionNumbers' = ActionNumbers /\ \A r : ProposedBy(r)' = ProposedBy(r)
      BY <3>1 DEF ActionNumbers, ProposedBy
    <3>3. ToolsTypeOK' /\ IdsApart'
      BY <3>1, <3>2 DEF TalkInv, ToolsTypeOK, IdsApart, StatusOf
    <3>4. \A r : Unseen(r)' = Unseen(r)
      BY <3>1, <3>2 DEF Unseen
    <3>5. \A r \in Sessions : Conversed(r)'
      BY <3>1, <3>2, <3>4 DEF TalkInv, Conversed
    <3> QED BY <3>3, <3>5 DEF TalkInv
  <2> QED BY <2>1, <2>2, <2>3 DEF Next
<1> QED BY <1>1, <1>2, PTL DEF Spec

(* Types, and the reporting cadence kept apart from the live workflow      *)
(* (_build_options).                                                       *)
THEOREM ToolsTyped == Spec => []ToolsTypeOK
<1>1. TalkInv => ToolsTypeOK
  BY DEF TalkInv
<1> QED BY <1>1, TalkInvariant, PTL

(* Whatever id a session reports, a human can decide and poll by it: it is *)
(* the id of one action, the session's own (_disambiguate_pending_action). *)
THEOREM ReportsAreDecidable == Spec => []ReportsDecidable
<1>1. TalkInv => ReportsDecidable
  <2> SUFFICES ASSUME TalkInv, NEW s \in Sessions, NEW id \in session[s].report
               PROVE  \E n \in ProposedBy(s) :
                        /\ \A m \in ActionNumbers : actions[m].id = id <=> m = n
                        /\ StatusOf(id) = IF actions[n].decision = "undecided"
                                          THEN "none" ELSE actions[n].decision
    BY DEF ReportsDecidable
  <2>1. PICK n \in ProposedBy(s) : id = actions[n].id
    BY DEF TalkInv, Conversed
  <2>2. n \in ActionNumbers
    BY DEF ProposedBy
  <2>3. \A m \in ActionNumbers : actions[m].id = id <=> m = n
    BY <2>1, <2>2 DEF TalkInv, IdsApart
  <2> QED BY <2>1, <2>2, <2>3 DEF TalkInv, IdsApart
<1> QED BY <1>1, TalkInvariant, PTL

(* A finished session leaves no more actions unnamed than it saw errors    *)
(* (_err): silence about a pending action never goes unnoticed.            *)
THEOREM OmissionsAreErrors == Spec => []OmissionsShowAsErrors
<1>1. TalkInv => OmissionsShowAsErrors
  <2> SUFFICES ASSUME TalkInv, NEW s \in Sessions, session[s].pc = "reported"
               PROVE  Cardinality({n \in ProposedBy(s) :
                                     actions[n].id \notin session[s].report})
                        <= session[s].errors
    BY DEF OmissionsShowAsErrors
  <2>1. {n \in ProposedBy(s) : actions[n].id \notin session[s].report} = Unseen(s)
    BY DEF TalkInv, Conversed, Unseen
  <2> QED BY <2>1 DEF TalkInv, Conversed
<1> QED BY <1>1, TalkInvariant, PTL
=============================================================================
