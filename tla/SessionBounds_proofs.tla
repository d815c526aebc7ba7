----------------------- MODULE SessionBounds_proofs -----------------------
(***************************************************************************)
(* Proofs about what bounds a Session: its graph (SessionGraph), for any   *)
(* Topic Plan, seeds and question cap and any stops and resumes on either  *)
(* surface; its run rails (RunRails), for any Sessions, budgets and rows,  *)
(* and any resumes, midnights and deaths; and the checkpoint thread it is  *)
(* written to (CheckpointClaim), for any shells, answers, sweeps and ends, *)
(* as long as the surfaces of one process do not cross.                    *)
(***************************************************************************)
EXTENDS SessionGraph, RunRails, CheckpointClaim, FiniteSetTheorems, WellFoundedInduction, TLAPS

\* A set of numbers that is not empty has a least element.
LEMMA LeastNumber ==
  ASSUME NEW S \in SUBSET Nat, S # {}
  PROVE  \E x \in S : \A y \in S : x <= y
<1> DEFINE Less == OpToRel(<, Nat)
<1>1. IsWellFoundedOn(Less, Nat)
  BY NatLessThanWellFounded
<1>2. \A x, y \in Nat : ~(<<y, x>> \in Less) => x <= y
  <2>1. \A x, y \in Nat : y < x => <<y, x>> \in Less
    BY DEF OpToRel
  <2>2. \A x, y \in Nat : y < x \/ x <= y
    OBVIOUS
  <2> QED BY <2>1, <2>2
<1> HIDE DEF Less
<1>3. PICK x \in S : \A y \in S : ~(<<y, x>> \in Less)
  BY <1>1, WFMin
<1>4. \A y \in S : x <= y
  BY <1>2, <1>3
<1> QED BY <1>4

\* The index of the Skill in the plan is one: list.index finds its first entry.
LEMMA PlanIndexTyped ==
  ASSUME NEW k \in ToSet(Plan) PROVE PlanIndexOf(k) \in DOMAIN Plan
<1> DEFINE I == {i \in 1..Len(Plan) : Plan[i] = k}
<1>1. DOMAIN Plan = 1..Len(Plan) /\ Len(Plan) \in Nat
  BY PlanAssumption
<1>2. I # {} /\ I \subseteq Nat
  BY <1>1 DEF ToSet
<1>3. PlanIndexOf(k) = Min(I)
  BY <1>2 DEF PlanIndexOf, SelectInSeq
<1> HIDE DEF I
<1>4. Min(I) \in I
  BY <1>2, LeastNumber DEF Min
<1> QED BY <1>1, <1>3, <1>4 DEF I
-----------------------------------------------------------------------------
(* The graph.                                                              *)

Asked == [skill : Skill, stop : Stop]

\* Where the graph stands, and what it knows there.
NodeTyped == /\ next \in {"question", "supervisor", "plan", "end"}
             /\ reason \in Reason
             /\ transcript \in Seq(Asked)
             /\ index \in 1..(Len(Plan) + 1) /\ nextSkill \in Skill \cup {None}
             /\ next \in {"question", "supervisor"} =>
                  reason = "none" /\ nextSkill \in Skill /\ index \in DOMAIN Plan
             /\ next \in {"plan", "end"} => reason # "none"
             /\ next = "supervisor" => transcript # <<>>

\* A question is only ahead while the cap leaves room for it.
RoomForQuestion == /\ Len(transcript) <= MaxQuestions
                   /\ next = "question" => Len(transcript) < MaxQuestions

\* Until a switch, the plan is walked from its head: every Skill before the index was
\* asked, and the one at the index was or is what is asked next.
PlanWalked == ~switched =>
  /\ reason = "none" => /\ \A j \in 1..(index - 1) : Plan[j] \in AnyAsked
                        /\ nextSkill = Plan[index] \/ Plan[index] \in AnyAsked
  /\ next = "supervisor" => Plan[index] \in AnyAsked
  /\ reason = "topic_plan_complete" => ToSet(Plan) \subseteq AnyAsked

GraphInv == NodeTyped /\ RoomForQuestion /\ DeviationsFindASeed /\ PlanWalked

LEMMA GraphInit == Init => GraphInv
<1> SUFFICES ASSUME Init PROVE GraphInv
  OBVIOUS
<1>1. Plan[1] \in Skill /\ 1 \in DOMAIN Plan
  BY PlanAssumption
<1>2. NodeTyped
  BY <1>1 DEF Init, NodeTyped, Reason
<1>3. RoomForQuestion
  BY SeedsAssumption DEF Init, RoomForQuestion
<1>4. DeviationsFindASeed
  BY DEF Init, DeviationsFindASeed
<1>5. PlanWalked
  BY <1>1 DEF Init, PlanWalked
<1> QED BY <1>2, <1>3, <1>4, <1>5 DEF GraphInv
-----------------------------------------------------------------------------
\* The drivers leave the graph alone.
LEMMA DriversKeepGraph == ASSUME GraphInv, UNCHANGED graph PROVE GraphInv'
BY DEF graph, GraphInv, NodeTyped, RoomForQuestion, DeviationsFindASeed, HasUnusedSeed, Attempts,
       Current, PlanWalked, AnyAsked

\* What an item adds to what was asked.
LEMMA AskedGrows ==
  ASSUME transcript \in Seq(Asked), NEW item \in Asked, transcript' = Append(transcript, item)
  PROVE  AnyAsked' = AnyAsked \cup {item.skill}
<1>1. ToSet(transcript') = ToSet(transcript) \cup {item}
  BY DEF ToSet
<1> QED BY <1>1 DEF AnyAsked

LEMMA AskKeepsGraph == ASSUME GraphInv, AskQuestion PROVE GraphInv'
<1> USE DEF GraphInv
<1>1. PICK item \in Asked : transcript' = Append(transcript, item) /\ item.skill = nextSkill
  <2>1. Current = nextSkill /\ nextSkill \in Skill
    BY PlanAssumption DEF AskQuestion, NodeTyped, Current
  <2> QED BY <2>1 DEF AskQuestion, Asked, Stop
<1>u. /\ next = "question" /\ next' = "supervisor"
      /\ UNCHANGED <<index, nextSkill, reason, last, switched>>
  BY DEF AskQuestion
<1>2. /\ transcript' \in Seq(Asked) /\ transcript' # <<>>
      /\ Len(transcript') = Len(transcript) + 1
  BY <1>1 DEF NodeTyped
<1>3. NodeTyped'
  BY <1>u, <1>2 DEF NodeTyped
<1>4. RoomForQuestion'
  BY <1>u, <1>2, SeedsAssumption DEF RoomForQuestion, NodeTyped
<1>5. DeviationsFindASeed'
  BY <1>u DEF DeviationsFindASeed
<1>6. PlanWalked'
  BY <1>u, <1>1, AskedGrows DEF PlanWalked, NodeTyped
<1> QED BY <1>3, <1>4, <1>5, <1>6

LEMMA PlanStudyKeepsGraph == ASSUME GraphInv, PlanStudy PROVE GraphInv'
BY DEF PlanStudy, GraphInv, NodeTyped, RoomForQuestion, DeviationsFindASeed, PlanWalked, AnyAsked
-----------------------------------------------------------------------------
(* The Supervisor: what a decision that reaches Apply may do.              *)

\* Past the cap and the clock a decision keeps a seed for what it deviates to, and a
\* skip passes over answered Skills only.
Decided(d) == \/ d = Advance \/ d = EndEarly
              \/ d = Extra /\ HasUnusedSeed(LastSkill)
              \/ \E i \in DOMAIN Plan : d = SkipAhead(i) /\ SkipAllowed(i)
              \/ \E k \in Skill : d = SwitchSkill(k) /\ HasUnusedSeed(k)

LEMMA DecisionsDecided == \A d \in Valid \cup {Fallback} : Decided(d)
BY DEF Valid, Fallback, Decided, ExtraProbeRequired

LEMMA LastIsAsked ==
  ASSUME NodeTyped, next = "supervisor"
  PROVE  LastSkill \in Skill /\ LastSkill \in AnyAsked
<1>1. Len(transcript) \in DOMAIN transcript /\ transcript[Len(transcript)] \in Asked
  BY DEF NodeTyped
<1> QED BY <1>1 DEF LastSkill, Last, AnyAsked, ToSet, Asked

LEMMA DecisionKeepsGraph ==
  ASSUME GraphInv, next = "supervisor", NEW d, Decided(d), HardCap => d = EndEarly,
         Apply(d), last' = d, next' = IF reason' = "none" THEN "question" ELSE "plan",
         switched' = (switched \/ d.action = "switch"), UNCHANGED transcript
  PROVE  GraphInv'
<1> USE DEF GraphInv
<1>a. AnyAsked' = AnyAsked /\ (\A k : HasUnusedSeed(k)' <=> HasUnusedSeed(k))
  BY DEF AnyAsked, HasUnusedSeed, Attempts
<1>l. LastSkill \in Skill /\ LastSkill \in AnyAsked
  BY LastIsAsked
<1>p. /\ Len(Plan) \in Nat /\ DOMAIN Plan = 1..Len(Plan)
      /\ \A i \in DOMAIN Plan : Plan[i] \in Skill
  BY PlanAssumption
<1>r. /\ transcript # <<>> /\ transcript \in Seq(Asked) /\ reason = "none" /\ index \in DOMAIN Plan
      /\ Len(transcript) \in Nat /\ Len(transcript) <= MaxQuestions /\ MaxQuestions \in Nat
  BY SeedsAssumption DEF NodeTyped, RoomForQuestion
<1>w. ~switched => \A j \in 1..index : Plan[j] \in AnyAsked
  BY <1>r, <1>p DEF PlanWalked
<1>1. CASE d = EndEarly
  <2>1. /\ d.action = "end" /\ reason' \in Reason \ {"none", "topic_plan_complete"}
        /\ next' = "plan" /\ index' = index /\ nextSkill' = None
    BY <1>1 DEF Apply, EndEarly, EndReason, Reason
  <2> QED BY <2>1, <1>a, <1>r DEF NodeTyped, RoomForQuestion, DeviationsFindASeed, PlanWalked
<1>c. d # EndEarly => Len(transcript) < MaxQuestions
  BY <1>r DEF HardCap
<1>2. CASE d = Advance
  <2>1. /\ d.action = "advance" /\ last'.action = "advance" /\ GoTo(index + 1)
        /\ (switched' <=> switched) /\ d # EndEarly
    BY <1>2 DEF Apply, Advance, EndEarly
  <2>2. CASE index + 1 <= Len(Plan)
    <3>1. /\ nextSkill' = Plan[index + 1] /\ reason' = "none" /\ next' = "question"
          /\ index' = index + 1
      BY <2>1, <2>2 DEF GoTo
    <3>2. Current' = Plan[index + 1] /\ Plan[index + 1] \in Skill /\ index + 1 \in DOMAIN Plan
      BY <3>1, <2>2, <1>p, <1>r, PlanAssumption DEF Current
    <3>3. NodeTyped' /\ RoomForQuestion'
      BY <3>1, <3>2, <2>1, <1>r, <1>p, <1>c DEF NodeTyped, RoomForQuestion, Reason
    <3>4. DeviationsFindASeed'
      BY <2>1, <1>2 DEF DeviationsFindASeed
    <3>5. PlanWalked'
      BY <3>1, <2>1, <1>w, <1>a, <1>r, <1>p DEF PlanWalked
    <3> QED BY <3>3, <3>4, <3>5
  <2>3. CASE ~(index + 1 <= Len(Plan))
    <3>1. /\ nextSkill' = None /\ reason' = "topic_plan_complete" /\ next' = "plan"
          /\ index' = index + 1
      BY <2>1, <2>3 DEF GoTo
    <3>2. ~switched' => ToSet(Plan) \subseteq AnyAsked'
      BY <2>1, <2>3, <1>w, <1>p, <1>r, <1>a DEF ToSet
    <3>3. index' \in 1..(Len(Plan) + 1)
      BY <3>1, <1>r, <1>p
    <3>6. reason' \in Reason
      BY <3>1 DEF Reason
    <3>4. NodeTyped'
      BY <3>1, <3>3, <3>6, <1>r DEF NodeTyped
    <3>5. RoomForQuestion' /\ DeviationsFindASeed' /\ PlanWalked'
      BY <3>1, <3>2, <1>r DEF RoomForQuestion, DeviationsFindASeed, PlanWalked
    <3> QED BY <3>4, <3>5
  <2> QED BY <2>2, <2>3
<1>3. CASE d = Extra /\ HasUnusedSeed(LastSkill)
  <2>1. /\ nextSkill' = LastSkill /\ reason' = "none" /\ index' = index
        /\ (switched' <=> switched) /\ next' = "question" /\ d # EndEarly
    BY <1>3 DEF Apply, Extra, EndEarly
  <2>2. Current' = LastSkill
    BY <2>1, <1>l, PlanAssumption DEF Current
  <2>3. NodeTyped' /\ RoomForQuestion'
    BY <2>1, <1>r, <1>p, <1>l, <1>c DEF NodeTyped, RoomForQuestion, Reason
  <2>4. DeviationsFindASeed'
    BY <2>2, <1>a, <1>3 DEF DeviationsFindASeed
  <2>5. PlanWalked'
    BY <2>1, <1>w, <1>a, <1>r, <1>p DEF PlanWalked
  <2> QED BY <2>3, <2>4, <2>5
<1>4. ASSUME NEW i \in DOMAIN Plan, d = SkipAhead(i), SkipAllowed(i) PROVE GraphInv'
  <2>0. d.action = "skip" /\ d.target = i /\ d # EndEarly
    BY <1>4 DEF SkipAhead, EndEarly
  <2>1. /\ nextSkill' = Plan[i] /\ reason' = "none" /\ index' = i
        /\ next' = "question" /\ (switched' <=> switched)
    <3>1. GoTo(d.target)
      BY <2>0 DEF Apply
    <3>2. switched' <=> switched
      BY <2>0
    <3>3. i <= Len(Plan)
      BY <1>4, <1>p
    <3> QED BY <3>1, <3>2, <3>3, <2>0 DEF GoTo
  <2>2. Current' = Plan[i] /\ Plan[i] \in Skill
    BY <2>1, <1>p, PlanAssumption DEF Current
  <2>3. NodeTyped' /\ RoomForQuestion'
    BY <2>0, <2>1, <2>2, <1>r, <1>p, <1>c DEF NodeTyped, RoomForQuestion, Reason
  <2>4. DeviationsFindASeed'
    BY <2>2, <1>a, <1>4 DEF DeviationsFindASeed, SkipAllowed
  <2>5. PlanWalked'
    <3>1. Answered \subseteq AnyAsked
      BY DEF Answered, AnyAsked
    <3>2. ~switched => \A j \in 1..(i - 1) : Plan[j] \in AnyAsked
      BY <3>1, <1>w, <1>r, <1>p, <1>4 DEF SkipAllowed
    <3>3. ~switched' => \A j \in 1..(index' - 1) : Plan[j] \in AnyAsked'
      BY <2>1, <3>2, <1>a
    <3> QED BY <2>1, <3>3 DEF PlanWalked
  <2> QED BY <2>3, <2>4, <2>5
<1>5. ASSUME NEW k \in Skill, d = SwitchSkill(k), HasUnusedSeed(k) PROVE GraphInv'
  <2>1. /\ nextSkill' = k /\ reason' = "none" /\ switched'
        /\ next' = "question" /\ d # EndEarly /\ index' = PlanIndexOf(k)
    BY <1>5 DEF Apply, SwitchSkill, EndEarly
  <2>2. Current' = k
    BY <2>1, PlanAssumption DEF Current
  <2>i. index' \in DOMAIN Plan
    <3>1. k \notin ToSet(Plan) => PlanIndexOf(k) = index
      BY DEF PlanIndexOf
    <3> QED BY <2>1, <3>1, <1>r, PlanIndexTyped
  <2>3. NodeTyped' /\ RoomForQuestion'
    BY <2>1, <2>i, <1>r, <1>p, <1>c DEF NodeTyped, RoomForQuestion, Reason
  <2>4. DeviationsFindASeed'
    BY <2>2, <1>a, <1>5 DEF DeviationsFindASeed
  <2> QED BY <2>1, <2>3, <2>4 DEF PlanWalked
<1> QED BY <1>1, <1>2, <1>3, <1>4, <1>5 DEF Decided

LEMMA SuperviseKeepsGraph == ASSUME GraphInv, Supervise PROVE GraphInv'
<1>1. PICK d \in (IF HardCap \/ late THEN {EndEarly} ELSE Valid \cup {Fallback}) :
        /\ Apply(d) /\ last' = d /\ switched' = (switched \/ d.action = "switch")
  BY DEF Supervise
<1>2. Decided(d) /\ (HardCap => d = EndEarly)
  <2>1. CASE HardCap \/ late
    BY <1>1, <2>1 DEF Decided
  <2>2. CASE ~(HardCap \/ late)
    BY <1>1, <2>2, DecisionsDecided
  <2> QED BY <2>1, <2>2
<1> QED BY <1>1, <1>2, DecisionKeepsGraph DEF Supervise

LEMMA GraphStep == GraphInv /\ [Next]_vars => GraphInv'
<1> SUFFICES ASSUME GraphInv, [Next]_vars PROVE GraphInv'
  OBVIOUS
<1>1. CASE AskQuestion \/ Supervise \/ PlanStudy
  BY <1>1, AskKeepsGraph, SuperviseKeepsGraph, PlanStudyKeepsGraph
<1>2. CASE SaveSession \/ StopDrive \/ ResumeOnWeb \/ ResumeOnCli \/ TimePasses
  BY <1>2, DriversKeepGraph DEF SaveSession, StopDrive, ResumeOnWeb, ResumeOnCli, TimePasses
<1>3. CASE UNCHANGED vars
  BY <1>3, DriversKeepGraph DEF vars
<1> QED BY <1>1, <1>2, <1>3 DEF Next

\* The invariant of the graph holds on every path a Supervisor may choose, stops and resumes included.
THEOREM GraphKept == Spec => []GraphInv
BY GraphInit, GraphStep, PTL DEF Spec

\* What the graph's own steps leave alone, and the decision that was applied last.
DriverTyped == /\ last.action \in {"none", "advance", "extra", "skip", "switch", "end"}
               /\ drive \in Surface \cup {"off"}
               /\ late \in BOOLEAN /\ saved \in BOOLEAN /\ switched \in BOOLEAN

LEMMA SupervisorDecides == ASSUME DriverTyped, Supervise PROVE DriverTyped'
<1>1. PICK d \in (IF HardCap \/ late THEN {EndEarly} ELSE Valid \cup {Fallback}) :
        last' = d /\ switched' = (switched \/ d.action = "switch")
  BY DEF Supervise
<1>2. d.action \in {"advance", "extra", "skip", "switch", "end"}
  BY DEF Valid, Fallback, Advance, Extra, SkipAhead, SwitchSkill, EndEarly
<1>3. last'.action \in {"none", "advance", "extra", "skip", "switch", "end"}
  BY <1>1, <1>2
<1>4. switched' \in BOOLEAN
  BY <1>1, Zenon DEF DriverTyped
<1>5. late' = late /\ drive' = drive /\ saved' = saved
  BY DEF Supervise
<1> QED BY <1>3, <1>4, <1>5 DEF DriverTyped

\* Every variable of the graph and its drivers keeps its type.
THEOREM GraphTypeCorrect == Spec => []TypeOK
<1>1. Init => DriverTyped
  <2> SUFFICES ASSUME Init PROVE DriverTyped
    OBVIOUS
  <2>1. late \in BOOLEAN /\ saved \in BOOLEAN /\ switched \in BOOLEAN
    BY Zenon DEF Init
  <2>2. last.action = "none" /\ drive \in Surface
    BY DEF Init
  <2> QED BY <2>1, <2>2 DEF DriverTyped
<1>2. DriverTyped /\ [Next]_vars => DriverTyped'
  <2> SUFFICES ASSUME DriverTyped, [Next]_vars PROVE DriverTyped'
    OBVIOUS
  <2>1. CASE AskQuestion \/ PlanStudy \/ UNCHANGED vars
    BY <2>1 DEF DriverTyped, AskQuestion, PlanStudy, vars, graph
  <2>2. CASE SaveSession \/ StopDrive \/ ResumeOnWeb \/ ResumeOnCli \/ TimePasses
    BY <2>2 DEF DriverTyped, SaveSession, StopDrive, ResumeOnWeb, ResumeOnCli, TimePasses, graph
  <2> QED BY <2>1, <2>2, SupervisorDecides DEF Next
<1>3. GraphInv /\ DriverTyped => TypeOK
  BY DEF GraphInv, NodeTyped, Asked, DriverTyped, TypeOK
<1> QED BY <1>1, <1>2, <1>3, GraphKept, PTL DEF Spec

\* max_questions binds every path of the graph: failed questions, deviations, fallbacks
\* and resumes on either surface (supervisor.py:414-418).
THEOREM SlotsBounded == Spec => []QuestionsBounded
<1>1. GraphInv => QuestionsBounded
  BY DEF GraphInv, RoomForQuestion, QuestionsBounded
<1> QED BY <1>1, GraphKept, PTL

\* No deviation, the fallback's included, sends the question node to a Skill whose seeds
\* are used up (supervisor.py:542-544, 630-647).
THEOREM DeviationsServed == Spec => []DeviationsFindASeed
<1>1. GraphInv => DeviationsFindASeed
  BY DEF GraphInv
<1> QED BY <1>1, GraphKept, PTL

\* A Session that reports its Topic Plan complete without a switch_skill has asked every
\* planned Skill, whatever it skipped and wherever it stopped (supervisor.py:659-664).
THEOREM PlanAsked == Spec => []PlanCovered
<1>1. GraphInv => PlanCovered
  BY DEF GraphInv, PlanWalked, PlanCovered
<1> QED BY <1>1, GraphKept, PTL
-----------------------------------------------------------------------------
(* The rails: what the rows of a ledger say one Session spent.             *)

TokenRows(q, s) == {i \in DOMAIN q : q[i].kind = "tokens" /\ q[i].session = s}
RunsBegun(q, s) == {i \in DOMAIN q : q[i].kind = "run" /\ q[i].session = s}

\* The rows of q say that the run of s has spent n: n tokens since the last run row, or
\* since ever where there is none.
Booked(q, s, n) ==
  /\ n \in Nat
  /\ RunsBegun(q, s) = {} => Cardinality(TokenRows(q, s)) = n
  /\ RunsBegun(q, s) # {} =>
       \E i \in RunsBegun(q, s) : /\ \A j \in RunsBegun(q, s) : i >= j
                                  /\ Cardinality(TokenRows(q, s)) = q[i].baseline + n

LEMMA TokenRowsFinite ==
  ASSUME NEW q \in Seq(Rows), NEW s
  PROVE  /\ IsFiniteSet(TokenRows(q, s))
         /\ Cardinality(TokenRows(q, s)) \in Nat /\ Cardinality(TokenRows(q, s)) <= Len(q)
<1>0. Len(q) \in Nat /\ 1 \in Int /\ Len(q) \in Int
  OBVIOUS
<1>1. IsFiniteSet(1..Len(q)) /\ Cardinality(1..Len(q)) = Len(q)
  BY <1>0, FS_Interval
<1>2. TokenRows(q, s) \in SUBSET (1..Len(q))
  BY DEF TokenRows
<1> QED BY <1>1, <1>2, FS_Subset, FS_CardinalityType

LEMMA BaselineTyped ==
  ASSUME NEW q \in Seq(Rows), NEW i \in DOMAIN q PROVE i \in Nat /\ q[i].baseline \in Nat
<1>1. MaxRows \in Nat
  BY RailsAssumption
<1>2. q[i] \in Rows
  OBVIOUS
<1> QED BY <1>1, <1>2 DEF Rows

\* One more row.
LEMMA RowAppended ==
  ASSUME NEW q \in Seq(Rows), NEW r \in Rows, NEW s
  PROVE  /\ Append(q, r) \in Seq(Rows) /\ Len(Append(q, r)) = Len(q) + 1
         /\ \A i \in DOMAIN q : Append(q, r)[i] = q[i]
         /\ ~(r.kind = "tokens" /\ r.session = s) => TokenRows(Append(q, r), s) = TokenRows(q, s)
         /\ r.kind = "tokens" /\ r.session = s =>
              TokenRows(Append(q, r), s) = TokenRows(q, s) \cup {Len(q) + 1}
         /\ ~(r.kind = "run" /\ r.session = s) => RunsBegun(Append(q, r), s) = RunsBegun(q, s)
         /\ r.kind = "run" /\ r.session = s =>
              RunsBegun(Append(q, r), s) = RunsBegun(q, s) \cup {Len(q) + 1}
<1>1. /\ Append(q, r) \in Seq(Rows) /\ Len(Append(q, r)) = Len(q) + 1
      /\ DOMAIN q = 1..Len(q) /\ DOMAIN Append(q, r) = 1..(Len(q) + 1) /\ Len(q) \in Nat
      /\ \A i \in DOMAIN q : Append(q, r)[i] = q[i]
      /\ Append(q, r)[Len(q) + 1] = r
  OBVIOUS
<1>2. DOMAIN Append(q, r) = DOMAIN q \cup {Len(q) + 1}
  BY <1>1
<1> QED BY <1>1, <1>2 DEF TokenRows, RunsBegun

LEMMA OtherRowBooks ==
  ASSUME NEW q \in Seq(Rows), NEW r \in Rows, NEW s, NEW n, Booked(q, s, n),
         r.kind \notin {"tokens", "run"} \/ r.session # s
  PROVE  Booked(Append(q, r), s, n)
<1>1. TokenRows(Append(q, r), s) = TokenRows(q, s) /\ RunsBegun(Append(q, r), s) = RunsBegun(q, s)
  BY RowAppended
<1>2. \A i \in RunsBegun(q, s) : Append(q, r)[i] = q[i]
  BY RowAppended DEF RunsBegun
<1> QED BY <1>1, <1>2 DEF Booked

LEMMA TokenRowBooks ==
  ASSUME NEW q \in Seq(Rows), NEW r \in Rows, NEW s, NEW n, Booked(q, s, n),
         r.kind = "tokens", r.session = s
  PROVE  Booked(Append(q, r), s, n + 1)
<1>1. /\ TokenRows(Append(q, r), s) = TokenRows(q, s) \cup {Len(q) + 1}
      /\ RunsBegun(Append(q, r), s) = RunsBegun(q, s)
  BY RowAppended
<1>2. \A i \in RunsBegun(q, s) : Append(q, r)[i] = q[i] /\ q[i].baseline \in Nat
  BY RowAppended, BaselineTyped DEF RunsBegun
<1>3. Len(q) + 1 \notin TokenRows(q, s)
  BY DEF TokenRows
<1>4. Cardinality(TokenRows(Append(q, r), s)) = Cardinality(TokenRows(q, s)) + 1
  BY <1>1, <1>3, TokenRowsFinite, FS_AddElement
<1>5. CASE RunsBegun(q, s) = {}
  BY <1>1, <1>4, <1>5 DEF Booked
<1>6. CASE RunsBegun(q, s) # {}
  <2>1. PICK i \in RunsBegun(q, s) : /\ \A j \in RunsBegun(q, s) : i >= j
                                     /\ Cardinality(TokenRows(q, s)) = q[i].baseline + n
    BY <1>6 DEF Booked
  <2>2. Append(q, r)[i].baseline = q[i].baseline /\ q[i].baseline \in Nat /\ n \in Nat
    BY <1>2 DEF Booked
  <2>3. Cardinality(TokenRows(Append(q, r), s)) = Append(q, r)[i].baseline + (n + 1) /\ n + 1 \in Nat
    BY <1>4, <2>1, <2>2
  <2> QED BY <1>1, <2>1, <2>3 DEF Booked
<1> QED BY <1>5, <1>6

\* A run row that carries what was spent so far begins a run that has spent nothing.
LEMMA RunRowBooks ==
  ASSUME NEW q \in Seq(Rows), NEW r \in Rows, NEW s,
         r.kind = "run", r.session = s, r.baseline = Cardinality(TokenRows(q, s))
  PROVE  Booked(Append(q, r), s, 0)
<1> DEFINE i == Len(q) + 1
<1>1. /\ TokenRows(Append(q, r), s) = TokenRows(q, s)
      /\ RunsBegun(Append(q, r), s) = RunsBegun(q, s) \cup {i}
  BY RowAppended
<1>2. \A j \in RunsBegun(Append(q, r), s) : i >= j
  BY <1>1 DEF RunsBegun
<1>3. Append(q, r)[i].baseline = Cardinality(TokenRows(q, s)) /\ Cardinality(TokenRows(q, s)) \in Nat
  BY TokenRowsFinite
<1> QED BY <1>1, <1>2, <1>3 DEF Booked

\* What session_run_spend returns, and what extend_budget_for_resume writes.
LEMMA SpendBooked ==
  ASSUME rows \in Seq(Rows), NEW s, NEW n, Booked(rows, s, n)
  PROVE  /\ LifetimeSpend(s) = Cardinality(TokenRows(rows, s)) /\ LifetimeSpend(s) \in 0..Len(rows)
         /\ RunSpend(s) = n /\ n <= Len(rows)
<1>0. LifetimeSpend(s) = Cardinality(TokenRows(rows, s))
  BY DEF LifetimeSpend, CountRows, TokenRows
<1>1. LifetimeSpend(s) \in 0..Len(rows) /\ Len(rows) \in Nat
  BY <1>0, TokenRowsFinite
<1>2. RunRows(s) = RunsBegun(rows, s)
  BY DEF RunRows, RunsBegun
<1>3. CASE RunRows(s) = {}
  BY <1>0, <1>1, <1>2, <1>3 DEF Booked, RunSpend, Baseline
<1>4. CASE RunRows(s) # {}
  <2>1. PICK i \in RunRows(s) : /\ \A j \in RunRows(s) : i >= j
                                /\ Cardinality(TokenRows(rows, s)) = rows[i].baseline + n
    BY <1>2, <1>4 DEF Booked
  <2>2. i \in Nat /\ RunRows(s) \subseteq Nat /\ rows[i].baseline \in Nat
    BY BaselineTyped DEF RunRows
  <2>3. Max(RunRows(s)) = i
    <3>1. \A x \in RunRows(s) : (\A y \in RunRows(s) : x >= y) => x = i
      BY <2>1, <2>2
    <3> QED BY <2>1, <3>1 DEF Max
  <2> QED BY <1>0, <1>1, <1>4, <2>1, <2>2, <2>3 DEF Booked, RunSpend, Baseline
<1> QED BY <1>0, <1>1, <1>3, <1>4
-----------------------------------------------------------------------------
(* The rails: a Session's steps.                                           *)

SpendIsBooked == \A s \in Session : Booked(rows, s, spent[s])

\* What a COMPLETE Session may spend besides: the Study Plan.
Slack(s) == IF Completed(s) THEN NodeCalls ELSE 0

\* A drive begins a node below the ceiling, or the Study Plan one node above it.
NodesBounded == \A s \in Session :
  /\ spent[s] < RunBudget + NodeCalls + Slack(s)
  /\ run[s] = "setup" => spent[s] = calls[s]
  /\ run[s] = "node" => node[s] # "end" /\ spent[s] < RunBudget + Slack(s) + calls[s]
  /\ run[s] = "boundary" /\ node[s] # "end" => spent[s] < RunBudget + NodeCalls
  /\ node[s] = "question" => left[s] > 0

\* What a resume cleared it keeps clear until a node runs.
ClearedStaysClear == \A s \in Session :
  /\ run[s] \in {"setup", "node"} => owed[s] = {}
  /\ run[s] = "boundary" /\ "runaway" \in owed[s] => spent[s] < RunBudget
  /\ stopped[s] = "runaway" => run[s] = "off" /\ "runaway" \notin owed[s]

RailsInv == RailsTypeOK /\ SpendIsBooked /\ NodesBounded /\ ClearedStaysClear

LEMMA RailsNumbers == /\ Questions \in Nat /\ NodeCalls \in Nat /\ RunBudget \in Nat /\ MaxDay \in Nat
                      /\ Questions > 0 /\ NodeCalls > 0 /\ RunBudget > 0 /\ MaxDay > 0
                      /\ MaxRows \in Nat
BY RailsAssumption

\* What budget_stop_reason names, where it names a rail at all.
LEMMA StopRailDecides ==
  ASSUME NEW s \in Session
  PROVE  /\ StopRail(s) \in {"none", "quota", "runaway", "daily"}
         /\ Completed(s) => StopRail(s) = "none"
         /\ ~Completed(s) /\ StopRail(s) = "none" => ~RunCeiling(s)
         /\ StopRail(s) = "quota" => QuotaExhausted(s)
         /\ StopRail(s) = "runaway" => RunCeiling(s)
<1>1. CASE Completed(s)
  BY <1>1 DEF StopRail
<1>2. CASE ~Completed(s) /\ QuotaExhausted(s)
  BY <1>2 DEF StopRail
<1>3. CASE ~Completed(s) /\ ~QuotaExhausted(s) /\ RunCeiling(s)
  BY <1>3 DEF StopRail
<1>4. CASE ~Completed(s) /\ ~QuotaExhausted(s) /\ ~RunCeiling(s)
  BY <1>4 DEF StopRail
<1> QED BY <1>1, <1>2, <1>3, <1>4

LEMMA RailsStart == RailsInit => RailsInv
<1> SUFFICES ASSUME RailsInit PROVE RailsInv
  OBVIOUS
<1> USE RailsNumbers DEF RailsInit
<1>1. RailsTypeOK
  BY DEF RailsTypeOK
<1>2. SpendIsBooked
  <2>1. \A s : TokenRows(rows, s) = {} /\ RunsBegun(rows, s) = {}
    BY DEF TokenRows, RunsBegun
  <2> QED BY <2>1, FS_EmptySet DEF SpendIsBooked, Booked
<1>3. NodesBounded /\ ClearedStaysClear
  BY DEF NodesBounded, ClearedStaysClear, Slack, Completed
<1> QED BY <1>1, <1>2, <1>3 DEF RailsInv

\* A row of the current day.
LEMMA RowTyped ==
  ASSUME RailsTypeOK, NEW kind \in {"tokens", "run", "exhausted", "retry"},
         NEW s \in Session \cup {Nobody}, NEW n \in 0..MaxRows
  PROVE  /\ Row(kind, s, n) \in Rows
         /\ Row(kind, s, n).kind = kind /\ Row(kind, s, n).session = s /\ Row(kind, s, n).baseline = n
BY DEF Row, Rows, RailsTypeOK

LEMMA LifetimeTyped ==
  ASSUME RailsInv, NEW s \in Session
  PROVE  /\ LifetimeSpend(s) \in 0..MaxRows /\ LifetimeSpend(s) = Cardinality(TokenRows(rows, s))
         /\ RunSpend(s) = spent[s] /\ spent[s] \in Nat /\ spent[s] <= Len(rows)
<1>1. rows \in Seq(Rows) /\ Len(rows) \in Nat /\ Len(rows) <= MaxRows /\ Booked(rows, s, spent[s])
  BY DEF RailsInv, RailsTypeOK, SpendIsBooked
<1> QED BY <1>1, SpendBooked, RailsNumbers DEF Booked

\* Where the graph goes on after a node: a question is left wherever one is next.
LEMMA NodeFinishes ==
  ASSUME RailsInv, NEW s \in Session, FinishNode(s)
  PROVE  \E n \in {"question", "supervisor", "plan", "end"}, l \in 0..Questions :
           /\ node' = [node EXCEPT ![s] = n] /\ left' = [left EXCEPT ![s] = l]
           /\ n = "question" => l > 0
           /\ run[s] = "setup" => n = node[s]
           /\ run[s] = "node" => /\ n = "plan" => node[s] = "supervisor"
                                 /\ n = "end" => node[s] = "plan"
                                 /\ node[s] = "plan" => n = "end"
<1>t. /\ node \in [Session -> {"question", "supervisor", "plan", "end"}]
      /\ left \in [Session -> 0..Questions] /\ Questions \in Nat
      /\ node[s] = "question" => left[s] > 0
      /\ run[s] = "node" => node[s] # "end"
  BY RailsNumbers DEF RailsInv, RailsTypeOK, NodesBounded
<1>1. CASE run[s] = "setup"
  <2>1. node' = [node EXCEPT ![s] = node[s]] /\ left' = [left EXCEPT ![s] = left[s]]
    BY <1>1, <1>t DEF FinishNode
  <2> QED BY <1>1, <1>t, <2>1
<1>2. CASE run[s] = "node"
  <2>0. PICK n \in After(s) : node' = [node EXCEPT ![s] = n]
    BY <1>2 DEF FinishNode
  <2>1. CASE node[s] = "question"
    <3>1. left' = [left EXCEPT ![s] = left[s] - 1] /\ left[s] - 1 \in 0..Questions
      BY <1>2, <1>t, <2>1 DEF FinishNode
    <3>2. n = "supervisor"
      BY <2>1 DEF After
    <3> QED BY <1>2, <2>0, <2>1, <3>1, <3>2
  <2>2. node[s] # "question" => left' = [left EXCEPT ![s] = left[s]] /\ left[s] \in 0..Questions
    BY <1>2, <1>t DEF FinishNode
  <2>3. CASE node[s] = "supervisor"
    <3>1. n \in {"question", "plan"} /\ (n = "question" => left[s] > 0)
      BY <2>3, <1>t DEF After
    <3> QED BY <1>2, <2>0, <2>2, <2>3, <3>1
  <2>4. CASE node[s] = "plan"
    <3>1. n = "end"
      BY <2>4 DEF After
    <3> QED BY <1>2, <2>0, <2>2, <2>4, <3>1
  <2> QED BY <1>2, <1>t, <2>1, <2>3, <2>4
<1> QED BY <1>1, <1>2 DEF FinishNode

\* The steps that write no row.
LEMMA QuietKeepsRails ==
  ASSUME RailsInv, NEW s \in Session, FinishNode(s) \/ Boundary(s) \/ Abandon(s)
  PROVE  RailsInv'
<1> USE RailsNumbers DEF RailsInv
<1>u. UNCHANGED <<day, rows, accountAlive, spent>>
  BY DEF FinishNode, Boundary, Abandon
<1>o. \A q \in Session \ {s} : /\ run'[q] = run[q] /\ node'[q] = node[q] /\ calls'[q] = calls[q]
                               /\ left'[q] = left[q] /\ stopped'[q] = stopped[q]
                               /\ owed'[q] = owed[q]
  BY DEF FinishNode, Boundary, Abandon, Suspend, RailsTypeOK
<1>s. RunSpend(s) = spent[s] /\ spent[s] \in Nat
  BY LifetimeTyped
<1>n. /\ left[s] \in 0..Questions /\ (node[s] = "question" => left[s] > 0)
      /\ calls[s] \in 0..NodeCalls /\ node[s] \in {"question", "supervisor", "plan", "end"}
      /\ run[s] = "boundary" => calls[s] = 0
  BY DEF RailsTypeOK, NodesBounded
<1>1. RailsTypeOK'
  <2>1. CASE FinishNode(s)
    <3>1. /\ left' \in [Session -> 0..Questions]
          /\ node' \in [Session -> {"question", "supervisor", "plan", "end"}]
      <4>1. PICK n \in {"question", "supervisor", "plan", "end"}, l \in 0..Questions :
              node' = [node EXCEPT ![s] = n] /\ left' = [left EXCEPT ![s] = l]
        BY <2>1, NodeFinishes
      <4> QED BY <4>1 DEF RailsTypeOK
    <3>2. checkpointed' \in [Session -> BOOLEAN]
      BY <2>1 DEF FinishNode, RailsTypeOK
    <3> QED BY <2>1, <3>1, <3>2, <1>u DEF FinishNode, RailsTypeOK
  <2>2. CASE Boundary(s)
    <3>1. CASE StopRail(s) # "none" \/ node[s] = "end"
      <4>1. /\ run' = [run EXCEPT ![s] = "off"] /\ stopped' = [stopped EXCEPT ![s] = StopRail(s)]
            /\ calls' = [calls EXCEPT ![s] = 0] /\ UNCHANGED <<owed, node, left, checkpointed>>
        BY <2>2, <3>1 DEF Boundary, Suspend
      <4>2. stopped' \in [Session -> {"none", "quota", "runaway", "daily"}]
        BY <4>1, StopRailDecides DEF RailsTypeOK
      <4> QED BY <4>1, <4>2, <1>u DEF RailsTypeOK
    <3>2. CASE StopRail(s) = "none" /\ node[s] # "end"
      BY <2>2, <3>2, <1>u DEF Boundary, RailsTypeOK
    <3> QED BY <3>1, <3>2
  <2>3. CASE Abandon(s)
    BY <2>3, <1>u DEF Abandon, Suspend, RailsTypeOK
  <2> QED BY <2>1, <2>2, <2>3
<1>2. SpendIsBooked'
  BY <1>u DEF SpendIsBooked
<1>3. NodesBounded'
  <2>0. SUFFICES
          /\ spent[s] < RunBudget + NodeCalls + Slack(s)'
          /\ run'[s] = "setup" => spent[s] = calls'[s]
          /\ run'[s] = "node" => node'[s] # "end" /\ spent[s] < RunBudget + Slack(s)' + calls'[s]
          /\ run'[s] = "boundary" /\ node'[s] # "end" => spent[s] < RunBudget + NodeCalls
          /\ node'[s] = "question" => left'[s] > 0
    BY <1>o, <1>u DEF NodesBounded, Slack, Completed
  <2>k. /\ spent[s] < RunBudget + NodeCalls + Slack(s)
        /\ run[s] = "setup" => spent[s] = calls[s]
        /\ run[s] = "node" => node[s] # "end" /\ spent[s] < RunBudget + Slack(s) + calls[s]
        /\ run[s] = "boundary" /\ node[s] # "end" => spent[s] < RunBudget + NodeCalls
    BY DEF NodesBounded
  <2>1. CASE FinishNode(s)
    <3>1. run'[s] = "boundary" /\ run[s] \in {"setup", "node"}
      BY <2>1 DEF FinishNode, RailsTypeOK
    <3>2. PICK n \in {"question", "supervisor", "plan", "end"}, l \in 0..Questions :
            /\ node' = [node EXCEPT ![s] = n] /\ left' = [left EXCEPT ![s] = l]
            /\ n = "question" => l > 0
            /\ run[s] = "setup" => n = node[s]
            /\ run[s] = "node" => /\ n = "plan" => node[s] = "supervisor"
                                  /\ n = "end" => node[s] = "plan"
                                  /\ node[s] = "plan" => n = "end"
      BY <2>1, NodeFinishes
    <3>3. node'[s] = n /\ left'[s] = l
      BY <3>2 DEF RailsTypeOK
    <3>4. spent[s] < RunBudget + NodeCalls + Slack(s)' /\ Slack(s)' \in Nat
      <4>1. Completed(s) => Completed(s)'
        BY <3>2, <3>1, <3>3, <2>k DEF Completed
      <4>2. (Slack(s) = 0 \/ Completed(s)) /\ (Completed(s)' => Slack(s)' = NodeCalls)
            /\ (~Completed(s)' => Slack(s)' = 0) /\ (Completed(s) => Slack(s) = NodeCalls)
        BY DEF Slack
      <4> QED BY <4>1, <4>2, <2>k, <1>s
    <3>5. n # "end" => spent[s] < RunBudget + NodeCalls
      <4>1. run[s] = "node" /\ n # "end" => ~Completed(s)
        BY <3>2, <2>k DEF Completed
      <4>2. run[s] = "setup" => spent[s] <= NodeCalls
        BY <2>k, <1>n
      <4> QED BY <4>1, <4>2, <3>1, <2>k, <1>n, <1>s DEF Slack
    <3> QED BY <3>1, <3>2, <3>3, <3>4, <3>5
  <2>2. CASE Boundary(s)
    <3>1. /\ run[s] = "boundary" /\ node'[s] = node[s] /\ left'[s] = left[s]
          /\ \/ run'[s] = "off"
             \/ /\ run'[s] = "node" /\ calls'[s] = 0 /\ node[s] # "end"
                /\ StopRail(s) = "none"
      BY <2>2, <1>n DEF Boundary, Suspend, RailsTypeOK
    <3>2. StopRail(s) = "none" => Completed(s) \/ spent[s] < RunBudget
      BY <1>s, StopRailDecides DEF RunCeiling
    <3> QED BY <3>1, <3>2, <2>k, <1>n, <1>s DEF Slack, Completed
  <2>3. CASE Abandon(s)
    <3>1. run'[s] = "off" /\ node'[s] = node[s] /\ left'[s] = left[s]
      BY <2>3 DEF Abandon, Suspend, RailsTypeOK
    <3> QED BY <3>1, <2>k, <1>n DEF Slack, Completed
  <2> QED BY <2>1, <2>2, <2>3
<1>4. ClearedStaysClear'
  <2>1. CASE FinishNode(s)
    BY <2>1, <1>o, <1>u DEF FinishNode, RailsTypeOK, ClearedStaysClear
  <2>2. CASE Boundary(s)
    <3>1. CASE StopRail(s) # "none" \/ node[s] = "end"
      <4>1. run'[s] = "off" /\ stopped'[s] = StopRail(s) /\ owed'[s] = owed[s]
        BY <2>2, <3>1 DEF Boundary, Suspend, RailsTypeOK
      <4>2. StopRail(s) = "runaway" => "runaway" \notin owed[s]
        BY <2>2, <1>s, StopRailDecides, RailsNumbers DEF Boundary, RunCeiling, ClearedStaysClear
      <4> QED BY <1>o, <1>u, <4>1, <4>2 DEF ClearedStaysClear
    <3>2. CASE StopRail(s) = "none" /\ node[s] # "end"
      <4>1. run'[s] = "node" /\ stopped'[s] = stopped[s] /\ owed'[s] = {}
        BY <2>2, <3>2 DEF Boundary, RailsTypeOK
      <4> QED BY <2>2, <1>o, <1>u, <4>1 DEF Boundary, ClearedStaysClear
    <3> QED BY <3>1, <3>2
  <2>3. CASE Abandon(s)
    BY <2>3, <1>o, <1>u DEF Abandon, Suspend, RailsTypeOK, ClearedStaysClear
  <2> QED BY <2>1, <2>2, <2>3
<1> QED BY <1>1, <1>2, <1>3, <1>4

\* start_refusal_reason and begin_session_run: a new run has spent nothing.
LEMMA StartKeepsRails == ASSUME RailsInv, NEW s \in Session, Start(s) PROVE RailsInv'
<1> USE RailsNumbers DEF RailsInv
<1> DEFINE r == Row("run", s, LifetimeSpend(s))
<1>t. RailsTypeOK
  OBVIOUS
<1>r. /\ r \in Rows /\ r.kind = "run" /\ r.session = s
      /\ r.baseline = Cardinality(TokenRows(rows, s))
  <2>1. LifetimeSpend(s) \in 0..MaxRows /\ LifetimeSpend(s) = Cardinality(TokenRows(rows, s))
    BY LifetimeTyped
  <2> QED BY <2>1, RowTyped
<1> HIDE DEF r
<1>u. /\ rows' = Append(rows, r) /\ run[s] = "off"
      /\ run' = [run EXCEPT ![s] = "setup"] /\ owed' = [owed EXCEPT ![s] = {}]
      /\ spent' = [spent EXCEPT ![s] = 0] /\ stopped' = [stopped EXCEPT ![s] = "none"]
      /\ Len(rows) + 1 <= MaxRows
      /\ UNCHANGED <<day, accountAlive, node, calls, left, checkpointed>>
  BY DEF Start, RoomFor, r
<1>1. RailsTypeOK'
  BY <1>r, <1>u DEF RailsTypeOK
<1>2. SpendIsBooked'
  <2> SUFFICES ASSUME NEW q \in Session PROVE Booked(rows', q, spent'[q])
    BY DEF SpendIsBooked
  <2>0. rows \in Seq(Rows) /\ Booked(rows, q, spent[q])
    BY DEF RailsTypeOK, SpendIsBooked
  <2>1. CASE q = s
    <3>1. spent'[q] = 0
      BY <1>u, <2>1 DEF RailsTypeOK
    <3> QED BY <2>0, <2>1, <3>1, <1>r, <1>u, RunRowBooks
  <2>2. CASE q # s
    <3>1. spent'[q] = spent[q]
      BY <1>u, <2>2 DEF RailsTypeOK
    <3> QED BY <2>0, <2>2, <3>1, <1>r, <1>u, OtherRowBooks
  <2> QED BY <2>1, <2>2
<1>3. NodesBounded'
  BY <1>u DEF RailsTypeOK, NodesBounded, Slack, Completed
<1>4. ClearedStaysClear'
  BY <1>u DEF RailsTypeOK, ClearedStaysClear
<1> QED BY <1>1, <1>2, <1>3, <1>4

\* A metered call bills one row, or latches the quota and ends the drive.
LEMMA CallKeepsRails == ASSUME RailsInv, NEW s \in Session, Call(s) PROVE RailsInv'
<1> USE RailsNumbers DEF RailsInv
<1>0. rows \in Seq(Rows) /\ Len(rows) + 1 <= MaxRows /\ run[s] \in {"setup", "node"}
  BY DEF RailsTypeOK, Call, RoomFor
<1>u. UNCHANGED <<day, accountAlive, node, left, checkpointed, owed>>
  BY DEF Call
<1>1. CASE rows' = Append(rows, Row("tokens", s, 0)) /\ calls' = [calls EXCEPT ![s] = @ + 1]
           /\ spent' = [spent EXCEPT ![s] = @ + 1] /\ UNCHANGED <<run, stopped>>
  <2> DEFINE r == Row("tokens", s, 0)
  <2>r. r \in Rows /\ r.kind = "tokens" /\ r.session = s
    BY RowTyped
  <2> HIDE DEF r
  <2>s. spent[s] \in Nat /\ spent[s] <= Len(rows)
    BY LifetimeTyped
  <2>c. calls[s] < NodeCalls
    BY DEF Call
  <2>1. RailsTypeOK'
    <3>1. spent' \in [Session -> 0..MaxRows] /\ calls' \in [Session -> 0..NodeCalls]
      BY <1>0, <1>1, <2>s, <2>c DEF RailsTypeOK
    <3>2. rows' \in Seq(Rows) /\ Len(rows') <= MaxRows
      BY <1>0, <1>1, <2>r DEF r
    <3>3. \A q \in Session : run'[q] \in {"off", "boundary"} => calls'[q] = 0
      BY <1>0, <1>1 DEF RailsTypeOK
    <3> QED BY <3>1, <3>2, <3>3, <1>1, <1>u DEF RailsTypeOK
  <2>2. SpendIsBooked'
    <3> SUFFICES ASSUME NEW q \in Session PROVE Booked(rows', q, spent'[q])
      BY DEF SpendIsBooked
    <3>0. Booked(rows, q, spent[q])
      BY DEF SpendIsBooked
    <3>1. CASE q = s
      <4>1. spent'[q] = spent[q] + 1
        BY <1>1, <3>1 DEF RailsTypeOK
      <4> QED BY <3>0, <3>1, <4>1, <1>0, <1>1, <2>r, TokenRowBooks DEF r
    <3>2. CASE q # s
      <4>1. spent'[q] = spent[q]
        BY <1>1, <3>2 DEF RailsTypeOK
      <4> QED BY <3>0, <3>2, <4>1, <1>0, <1>1, <2>r, OtherRowBooks DEF r
    <3> QED BY <3>1, <3>2
  <2>3. NodesBounded'
    <3>1. calls[s] \in Nat /\ run' = run /\ left' = left /\ node' = node
      BY <1>1, <1>u DEF RailsTypeOK
    <3>2. spent'[s] = spent[s] + 1 /\ calls'[s] = calls[s] + 1
      BY <1>1 DEF RailsTypeOK
    <3>3. \A q \in Session \ {s} : spent'[q] = spent[q] /\ calls'[q] = calls[q]
      BY <1>1 DEF RailsTypeOK
    <3>4. /\ run[s] = "setup" => spent[s] = calls[s]
          /\ run[s] = "node" => node[s] # "end" /\ spent[s] < RunBudget + Slack(s) + calls[s]
      BY DEF NodesBounded
    <3>5. /\ spent'[s] < RunBudget + NodeCalls + Slack(s)
          /\ run[s] = "setup" => spent'[s] = calls'[s]
          /\ run[s] = "node" => node[s] # "end" /\ spent'[s] < RunBudget + Slack(s) + calls'[s]
      BY <1>0, <2>s, <2>c, <3>1, <3>2, <3>4 DEF Slack
    <3>6. \A q \in Session : Slack(q)' = Slack(q)
      BY <3>1 DEF Slack, Completed
    <3> QED BY <1>0, <3>1, <3>3, <3>5, <3>6 DEF NodesBounded
  <2>4. ClearedStaysClear'
    BY <1>0, <1>1, <1>u DEF RailsTypeOK, ClearedStaysClear
  <2> QED BY <2>1, <2>2, <2>3, <2>4
<1>2. CASE rows' = Append(rows, Row("exhausted", Nobody, 0)) /\ Suspend(s, "quota")
           /\ UNCHANGED spent
  <2> DEFINE r == Row("exhausted", Nobody, 0)
  <2>r. r \in Rows /\ r.kind = "exhausted"
    BY RowTyped
  <2> HIDE DEF r
  <2>1. RailsTypeOK'
    <3>1. rows' \in Seq(Rows) /\ Len(rows') <= MaxRows
      BY <1>0, <1>2, <2>r DEF r
    <3> QED BY <3>1, <1>2, <1>u DEF Suspend, RailsTypeOK
  <2>2. SpendIsBooked'
    BY <1>0, <1>2, <2>r, OtherRowBooks DEF r, SpendIsBooked
  <2>3. NodesBounded'
    BY <1>2, <1>u DEF RailsTypeOK, NodesBounded, Suspend, Slack, Completed
  <2>4. ClearedStaysClear'
    BY <1>2, <1>u DEF RailsTypeOK, ClearedStaysClear, Suspend
  <2> QED BY <2>1, <2>2, <2>3, <2>4
<1> QED BY <1>1, <1>2 DEF Call

\* clear_run_rails_for_resume: at most two rows, and a run over its ceiling begins anew.
LEMMA ResumeKeepsRails == ASSUME RailsInv, NEW s \in Session, Resume(s) PROVE RailsInv'
<1> USE RailsNumbers DEF RailsInv
<1>0. rows \in Seq(Rows) /\ Len(rows) + 2 <= MaxRows /\ run[s] = "off"
  BY DEF RailsTypeOK, Resume, RoomFor
<1>u. /\ rows' = (rows \o NewRun(s)) \o Retry(s)
      /\ spent' = [spent EXCEPT ![s] = IF @ >= RunBudget THEN 0 ELSE @]
      /\ run' = [run EXCEPT ![s] = "boundary"]
      /\ owed' = [owed EXCEPT ![s] = Cleared(s)]
      /\ stopped' = [stopped EXCEPT ![s] = "none"]
      /\ UNCHANGED <<day, accountAlive, node, calls, left, checkpointed>>
  <2>1. rows \o NewRun(s) \o Retry(s) = (rows \o NewRun(s)) \o Retry(s)
    OBVIOUS
  <2> QED BY <2>1 DEF Resume
<1>s. RunSpend(s) = spent[s] /\ spent[s] \in Nat /\ spent'[s] \in Nat /\ spent'[s] < RunBudget
  BY <1>u, LifetimeTyped DEF RailsTypeOK
<1> DEFINE r1 == Row("run", s, LifetimeSpend(s))
           r2 == Row("retry", s, 0)
           q1 == rows \o NewRun(s)
<1>a. /\ r1 \in Rows /\ r1.kind = "run" /\ r1.session = s
      /\ r1.baseline = Cardinality(TokenRows(rows, s))
  <2>1. LifetimeSpend(s) \in 0..MaxRows /\ LifetimeSpend(s) = Cardinality(TokenRows(rows, s))
    BY LifetimeTyped
  <2> QED BY <2>1, RowTyped
<1>b. r2 \in Rows /\ r2.kind = "retry"
  BY RowTyped
<1>c. q1 = IF spent[s] >= RunBudget THEN Append(rows, r1) ELSE rows
  <2>1. NewRun(s) = IF spent[s] >= RunBudget THEN <<r1>> ELSE <<>>
    BY <1>s DEF NewRun, RunCeiling
  <2>2. rows \o <<>> = rows /\ rows \o <<r1>> = Append(rows, r1)
    BY <1>0, <1>a
  <2> QED BY <2>1, <2>2
<1> HIDE DEF r1
<1>d. q1 \in Seq(Rows) /\ Len(q1) <= Len(rows) + 1
  BY <1>0, <1>a, <1>c
<1>e. rows' = q1 \/ rows' = Append(q1, r2)
  <2>1. Retry(s) = <<>> \/ Retry(s) = <<r2>>
    BY DEF Retry
  <2> HIDE DEF q1, r2
  <2>2. q1 \o <<>> = q1 /\ q1 \o <<r2>> = Append(q1, r2)
    BY <1>b, <1>d
  <2>3. rows' = q1 \o Retry(s)
    BY <1>u DEF q1
  <2> QED BY <2>1, <2>2, <2>3
<1> HIDE DEF q1, r2
<1>1. RailsTypeOK'
  <2>1. rows' \in Seq(Rows) /\ Len(rows') <= MaxRows
    BY <1>0, <1>b, <1>d, <1>e
  <2>2. spent' \in [Session -> 0..MaxRows]
    BY <1>u DEF RailsTypeOK
  <2>3. Cleared(s) \in SUBSET {"quota", "runaway"}
    BY DEF Cleared
  <2> QED BY <1>0, <1>u, <2>1, <2>2, <2>3 DEF RailsTypeOK
<1>2. SpendIsBooked'
  <2> SUFFICES ASSUME NEW q \in Session PROVE Booked(rows', q, spent'[q])
    BY DEF SpendIsBooked
  <2>0. Booked(rows, q, spent[q])
    BY DEF SpendIsBooked
  <2>1. Booked(q1, q, spent'[q])
    <3>1. CASE q = s /\ spent[s] >= RunBudget
      <4>1. spent'[q] = 0
        BY <1>u, <3>1 DEF RailsTypeOK
      <4> QED BY <3>1, <4>1, <1>0, <1>a, <1>c, RunRowBooks
    <3>2. CASE ~(q = s /\ spent[s] >= RunBudget)
      <4>1. spent'[q] = spent[q]
        BY <1>u, <3>2 DEF RailsTypeOK
      <4>2. CASE q = s
        BY <2>0, <3>2, <4>1, <4>2, <1>c
      <4>3. CASE q # s
        BY <2>0, <4>1, <4>3, <1>0, <1>a, <1>c, OtherRowBooks
      <4> QED BY <4>2, <4>3
    <3> QED BY <3>1, <3>2
  <2> QED BY <2>1, <1>b, <1>d, <1>e, OtherRowBooks
<1>3. NodesBounded'
  <2>1. \A q \in Session : Slack(q)' = Slack(q) /\ (Slack(q) = 0 \/ Slack(q) = NodeCalls)
    BY <1>u DEF Slack, Completed
  <2>2. run'[s] = "boundary" /\ spent'[s] < RunBudget + NodeCalls
    BY <1>u, <1>s DEF RailsTypeOK
  <2>3. spent'[s] < RunBudget + NodeCalls + Slack(s)
    BY <1>s, <2>1
  <2>4. \A q \in Session \ {s} : run'[q] = run[q] /\ spent'[q] = spent[q]
    BY <1>u DEF RailsTypeOK
  <2> QED BY <1>u, <2>1, <2>2, <2>3, <2>4 DEF NodesBounded
<1>4. ClearedStaysClear'
  BY <1>u, <1>s DEF RailsTypeOK, ClearedStaysClear
<1> QED BY <1>1, <1>2, <1>3, <1>4

LEMMA RailsStep == RailsInv /\ [RailsNext]_railsVars => RailsInv'
<1> SUFFICES ASSUME RailsInv, [RailsNext]_railsVars PROVE RailsInv'
  OBVIOUS
<1>1. ASSUME NEW s \in Session, SessionStep(s) PROVE RailsInv'
  BY <1>1, StartKeepsRails, CallKeepsRails, QuietKeepsRails, ResumeKeepsRails DEF SessionStep
<1>2. CASE Midnight \/ Account \/ UNCHANGED railsVars
  <2>1. UNCHANGED <<rows, session>>
    BY <1>2 DEF Midnight, Account, railsVars
  <2>2. RailsTypeOK'
    <3>0. day \in 1..MaxDay /\ accountAlive \in BOOLEAN
      BY DEF RailsInv, RailsTypeOK
    <3>1. day' \in 1..MaxDay
      BY <1>2, <3>0, RailsNumbers DEF Midnight, Account, railsVars
    <3>2. accountAlive' \in BOOLEAN
      BY <1>2, <3>0 DEF Midnight, Account, railsVars
    <3> QED BY <2>1, <3>1, <3>2 DEF session, RailsInv, RailsTypeOK
  <2> QED BY <2>1, <2>2 
       DEF session, RailsInv, SpendIsBooked, NodesBounded, ClearedStaysClear, Slack, Completed
<1> QED BY <1>1, <1>2 DEF RailsNext

\* The invariant of the rails holds for any Sessions, midnights and rows of others.
THEOREM RailsKept == RailsSpec => []RailsInv
BY RailsStart, RailsStep, PTL DEF RailsSpec

\* Every variable of the rails keeps its type, and only a node calls.
THEOREM RailsTypeCorrect == RailsSpec => []RailsTypeOK
<1>1. RailsInv => RailsTypeOK
  BY DEF RailsInv
<1> QED BY <1>1, RailsKept, PTL

\* A run no human extends outspends its ceiling by less than one node's calls and, where
\* that node completed the Session, the Study Plan's, over midnights, deaths and resumes,
\* and whatever other Sessions write to the ledger (usage.py:1012-1023, 1262-1267, 1352-1360).
THEOREM NoRunaway == RailsSpec => []RunawayBounded
<1>1. RailsInv => RunawayBounded
  <2> SUFFICES ASSUME RailsInv, NEW s \in Session
      PROVE  spent[s] < RunBudget + (IF Completed(s) THEN 2 ELSE 1) * NodeCalls
    BY DEF RunawayBounded
  <2>1. spent[s] < RunBudget + NodeCalls + Slack(s) /\ spent[s] \in Nat
    BY DEF RailsInv, NodesBounded, RailsTypeOK
  <2>2. 2 * NodeCalls = NodeCalls + NodeCalls /\ 1 * NodeCalls = NodeCalls
    BY RailsNumbers
  <2> QED BY <2>1, <2>2, RailsNumbers DEF Slack
<1> QED BY <1>1, RailsKept, PTL

\* A resume that had the per-run ceiling cleared runs a node before that ceiling can
\* suspend it again (usage.py:1352-1356).
THEOREM ResumeRunsANode == RailsSpec => []RunawayResumeProgresses
<1>1. RailsInv => RunawayResumeProgresses
  BY DEF RailsInv, ClearedStaysClear, RunawayResumeProgresses
<1> QED BY <1>1, RailsKept, PTL
-----------------------------------------------------------------------------
(* The latch. The scan is a recursive function: that there is one, and     *)
(* what it says of n rows, each by the least n where it would fail.        *)

Refused(i) == rows[i].day = day /\ rows[i].kind = "exhausted"
Alive(i, s) == rows[i].day = day /\ SignOfLife(rows[i], s)

\* f is what the scan concludes after each of the first m rows.
ScanOf(f, m, s) == f = [n \in 0..m |-> n > 0 /\ (Refused(n) \/ (f[n - 1] /\ ~Alive(n, s)))]

LEMMA ScanExists ==
  ASSUME NEW s, NEW N \in Nat
  PROVE  \E f : ScanOf(f, N, s)
<1> DEFINE S == {m \in Nat : ~ \E f : ScanOf(f, m, s)}
<1>1. SUFFICES ASSUME S # {} PROVE FALSE
  OBVIOUS
<1>2. PICK m \in S : \A y \in S : m <= y
  BY <1>1, LeastNumber
<1>3. m \in Nat /\ ~ \E f : ScanOf(f, m, s)
  OBVIOUS
<1>4. CASE m = 0
  <2> DEFINE f == [n \in 0..0 |-> FALSE]
  <2>1. \A n \in 0..0 : ~(n > 0)
    OBVIOUS
  <2>2. f = [n \in 0..0 |-> n > 0 /\ (Refused(n) \/ (f[n - 1] /\ ~Alive(n, s)))]
    BY <2>1, Zenon
  <2> QED BY <1>3, <1>4, <2>2 DEF ScanOf
<1>5. CASE m > 0
  <2>1. m - 1 \in Nat /\ ~(m <= m - 1)
    BY <1>3, <1>5
  <2>2. PICK f : ScanOf(f, m - 1, s)
    BY <1>2, <2>1
  <2> DEFINE g == [n \in 0..m |-> IF n = m THEN Refused(m) \/ (f[m - 1] /\ ~Alive(m, s)) ELSE f[n]]
  <2>3. ASSUME NEW n \in 0..m
        PROVE  g[n] = (n > 0 /\ (Refused(n) \/ (g[n - 1] /\ ~Alive(n, s))))
    <3>1. CASE n = m
      <4>1. m - 1 \in 0..m /\ m - 1 # m /\ m \in 0..m
        BY <1>3, <1>5
      <4>2. g[m - 1] = f[m - 1] /\ g[m] = (Refused(m) \/ (f[m - 1] /\ ~Alive(m, s)))
        BY <4>1
      <4> HIDE DEF g
      <4> QED BY <1>5, <3>1, <4>2
    <3>2. CASE n # m
      <4>1. n \in 0..(m - 1) /\ (n > 0 => n - 1 \in 0..m /\ n - 1 # m)
        BY <1>3, <3>2
      <4>2. g[n] = f[n] /\ (n > 0 => g[n - 1] = f[n - 1])
        BY <3>2, <4>1
      <4>3. f[n] = (n > 0 /\ (Refused(n) \/ (f[n - 1] /\ ~Alive(n, s))))
        BY <2>2, <4>1 DEF ScanOf
      <4> HIDE DEF g
      <4> QED BY <4>2, <4>3
    <3> QED BY <3>1, <3>2
  <2>4. ScanOf(g, m, s)
    BY <2>3, Zenon DEF ScanOf
  <2> QED BY <1>3, <2>4
<1> QED BY <1>3, <1>4, <1>5

\* The scan's own equation.
LEMMA ScanUnfolds ==
  ASSUME NEW s, RailsTypeOK, NEW n \in 0..Len(rows)
  PROVE  QuotaScan(s)[n] <=> n > 0 /\ (Refused(n) \/ (QuotaScan(s)[n - 1] /\ ~Alive(n, s)))
<1>1. Len(rows) \in Nat
  BY DEF RailsTypeOK
<1>2. \E f : ScanOf(f, Len(rows), s)
  BY <1>1, ScanExists
<1>3. ScanOf(CHOOSE f : ScanOf(f, Len(rows), s), Len(rows), s)
  BY <1>2, Zenon
<1>4. QuotaScan(s) = CHOOSE f : ScanOf(f, Len(rows), s)
  BY Zenon DEF QuotaScan, ScanOf, Refused, Alive
<1>5. ScanOf(QuotaScan(s), Len(rows), s)
  BY <1>3, <1>4, Zenon
<1> QED BY <1>5, Zenon DEF ScanOf

\* After n rows: the last word on the account was a refusal.
LastWordIsRefusal(n, s) == \E i \in 1..n : Refused(i) /\ \A j \in 1..n : j > i => ~Alive(j, s)

LEMMA ScanDecides ==
  ASSUME NEW s, RailsTypeOK, NEW N \in 0..Len(rows)
  PROVE  QuotaScan(s)[N] <=> LastWordIsRefusal(N, s)
<1> DEFINE S == {n \in 0..Len(rows) : ~(QuotaScan(s)[n] <=> LastWordIsRefusal(n, s))}
<1>1. Len(rows) \in Nat
  BY DEF RailsTypeOK
<1>2. SUFFICES ASSUME S # {} PROVE FALSE
  OBVIOUS
<1>3. PICK m \in S : \A y \in S : m <= y
  <2>1. S \in SUBSET Nat
    BY <1>1
  <2> HIDE DEF S
  <2> QED BY <1>2, <2>1, LeastNumber
<1>4. m \in 0..Len(rows) /\ m \in Nat /\ ~(QuotaScan(s)[m] <=> LastWordIsRefusal(m, s))
  BY <1>1
<1>5. QuotaScan(s)[m] <=> m > 0 /\ (Refused(m) \/ (QuotaScan(s)[m - 1] /\ ~Alive(m, s)))
  BY <1>4, ScanUnfolds
<1>6. CASE m = 0
  BY <1>4, <1>5, <1>6 DEF LastWordIsRefusal
<1>7. CASE m > 0
  <2>1. m - 1 \in 0..Len(rows) /\ ~(m <= m - 1)
    BY <1>1, <1>4, <1>7
  <2>2. QuotaScan(s)[m - 1] <=> LastWordIsRefusal(m - 1, s)
    BY <1>3, <2>1
  <2>3. 1..m = 1..(m - 1) \cup {m} /\ \A i \in 1..(m - 1) : m > i /\ ~(i > m)
    BY <1>4, <1>7
  <2>4. LastWordIsRefusal(m, s) <=> Refused(m) \/ (LastWordIsRefusal(m - 1, s) /\ ~Alive(m, s))
    BY <1>4, <2>3 DEF LastWordIsRefusal
  <2> QED BY <1>4, <1>5, <1>7, <2>2, <2>4
<1> QED BY <1>4, <1>6, <1>7

\* Whoever asks and whatever the ledger holds, the write-order scan says that the provider is
\* dead exactly where a refusal of today is followed by no billed call and by no retry granted
\* to the asker.
THEOREM LatchDecides == RailsSpec => []LatchIsLatestEvidence
<1>1. RailsTypeOK => LatchIsLatestEvidence
  <2> SUFFICES ASSUME RailsTypeOK, NEW s \in Session \cup {Nobody}
      PROVE  QuotaExhausted(s) <=>
               \E i \in DOMAIN rows :
                 /\ rows[i].kind = "exhausted" /\ rows[i].day = day
                 /\ \A j \in DOMAIN rows : j > i /\ rows[j].day = day =>
                      ~(rows[j].kind = "tokens" \/ (rows[j].kind = "retry" /\ rows[j].session = s))
    BY DEF LatchIsLatestEvidence
  <2>1. Len(rows) \in Nat /\ DOMAIN rows = 1..Len(rows)
    BY DEF RailsTypeOK
  <2>2. QuotaExhausted(s) <=> LastWordIsRefusal(Len(rows), s)
    BY <2>1, ScanDecides DEF QuotaExhausted
  <2> QED BY <2>1, <2>2 DEF LastWordIsRefusal, Refused, Alive, SignOfLife, RetryAnswers
<1>2. RailsInv => RailsTypeOK
  BY DEF RailsInv
<1> QED BY <1>1, <1>2, RailsKept, PTL
-----------------------------------------------------------------------------
(* A granted retry, when no refusal comes between.                         *)

\* Each refusal of today is answered, for the Session, by a later row.
RefusalsAnswered(s) == \A i \in DOMAIN rows :
  rows[i].kind = "exhausted" /\ rows[i].day = day =>
    \E j \in DOMAIN rows :
      /\ j > i /\ rows[j].day = day
      /\ rows[j].kind = "tokens" \/ (rows[j].kind = "retry" /\ rows[j].session = s)

RowsOfThePast == \A i \in DOMAIN rows : rows[i].day <= day

\* What a granted retry has answered stays answered until the boundary, and no drive that
\* was granted one stops on the quota.
RetryStands == \A s \in Session :
  /\ run[s] = "boundary" /\ "quota" \in owed[s] => RefusalsAnswered(s)
  /\ stopped[s] = "quota" => run[s] = "off" /\ "quota" \notin owed[s]

LEMMA AnsweredIsNotDead ==
  ASSUME LatchIsLatestEvidence, NEW s \in Session PROVE RefusalsAnswered(s) <=> ~QuotaExhausted(s)
BY DEF LatchIsLatestEvidence, RefusalsAnswered

\* The ledger only grows, by rows of the day.
LEMMA RowsGrow ==
  ASSUME RailsInv, [RailsNext]_railsVars
  PROVE  \/ rows' = rows /\ (day' = day \/ day' = day + 1)
         \/ /\ day' = day /\ Len(rows') >= Len(rows)
            /\ \A i \in DOMAIN rows : rows'[i] = rows[i]
            /\ \A i \in DOMAIN rows' : i \in DOMAIN rows \/ (i > Len(rows) /\ rows'[i].day = day)
<1>0. rows \in Seq(Rows) /\ Len(rows) \in Nat /\ DOMAIN rows = 1..Len(rows)
  BY DEF RailsInv, RailsTypeOK
<1>1. CASE Midnight \/ Account \/ UNCHANGED railsVars
  BY <1>1 DEF Midnight, Account, railsVars
<1>2. ASSUME NEW s \in Session, FinishNode(s) \/ Boundary(s) \/ Abandon(s)
      PROVE  rows' = rows /\ day' = day
  BY <1>2 DEF FinishNode, Boundary, Abandon
<1>3. ASSUME NEW r, r.day = day, rows' = Append(rows, r)
      PROVE  /\ Len(rows') >= Len(rows) /\ \A i \in DOMAIN rows : rows'[i] = rows[i]
             /\ \A i \in DOMAIN rows' : i \in DOMAIN rows \/ (i > Len(rows) /\ rows'[i].day = day)
  BY <1>0, <1>3
<1>4. \A kind, s, n : Row(kind, s, n).day = day
  BY DEF Row
<1>5. ASSUME NEW s \in Session, Start(s) \/ Call(s)
      PROVE  day' = day /\ \E r : r.day = day /\ rows' = Append(rows, r)
  BY <1>4, <1>5 DEF Start, Call
<1>6. ASSUME NEW s \in Session, Resume(s)
      PROVE  /\ day' = day /\ Len(rows') >= Len(rows) /\ \A i \in DOMAIN rows : rows'[i] = rows[i]
             /\ \A i \in DOMAIN rows' : i \in DOMAIN rows \/ (i > Len(rows) /\ rows'[i].day = day)
  <2> DEFINE r1 == Row("run", s, LifetimeSpend(s))
             r2 == Row("retry", s, 0)
             q == rows \o NewRun(s)
  <2>1. r1 \in Rows /\ r2 \in Rows /\ r1.day = day /\ r2.day = day
    BY <1>4, LifetimeTyped, RailsNumbers, RowTyped DEF RailsInv
  <2>2. NewRun(s) = <<>> \/ NewRun(s) = <<r1>>
    BY DEF NewRun
  <2>3. Retry(s) = <<>> \/ Retry(s) = <<r2>>
    BY DEF Retry
  <2>4. rows' = q \o Retry(s) /\ day' = day
    <3>1. rows \o NewRun(s) \o Retry(s) = (rows \o NewRun(s)) \o Retry(s)
      OBVIOUS
    <3> QED BY <1>6, <3>1 DEF Resume
  <2> HIDE DEF r1, r2
  <2>5. q = rows \/ q = Append(rows, r1)
    <3>1. rows \o <<>> = rows /\ rows \o <<r1>> = Append(rows, r1)
      BY <1>0, <2>1
    <3> QED BY <2>2, <3>1
  <2> HIDE DEF q
  <2>6. q \in Seq(Rows) /\ (rows' = q \/ rows' = Append(q, r2))
    <3>1. q \in Seq(Rows)
      BY <1>0, <2>1, <2>5
    <3>2. q \o <<>> = q /\ q \o <<r2>> = Append(q, r2)
      BY <2>1, <3>1
    <3> QED BY <2>3, <2>4, <3>1, <3>2
  <2>7. /\ Len(q) \in Nat /\ DOMAIN q = 1..Len(q) /\ Len(q) >= Len(rows)
        /\ \A i \in DOMAIN rows : q[i] = rows[i]
        /\ \A i \in DOMAIN q : i \in DOMAIN rows \/ (i > Len(rows) /\ q[i].day = day)
    BY <1>0, <2>1, <2>5, <2>6
  <2>8. CASE rows' = q
    BY <1>0, <2>4, <2>7, <2>8
  <2>9. CASE rows' = Append(q, r2)
    <3>1. /\ DOMAIN rows' = 1..(Len(q) + 1) /\ Len(rows') = Len(q) + 1 /\ rows'[Len(q) + 1] = r2
          /\ \A i \in DOMAIN q : rows'[i] = q[i]
      BY <2>6, <2>7, <2>9
    <3>2. DOMAIN rows \subseteq DOMAIN q
      BY <1>0, <2>7
    <3>3. \A i \in DOMAIN rows' : i \in DOMAIN q \/ i = Len(q) + 1
      BY <2>7, <3>1
    <3>4. Len(q) + 1 > Len(rows)
      BY <1>0, <2>7
    <3>5. Len(rows') >= Len(rows)
      BY <3>1, <3>4
    <3> QED BY <2>1, <2>4, <2>7, <3>1, <3>2, <3>3, <3>4, <3>5
  <2> QED BY <2>6, <2>8, <2>9
<1> QED BY <1>1, <1>2, <1>3, <1>5, <1>6 DEF RailsNext, SessionStep

LEMMA DaysOfRows ==
  ASSUME RailsInv, RowsOfThePast
  PROVE  day \in Nat /\ \A i \in DOMAIN rows : rows[i].day \in Nat /\ rows[i].day <= day
<1>1. rows \in Seq(Rows) /\ day \in 1..MaxDay
  BY DEF RailsInv, RailsTypeOK
<1>2. \A r \in Rows : r.day \in 1..MaxDay
  BY DEF Rows
<1>3. \A i \in DOMAIN rows : rows[i] \in Rows
  BY <1>1
<1>4. \A i \in DOMAIN rows : rows[i].day \in 1..MaxDay
  BY <1>2, <1>3
<1> QED BY <1>1, <1>4, RailsNumbers DEF RowsOfThePast

LEMMA PastKept ==
  ASSUME RailsInv, RowsOfThePast, [RailsNext]_railsVars PROVE RowsOfThePast'
<1>1. day \in Nat /\ \A i \in DOMAIN rows : rows[i].day \in Nat /\ rows[i].day <= day
  BY DaysOfRows
<1> QED BY <1>1, RowsGrow DEF RowsOfThePast

\* Rows that are no refusals leave what is answered answered, and so does midnight.
LEMMA AnswersStand ==
  ASSUME RailsInv, RowsOfThePast, [RailsNext]_railsVars, NEW s \in Session, RefusalsAnswered(s),
         \A i \in DOMAIN rows' : i > Len(rows) => rows'[i].kind # "exhausted"
  PROVE  RefusalsAnswered(s)'
<1>0. /\ rows \in Seq(Rows) /\ Len(rows) \in Nat /\ DOMAIN rows = 1..Len(rows)
      /\ day \in Nat /\ \A i \in DOMAIN rows : rows[i].day \in Nat /\ rows[i].day <= day
  BY DaysOfRows DEF RailsInv, RailsTypeOK
<1>1. CASE rows' = rows /\ day' = day
  BY <1>1 DEF RefusalsAnswered
<1>2. CASE rows' = rows /\ day' = day + 1
  BY <1>0, <1>2 DEF RefusalsAnswered
<1>3. CASE /\ day' = day /\ Len(rows') >= Len(rows)
           /\ \A i \in DOMAIN rows : rows'[i] = rows[i]
           /\ \A i \in DOMAIN rows' : i \in DOMAIN rows \/ (i > Len(rows) /\ rows'[i].day = day)
  <2>1. DOMAIN rows \subseteq DOMAIN rows'
    <3>1. rows' \in Seq(Rows) /\ Len(rows') \in Nat /\ DOMAIN rows' = 1..Len(rows')
      BY RailsStep DEF RailsInv, RailsTypeOK
    <3> QED BY <1>0, <1>3, <3>1
  <2> QED BY <1>3, <2>1 DEF RefusalsAnswered
<1> QED BY <1>1, <1>2, <1>3, RowsGrow

\* A resume that had the quota cleared has answered every refusal with its last row.
LEMMA ResumeAnswers ==
  ASSUME RailsInv, NEW s \in Session, Resume(s), "quota" \in owed'[s]
  PROVE  RefusalsAnswered(s)'
<1>0. rows \in Seq(Rows) /\ day \in 1..MaxDay /\ owed \in [Session -> SUBSET {"quota", "runaway"}]
  BY DEF RailsInv, RailsTypeOK
<1>1. QuotaExhausted(s)
  BY <1>0 DEF Resume, Cleared
<1> DEFINE q == rows \o NewRun(s)
           r == Row("retry", s, 0)
<1>2. rows' = Append(q, r) /\ q \in Seq(Rows) /\ day' = day
  <2>1. NewRun(s) \in Seq(Rows)
    <3>1. LifetimeSpend(s) \in 0..MaxRows
      BY LifetimeTyped
    <3>2. Row("run", s, LifetimeSpend(s)) \in Rows
      BY <3>1, RowTyped DEF RailsInv
    <3> QED BY <3>2 DEF NewRun
  <2>2. r \in Rows
    BY RowTyped, RailsNumbers DEF RailsInv
  <2> HIDE DEF r
  <2>3. q \in Seq(Rows) /\ rows' = q \o <<r>> /\ day' = day
    BY <1>0, <1>1, <2>1 DEF Resume, Retry, r
  <2> HIDE DEF q
  <2> QED BY <2>2, <2>3
<1>3. r.kind = "retry" /\ r.session = s /\ r.day = day
  BY DEF Row
<1> HIDE DEF q, r
<1>4. /\ DOMAIN rows' = 1..(Len(q) + 1) /\ Len(q) \in Nat /\ rows'[Len(q) + 1] = r
  BY <1>2
<1>5. \A i \in DOMAIN rows' : rows'[i].kind = "exhausted" => Len(q) + 1 > i
  BY <1>3, <1>4
<1> QED BY <1>2, <1>3, <1>4, <1>5 DEF RefusalsAnswered

LEMMA RetryStillStands ==
  ASSUME RailsInv, LatchIsLatestEvidence, RowsOfThePast, RetryStands,
         [RailsNext]_railsVars, [RefusalsWait]_railsVars
  PROVE  RetryStands'
<1>t. RailsTypeOK /\ ClearedStaysClear
  BY DEF RailsInv
<1> SUFFICES ASSUME NEW s \in Session
    PROVE /\ run'[s] = "boundary" /\ "quota" \in owed'[s] => RefusalsAnswered(s)'
          /\ stopped'[s] = "quota" => run'[s] = "off" /\ "quota" \notin owed'[s]
  BY DEF RetryStands
<1>k. /\ run[s] = "boundary" /\ "quota" \in owed[s] => RefusalsAnswered(s)
      /\ stopped[s] = "quota" => run[s] = "off" /\ "quota" \notin owed[s]
      /\ run[s] \in {"setup", "node"} => owed[s] = {}
  BY <1>t DEF RetryStands, ClearedStaysClear
<1>a. run[s] = "boundary" /\ "quota" \in owed[s] => RefusalsAnswered(s)'
  <2> SUFFICES ASSUME run[s] = "boundary", "quota" \in owed[s] PROVE RefusalsAnswered(s)'
    OBVIOUS
  <2>1. CASE UNCHANGED railsVars
    BY <1>k, <2>1 DEF railsVars, RefusalsAnswered
  <2>2. CASE RefusalsWait
    <3>1. \A i \in DOMAIN rows' : i > Len(rows) => rows'[i].kind # "exhausted"
      BY <2>2 DEF RefusalsWait
    <3> QED BY <1>k, <3>1, AnswersStand
  <2> QED BY <2>1, <2>2
<1>1. CASE UNCHANGED session
  BY <1>1, <1>a, <1>k DEF session
<1>2. ASSUME NEW q \in Session, SessionStep(q), q # s
      PROVE  run'[s] = run[s] /\ owed'[s] = owed[s] /\ stopped'[s] = stopped[s]
  BY <1>2, <1>t DEF SessionStep, Start, Call, FinishNode, Boundary, Resume, Abandon, Suspend,
                    RailsTypeOK
<1>3. CASE Start(s)
  BY <1>3, <1>t DEF Start, RailsTypeOK
<1>4. CASE Call(s)
  <2>1. run[s] \in {"setup", "node"} /\ owed' = owed
    BY <1>4 DEF Call
  <2>2. run'[s] = "off" \/ (run'[s] = run[s] /\ stopped'[s] = stopped[s])
    BY <1>4, <1>t DEF Call, Suspend, RailsTypeOK
  <2> QED BY <1>k, <2>1, <2>2
<1>5. CASE FinishNode(s)
  <2>1. run[s] \in {"setup", "node"} /\ owed' = owed /\ stopped' = stopped
    BY <1>5 DEF FinishNode
  <2> QED BY <1>k, <2>1
<1>6. CASE Boundary(s)
  <2>1. QuotaExhausted(s) => "quota" \notin owed[s]
    BY <1>6, <1>k, AnsweredIsNotDead DEF Boundary
  <2>2. run[s] = "boundary"
    BY <1>6 DEF Boundary
  <2>3. \/ run'[s] = "off" /\ owed' = owed /\ (stopped'[s] = "quota" => QuotaExhausted(s))
        \/ run'[s] = "node" /\ stopped' = stopped
    BY <1>6, <1>t, StopRailDecides DEF Boundary, Suspend, RailsTypeOK
  <2> QED BY <1>k, <2>1, <2>2, <2>3
<1>7. CASE Resume(s)
  <2>1. stopped'[s] = "none"
    BY <1>7, <1>t DEF Resume, RailsTypeOK
  <2> QED BY <1>7, <2>1, ResumeAnswers DEF RailsInv
<1>8. CASE Abandon(s)
  BY <1>8, <1>t DEF Abandon, Suspend, RailsTypeOK
<1>9. ASSUME NEW q \in Session, SessionStep(q)
      PROVE /\ run'[s] = "boundary" /\ "quota" \in owed'[s] => RefusalsAnswered(s)'
            /\ stopped'[s] = "quota" => run'[s] = "off" /\ "quota" \notin owed'[s]
  <2>1. CASE q = s
    BY <1>3, <1>4, <1>5, <1>6, <1>7, <1>8, <1>9, <2>1 DEF SessionStep
  <2>2. CASE q # s
    BY <1>2, <1>9, <1>a, <1>k, <2>2
  <2> QED BY <2>1, <2>2
<1> QED BY <1>1, <1>9 DEF RailsNext, Midnight, Account, railsVars

\* A resume that was granted a retry of a dead quota gets its one attempt (usage.py:429-432),
\* unless another Session's refusal is recorded between the retry and the first node
\* boundary: that is the one way to lose it, over midnights, deaths and rows of others.
THEOREM RetryGetsItsAttempt ==
  RailsSpec /\ [][RefusalsWait]_railsVars => []QuotaResumeProgresses
<1>1. RailsInit => RowsOfThePast /\ RetryStands
  BY DEF RailsInit, RowsOfThePast, RetryStands
<1>2. RailsInv /\ LatchIsLatestEvidence /\ RowsOfThePast /\ RetryStands
        /\ [RailsNext]_railsVars /\ [RefusalsWait]_railsVars => (RowsOfThePast /\ RetryStands)'
  BY PastKept, RetryStillStands
<1>3. RetryStands => QuotaResumeProgresses
  BY DEF RetryStands, QuotaResumeProgresses
<1> QED BY <1>1, <1>2, <1>3, RailsKept, LatchDecides, PTL DEF RailsSpec
-----------------------------------------------------------------------------
(* The checkpoint thread.                                                  *)

\* Where a surface is at work, whom that excludes, and that both at once is noted.
ShellsHoldTheFlock == \A s \in Shell : pc[s] # "out" => claim = s
SweptBeforeRuns == condemned => \A r \in Run : pc[r] = "out"
CrossingNoted == ShellsAtWork /\ ServerAtWork => crossed

\* A thread that is not there holds no answers.
NoneIsEmpty == thread.status = "none" => thread.items = {}

\* What a graph that runs holds is the newest checkpoint.
MemoryIsTheThread == ~crossed => \A d \in Driver : pc[d] = "driving" => memory[d] = thread

\* What a sweep is about to drop has not been touched since it was listed.
SweepsTheStale == ~crossed => CondemnedIsStale

ClaimInv == /\ ClaimTypeOK
            /\ ShellsHoldTheFlock /\ SweptBeforeRuns /\ CrossingNoted
            /\ NoneIsEmpty /\ MemoryIsTheThread /\ GuardStillHolds /\ SweepsTheStale

\* While the surfaces have not met there is one driver at most, and a sweep is alone.
LEMMA DrivesAlone ==
  ASSUME Surfaces, ClaimInv, ~crossed
  PROVE  /\ \A d, e \in Driver : pc[d] # "out" /\ pc[e] # "out" => d = e
         /\ condemned => \A d \in Driver : pc[d] = "out"
<1>1. ~(ShellsAtWork /\ ServerAtWork)
  BY DEF ClaimInv, CrossingNoted
<1>2. \A s, t \in Shell : pc[s] # "out" /\ pc[t] # "out" => s = t
  BY DEF ClaimInv, ShellsHoldTheFlock
<1>3. \A s \in Shell, r \in Run : pc[s] = "out" \/ pc[r] = "out"
  BY <1>1 DEF ShellsAtWork, ServerAtWork
<1>4. \A d, e \in Driver : pc[d] # "out" /\ pc[e] # "out" => d = e
  BY <1>2, <1>3 DEF Surfaces, Driver
<1>5. condemned => \A d \in Driver : pc[d] = "out"
  BY <1>1 DEF ClaimInv, SweptBeforeRuns, ShellsAtWork, ServerAtWork, Driver
<1> QED BY <1>4, <1>5

\* A step keeps the note of a crossing, and wipes it when nobody is at work any more.
LEMMA CrossingKept ==
  ASSUME Crossing, crossed \in BOOLEAN
  PROVE  /\ CrossingNoted' /\ crossed' \in BOOLEAN
         /\ ~crossed' => \/ ~crossed
                         \/ ~condemned' /\ \A d \in Driver : pc'[d] = "out"
<1>1. CrossingNoted' /\ crossed' \in BOOLEAN
  BY DEF Crossing, CrossingNoted
<1>2. ~crossed' /\ crossed => ~ShellsAtWork' /\ ~ServerAtWork'
  BY DEF Crossing
<1>3. ~ShellsAtWork' /\ ~ServerAtWork' => ~condemned' /\ \A d \in Driver : pc'[d] = "out"
  BY DEF ShellsAtWork, ServerAtWork, Driver
<1> QED BY <1>1, <1>2, <1>3

LEMMA ClaimInitial ==
  ASSUME Surfaces, ClaimInit PROVE ClaimInv
<1>1. ClaimTypeOK
  <2>1. NoThread \in Thread
    BY DEF Thread, NoThread
  <2>2. answered \in 0..MaxAnswers
    BY DEF Surfaces, ClaimInit
  <2>3. claim \in Shell \cup {Unclaimed} /\ stale \in BOOLEAN /\ condemned \in BOOLEAN
        /\ crossed \in BOOLEAN
    BY DEF ClaimInit
  <2>4. /\ thread \in Thread /\ memory \in [Driver -> Thread]
        /\ pc \in [Driver -> {"out", "entered", "cleared", "driving"}]
        /\ resume \in [Driver -> BOOLEAN]
    BY <2>1 DEF ClaimInit
  <2> QED BY <2>2, <2>3, <2>4 DEF ClaimTypeOK
<1>2. ShellsHoldTheFlock /\ SweptBeforeRuns /\ CrossingNoted
  BY DEF ClaimInit, ShellsHoldTheFlock, SweptBeforeRuns, CrossingNoted, ShellsAtWork, Driver
<1>3. NoneIsEmpty /\ MemoryIsTheThread /\ GuardStillHolds /\ SweepsTheStale
  BY DEF ClaimInit, NoneIsEmpty, MemoryIsTheThread, GuardStillHolds, SweepsTheStale,
         CondemnedIsStale, NoThread
<1> QED BY <1>1, <1>2, <1>3 DEF ClaimInv

LEMMA ClaimStutters ==
  ASSUME ClaimInv, UNCHANGED claimVars PROVE ClaimInv'
  BY DEF ClaimInv, ClaimTypeOK, ShellsHoldTheFlock, SweptBeforeRuns, CrossingNoted,
     NoneIsEmpty, MemoryIsTheThread, GuardStillHolds, SweepsTheStale, CondemnedIsStale,
     ShellsAtWork, ServerAtWork, Refuses, claimVars

\* A driver comes in, and knows nothing yet.
LEMMA EntersKept ==
  ASSUME Surfaces, ClaimInv, NEW d \in Driver, Claim(d) \/ StartRun(d)
  PROVE  ClaimInv'
<1>1. /\ UNCHANGED <<thread, stale, memory, condemned, answered>> /\ Crossing
      /\ pc' = [pc EXCEPT ![d] = "entered"]
      /\ \E again \in BOOLEAN : resume' = [resume EXCEPT ![d] = again]
      /\ \/ d \in Shell /\ claim = Unclaimed /\ claim' = d
         \/ d \in Run /\ ~condemned /\ claim' = claim
  BY DEF Claim, StartRun, MoveTo, Claimable
<1>2. CrossingNoted' /\ crossed' \in BOOLEAN /\ (~crossed' => ~crossed)
  <2>1. pc'[d] # "out"
    BY <1>1 DEF ClaimInv, ClaimTypeOK
  <2> QED BY <1>1, <2>1, CrossingKept DEF ClaimInv, ClaimTypeOK
<1>3. ClaimTypeOK'
  BY <1>1, <1>2 DEF ClaimInv, ClaimTypeOK
<1>4. ShellsHoldTheFlock' /\ SweptBeforeRuns'
  BY <1>1 DEF ClaimInv, ClaimTypeOK, ShellsHoldTheFlock, SweptBeforeRuns, Surfaces, Driver
<1>5. NoneIsEmpty' /\ MemoryIsTheThread'
  BY <1>1, <1>2 DEF ClaimInv, ClaimTypeOK, NoneIsEmpty, MemoryIsTheThread
<1>6. GuardStillHolds'
  BY <1>1, <1>2 DEF ClaimInv, ClaimTypeOK, GuardStillHolds, Refuses
<1>7. SweepsTheStale'
  BY <1>1, <1>2 DEF ClaimInv, SweepsTheStale, CondemnedIsStale
<1> QED BY <1>2, <1>3, <1>4, <1>5, <1>6, <1>7 DEF ClaimInv

\* A driver goes: the thread is as it was, and the flock is free if it was its own.
LEMMA LeavesKept ==
  ASSUME Surfaces, ClaimInv, NEW d \in Driver, pc[d] # "out", Leave(d), stale' \in BOOLEAN,
         UNCHANGED <<thread, resume, condemned, answered>>, Crossing
  PROVE  ClaimInv'
<1>1. /\ pc' = [pc EXCEPT ![d] = "out"]
      /\ claim' = IF claim = d THEN Unclaimed ELSE claim
      /\ memory' = [memory EXCEPT ![d] = NoThread]
  BY DEF Leave, MoveTo
<1>2. /\ CrossingNoted' /\ crossed' \in BOOLEAN
      /\ ~crossed' => ~crossed \/ \A e \in Driver : pc'[e] = "out"
  BY CrossingKept DEF ClaimInv, ClaimTypeOK
<1>3. ClaimTypeOK'
  <2>1. NoThread \in Thread
    BY DEF NoThread, Thread
  <2> QED BY <1>1, <1>2, <2>1 DEF ClaimInv, ClaimTypeOK
<1>4. ShellsHoldTheFlock' /\ SweptBeforeRuns'
  BY <1>1 DEF ClaimInv, ClaimTypeOK, ShellsHoldTheFlock, SweptBeforeRuns, Driver
<1>5. NoneIsEmpty' /\ MemoryIsTheThread'
  BY <1>1, <1>2 DEF ClaimInv, ClaimTypeOK, NoneIsEmpty, MemoryIsTheThread
<1>6. GuardStillHolds'
  BY <1>1, <1>2 DEF ClaimInv, ClaimTypeOK, GuardStillHolds, Refuses
<1>7. SweepsTheStale'
  <2>1. ~crossed' => ~condemned'
    BY CrossingKept, DrivesAlone DEF ClaimInv, ClaimTypeOK
  <2> QED BY <2>1 DEF SweepsTheStale, CondemnedIsStale
<1> QED BY <1>2, <1>3, <1>4, <1>5, <1>6, <1>7 DEF ClaimInv

\* A driver that is told yes is told what the thread says now.
LEMMA LookKept ==
  ASSUME Surfaces, ClaimInv, NEW d \in Driver, Look(d) PROVE ClaimInv'
<1>1. CASE Refuses(d)
  BY <1>1, LeavesKept DEF Look, ClaimInv, ClaimTypeOK
<1>2. CASE ~Refuses(d)
  <2>1. /\ UNCHANGED <<thread, stale, claim, resume, memory, condemned, answered>> /\ Crossing
        /\ pc[d] = "entered" /\ pc' = [pc EXCEPT ![d] = "cleared"]
    BY <1>2 DEF Look, MoveTo
  <2>2. CrossingNoted' /\ crossed' \in BOOLEAN /\ (~crossed' => ~crossed)
    <3>1. pc'[d] # "out"
      BY <2>1 DEF ClaimInv, ClaimTypeOK
    <3> QED BY <2>1, <3>1, CrossingKept DEF ClaimInv, ClaimTypeOK
  <2>3. ClaimTypeOK'
    BY <2>1, <2>2 DEF ClaimInv, ClaimTypeOK
  <2>4. ShellsHoldTheFlock' /\ SweptBeforeRuns'
    BY <2>1 DEF ClaimInv, ClaimTypeOK, ShellsHoldTheFlock, SweptBeforeRuns, Driver
  <2>5. NoneIsEmpty' /\ MemoryIsTheThread'
    BY <2>1, <2>2 DEF ClaimInv, ClaimTypeOK, NoneIsEmpty, MemoryIsTheThread
  <2>6. GuardStillHolds'
    BY <1>2, <2>1, <2>2 DEF ClaimInv, ClaimTypeOK, GuardStillHolds, Refuses
  <2>7. SweepsTheStale'
    BY <2>1, <2>2 DEF ClaimInv, SweepsTheStale, CondemnedIsStale
  <2> QED BY <2>2, <2>3, <2>4, <2>5, <2>6, <2>7 DEF ClaimInv
<1> QED BY <1>1, <1>2

\* A driver at work has written the thread: it holds what it wrote, and a driver that
\* would not know is at work beside it, across the surfaces.
LEMMA WrittenKept ==
  ASSUME Surfaces, ClaimInv, NEW d \in Driver, NEW state \in Thread,
         state.status # "none", pc[d] # "out",
         pc' = [pc EXCEPT ![d] = "driving"],
         memory' = [memory EXCEPT ![d] = state], thread' = state, stale' \in BOOLEAN,
         answered' \in 0..MaxAnswers, UNCHANGED <<claim, resume, condemned>>, Crossing
  PROVE  ClaimInv'
<1>1. pc'[d] = "driving" /\ \A e \in Driver \ {d} : pc'[e] = pc[e] /\ memory'[e] = memory[e]
  BY DEF ClaimInv, ClaimTypeOK
<1>2. CrossingNoted' /\ crossed' \in BOOLEAN /\ (~crossed' => ~crossed)
  BY <1>1, CrossingKept DEF ClaimInv, ClaimTypeOK
<1>3. ClaimTypeOK'
  BY <1>2 DEF ClaimInv, ClaimTypeOK
<1>4. ~crossed' => \A e \in Driver : pc'[e] # "out" => e = d
  BY <1>1, <1>2, DrivesAlone
<1>5. ShellsHoldTheFlock' /\ SweptBeforeRuns'
  BY <1>1 DEF ClaimInv, ShellsHoldTheFlock, SweptBeforeRuns, Driver
<1>6. NoneIsEmpty'
  BY DEF NoneIsEmpty
<1>7. MemoryIsTheThread'
  BY <1>4 DEF ClaimInv, ClaimTypeOK, MemoryIsTheThread
<1>8. GuardStillHolds'
  BY <1>1, <1>4 DEF GuardStillHolds
<1>9. SweepsTheStale'
  <2>1. ~crossed' => ~condemned'
    BY <1>2, DrivesAlone
  <2> QED BY <2>1 DEF SweepsTheStale, CondemnedIsStale
<1> QED BY <1>2, <1>3, <1>5, <1>6, <1>7, <1>8, <1>9 DEF ClaimInv

\* A stream begins or goes on: in each case the driver ends up with what it wrote or read.
LEMMA DriveKept ==
  ASSUME Surfaces, ClaimInv, NEW d \in Driver,
         BeginFresh(d) \/ BeginResumed(d) \/ Resolve(d) \/ End(d)
  PROVE  ClaimInv'
<1>1. /\ thread \in Thread /\ memory[d] \in Thread /\ stale \in BOOLEAN
      /\ answered \in 0..MaxAnswers /\ MaxAnswers \in Nat
      /\ pc \in [Driver -> {"out", "entered", "cleared", "driving"}]
  BY DEF ClaimInv, ClaimTypeOK, Surfaces
<1>2. CASE BeginFresh(d)
  <2>1. NewThread \in Thread /\ NewThread.status # "none"
    BY DEF NewThread, Thread
  <2>2. answered' \in 0..MaxAnswers /\ stale' \in BOOLEAN
    BY <1>1, <1>2 DEF BeginFresh
  <2> QED BY <1>2, <2>1, <2>2, WrittenKept DEF BeginFresh, MoveTo
<1>3. CASE BeginResumed(d)
  <2>1. CASE thread.status = "none"
    BY <1>1, <1>3, <2>1, LeavesKept DEF BeginResumed
  <2>2. CASE thread.status # "none"
    <3>1. answered' \in 0..MaxAnswers /\ stale' \in BOOLEAN
      BY <1>1, <1>3, <2>2 DEF BeginResumed
    <3> QED BY <1>1, <1>3, <2>2, <3>1, WrittenKept DEF BeginResumed, MoveTo
  <2> QED BY <2>1, <2>2
<1>4. CASE Resolve(d)
  <2> DEFINE State == [memory[d] EXCEPT !.items = @ \cup {answered'}]
  <2>1. answered' = answered + 1 /\ answered' \in 1..MaxAnswers
    BY <1>1, <1>4 DEF Resolve
  <2>2. memory[d].status = "active" /\ pc[d] = "driving" /\ Write(d, State)
    BY <1>4 DEF Resolve, Driving
  <2>3. State \in Thread /\ State.status # "none"
    BY <1>1, <2>1, <2>2 DEF Thread
  <2>4. pc' = [pc EXCEPT ![d] = "driving"]
    BY <1>1, <2>2 DEF Write
  <2>5. answered' \in 0..MaxAnswers
    BY <2>1
  <2> HIDE DEF State
  <2> QED BY <2>2, <2>3, <2>4, <2>5, WrittenKept DEF Write
<1>5. CASE End(d)
  <2> DEFINE State == [memory[d] EXCEPT !.status = "complete"]
  <2>1. answered' \in 0..MaxAnswers /\ pc[d] = "driving" /\ Write(d, State)
    BY <1>1, <1>5 DEF End, Driving
  <2>2. State \in Thread /\ State.status # "none"
    BY <1>1 DEF Thread
  <2>3. pc' = [pc EXCEPT ![d] = "driving"]
    BY <1>1, <2>1 DEF Write
  <2> HIDE DEF State
  <2> QED BY <2>1, <2>2, <2>3, WrittenKept DEF Write
<1> QED BY <1>2, <1>3, <1>4, <1>5

\* The sweep's two halves, and time: no driver of the server's is under way, and a shell
\* that is makes it a crossing.
LEMMA SweepKept ==
  ASSUME Surfaces, ClaimInv, Enumerate \/ Delete \/ Expire
  PROVE  ClaimInv'
<1>1. UNCHANGED <<claim, pc, resume, memory, answered>> /\ Crossing /\ stale' \in BOOLEAN
  BY DEF Enumerate, Delete, Expire, ClaimInv, ClaimTypeOK
<1>2. /\ CrossingNoted' /\ crossed' \in BOOLEAN
      /\ ~crossed' => ~crossed \/ \A d \in Driver : pc'[d] = "out"
  BY <1>1, CrossingKept DEF ClaimInv, ClaimTypeOK
<1>3. condemned' \in BOOLEAN /\ SweptBeforeRuns'
  <2>1. CASE Enumerate
    BY <1>1, <2>1 DEF Enumerate, SweptBeforeRuns
  <2>2. CASE Delete
    BY <2>2 DEF Delete, SweptBeforeRuns
  <2>3. CASE Expire
    BY <1>1, <2>3 DEF Expire, ClaimInv, ClaimTypeOK, SweptBeforeRuns
  <2> QED BY <2>1, <2>2, <2>3
<1>4. /\ thread' \in Thread /\ NoneIsEmpty'
      /\ ~crossed' => thread' = thread \/ \A d \in Driver : pc'[d] = "out"
  <2>1. CASE Delete
    <3>1. thread' = NoThread /\ NoThread \in Thread /\ NoThread.items = {}
      BY <2>1 DEF Delete, NoThread, Thread
    <3>2. ~crossed => \A d \in Driver : pc[d] = "out"
      BY <2>1, DrivesAlone DEF Delete
    <3> QED BY <1>1, <1>2, <3>1, <3>2 DEF NoneIsEmpty
  <2>2. CASE Enumerate \/ Expire
    <3>1. thread' = thread
      BY <2>2 DEF Enumerate, Expire
    <3> QED BY <3>1 DEF ClaimInv, ClaimTypeOK, NoneIsEmpty
  <2> QED BY <2>1, <2>2
<1>5. ClaimTypeOK'
  BY <1>1, <1>2, <1>3, <1>4 DEF ClaimInv, ClaimTypeOK
<1>6. ShellsHoldTheFlock'
  BY <1>1 DEF ClaimInv, ShellsHoldTheFlock
<1>7. MemoryIsTheThread' /\ GuardStillHolds'
  BY <1>1, <1>2, <1>4 DEF ClaimInv, MemoryIsTheThread, GuardStillHolds, Refuses
<1>8. SweepsTheStale'
  BY <1>1, <1>2 DEF Enumerate, Delete, Expire, ClaimInv, SweepsTheStale, CondemnedIsStale
<1> QED BY <1>2, <1>3, <1>4, <1>5, <1>6, <1>7, <1>8 DEF ClaimInv

LEMMA ClaimStep ==
  ASSUME Surfaces, ClaimInv, [ClaimNext]_claimVars PROVE ClaimInv'
<1>1. ASSUME NEW d \in Driver, Drive(d) PROVE ClaimInv'
  <2>1. CASE Quit(d)
    BY <2>1, LeavesKept DEF Quit, ClaimInv, ClaimTypeOK
  <2> QED BY <1>1, <2>1, EntersKept, LookKept, DriveKept DEF Drive
<1>2. CASE Enumerate \/ Delete \/ Expire
  BY <1>2, SweepKept
<1>3. CASE UNCHANGED claimVars
  BY <1>3, ClaimStutters
<1> QED BY <1>1, <1>2, <1>3 DEF ClaimNext

\* The invariant of the claim on a checkpoint thread holds throughout.
THEOREM ClaimKept == ASSUME Surfaces PROVE ClaimSpec => []ClaimInv
<1>1. ClaimInit => ClaimInv
  BY ClaimInitial
<1>2. ClaimInv /\ [ClaimNext]_claimVars => ClaimInv'
  BY ClaimStep
<1> QED BY <1>1, <1>2, PTL DEF ClaimSpec

\* What a shell or the server was told of the thread, behind the flock or the lease, is
\* still so when its stream begins, whatever stops, deaths and expiries come between, as
\* long as only one surface is at work (cli_session.py:329-352,
\* web_session_driver.py:107-132).
THEOREM GuardsHold == ASSUME Surfaces PROVE ClaimSpec => []GuardStillHolds
<1>1. ClaimInv => GuardStillHolds
  BY DEF ClaimInv
<1> QED BY <1>1, ClaimKept, PTL

\* No drive writes over an answer that is in the checkpoint, and none is lost but with an
\* expired thread, as long as only one surface is at work.
THEOREM AnswersAreKept == ASSUME Surfaces PROVE ClaimSpec => AnswersKept
<1>1. ASSUME ClaimInv, [ClaimNext]_claimVars, ~condemned, ~crossed
      PROVE  thread.items \subseteq thread'.items
  <2>1. ASSUME NEW d \in Driver, BeginFresh(d) PROVE thread.items = {}
    BY <1>1, <2>1 DEF ClaimInv, GuardStillHolds, Refuses, NoneIsEmpty, BeginFresh
  <2>2. ASSUME NEW d \in Driver, Resolve(d) \/ End(d)
        PROVE  thread.items \subseteq thread'.items
    <3>1. memory[d] = thread /\ thread \in Thread
      BY <1>1, <2>2 DEF ClaimInv, ClaimTypeOK, MemoryIsTheThread, Resolve, End, Driving
    <3> QED BY <2>2, <3>1 DEF Resolve, End, Write, Thread
  <2>3. ASSUME NEW d \in Driver,
               Claim(d) \/ StartRun(d) \/ Look(d) \/ BeginResumed(d) \/ Quit(d)
        PROVE  thread' = thread
    BY <2>3 DEF Claim, StartRun, Look, BeginResumed, Quit
  <2>4. ~Delete /\ (Enumerate \/ Expire \/ UNCHANGED claimVars => thread' = thread)
    BY <1>1 DEF Delete, Enumerate, Expire, claimVars
  <2> QED BY <1>1, <2>1, <2>2, <2>3, <2>4 DEF ClaimNext, Drive
<1>2. ClaimInv /\ [ClaimNext]_claimVars
        => [thread.items \subseteq thread'.items \/ condemned \/ crossed]_claimVars
  BY <1>1
<1> QED BY <1>2, ClaimKept, PTL DEF ClaimSpec, AnswersKept

\* What the two divergences of the claim need is both surfaces at once: as long as only one
\* is at work, "one checkpoint thread takes one writer" (cli_session.py:231), and what the
\* sweep is about to drop is as old as when it was listed (web_ops.py:154).
THEOREM OneSurfaceOneWriter ==
  ASSUME Surfaces PROVE ClaimSpec => [](~crossed => OneWriterPerThread /\ CondemnedIsStale)
<1>1. ClaimInv => (~crossed => OneWriterPerThread /\ CondemnedIsStale)
  <2> SUFFICES ASSUME ClaimInv, ~crossed PROVE OneWriterPerThread /\ CondemnedIsStale
    OBVIOUS
  <2>1. OneWriterPerThread
    BY DrivesAlone DEF OneWriterPerThread
  <2> QED BY <2>1 DEF ClaimInv, SweepsTheStale
<1> QED BY <1>1, ClaimKept, PTL
=============================================================================
