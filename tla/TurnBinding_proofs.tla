------------------------ MODULE TurnBinding_proofs ------------------------
(***************************************************************************)
(* Proofs about TurnBinding, for every number of turns: an answer is       *)
(* scored against its own question, a late answer never is, and a run      *)
(* stops on its own cancel only.                                           *)
(***************************************************************************)
EXTENDS TurnBinding, TLAPS

\* The thread has armed its turn and has not consumed an answer to it.
Waiting == run \in {"armed", "polling", "getting"}

\* What the queue may hold besides the sentinel: nothing while the thread is between
\* questions, and one answer to the current turn while it waits.
QueueOfThisTurn ==
  /\ \A i \in 1..Len(answers) : answers[i] # CANCEL =>
       /\ run # "busy"
       /\ Waiting => answers[i].turn = turnSeq
  /\ Waiting => \A i, j \in 1..Len(answers) :
       answers[i] # CANCEL /\ answers[j] # CANCEL => i = j

\* Only the current turn is ever pending, none while the thread is between questions
\* or has an answer in the queue - but for the step before ClearPending.
PendingIsThisTurn ==
  /\ Waiting => turnSeq # 0 /\ awaiting \in {0, turnSeq}
  /\ handler # "accepted" /\ run = "busy" => awaiting = 0
  /\ handler # "accepted" /\ Waiting /\ (\E i \in 1..Len(answers) : answers[i] # CANCEL)
       => awaiting = 0

\* A thread that looked at the flag before the cancel finds no late answer.
LateStaysBehindTheFlag ==
  /\ \A i \in 1..Len(answers) : answers[i] # CANCEL /\ answers[i].late =>
       cancelled /\ run # "getting"
  /\ run = "getting" /\ cancelled /\ handler # "flagged" => awaiting = 0

\* Flag and sentinel come from a cancel of this run.
CancelsAreSeen ==
  /\ cancelled \/ handler \in {"flagged", "closed", "drained"} => cancelSeen
  /\ \A i \in 1..Len(answers) : answers[i] = CANCEL => cancelSeen
  /\ StoppedByOwnCancel

BindingInv == /\ TypeOK
              /\ QueueOfThisTurn /\ PendingIsThisTurn /\ AnswersItsOwnQuestion
              /\ LateStaysBehindTheFlag /\ LateAnswersNeverScored
              /\ CancelsAreSeen

Item == Answer \cup {CANCEL}

\* What an append does to the queue, item by item.
LEMMA AppendItems ==
  ASSUME NEW q \in Seq(Item), NEW x \in Item
  PROVE  /\ Append(q, x) \in Seq(Item) /\ Len(Append(q, x)) = Len(q) + 1
         /\ \A i \in 1..Len(q) : Append(q, x)[i] = q[i]
         /\ Append(q, x)[Len(q) + 1] = x
  OBVIOUS

\* What taking its head does to the queue.
LEMMA TailItems ==
  ASSUME NEW q \in Seq(Item), q # <<>>
  PROVE  /\ Tail(q) \in Seq(Item) /\ Len(Tail(q)) = Len(q) - 1
         /\ \A i \in 1..Len(Tail(q)) : i + 1 \in 1..Len(q) /\ Tail(q)[i] = q[i + 1]
         /\ 1 \in 1..Len(q) /\ Head(q) = q[1] /\ q[1] \in Item
  OBVIOUS

\* A drained queue has the type of the queue, and no items.
LEMMA EmptyQueue == ASSUME NEW q, q = <<>>
                    PROVE q \in Seq(Item) /\ Len(q) = 0 /\ 1..Len(q) = {}
  OBVIOUS

\* The types, with the order of the turn counters.
LEMMA TypeStep == ASSUME TypeOK, PendingIsThisTurn, [Next]_vars PROVE TypeOK'
<1> USE BoundsAssumption DEF TypeOK
<1>1. CASE UNCHANGED vars
  BY <1>1 DEF vars
<1>2. CASE StartRun
  <2>1. answers' \in Seq(Answer \cup {CANCEL})
    BY <1>2, EmptyQueue DEF StartRun, ResetRunState, Item
  <2>2. turnSeq' = turnSeq /\ cancelled' = FALSE /\ awaiting' = 0
    BY <1>2 DEF StartRun, ResetRunState
  <2> QED
    <3>1. run' = "busy" /\ cancelSeen' = FALSE /\ intent' = "none"
      BY <1>2 DEF StartRun
    <3>2. shown' = shown /\ handler' = handler /\ evidence' = evidence
      BY <1>2 DEF StartRun
    <3>3. /\ run' \in {"off", "busy", "armed", "polling", "getting"}
          /\ intent' \in {"none", "other", "cancel"}
      BY <3>1
    <3>4. cancelled' \in BOOLEAN /\ cancelSeen' \in BOOLEAN
      BY <2>2, <3>1
    <3>5. turnSeq' \in 0..MaxTurn /\ shown' \in 0..turnSeq' /\ awaiting' \in 0..turnSeq'
      BY <3>2, <2>2
    <3> QED BY <2>1, <3>2, <3>3, <3>4, <3>5
<1>3. CASE AnswerFrame
  <2>1. PICK t \in 1..shown : /\ handler' = "accepted"
                             /\ answers' = Append(answers, [turn |-> t, late |-> cancelled])
    BY <1>3 DEF AnswerFrame
  <2>2. [turn |-> t, late |-> cancelled] \in Item
    BY <2>1 DEF Item, Answer, Turn
  <2>3. answers' \in Seq(Item)
    BY <2>1, <2>2, AppendItems DEF Item
  <2> QED
    BY <1>3, <2>1, <2>3 DEF AnswerFrame, Item
<1>4. CASE HandlerStep
  <2>1. CASE CancelSignals
    BY <2>1, AppendItems DEF CancelSignals, Item, thread
  <2>2. CASE ClearPending \/ CancelCloses \/ CancelDrains
    <3>1. answers' \in Seq(Answer \cup {CANCEL})
      BY <2>2, EmptyQueue DEF ClearPending, CancelCloses, CancelDrains, Item
    <3> QED
      BY <2>2, <3>1 DEF ClearPending, CancelCloses, CancelDrains, thread
  <2> QED
    BY <1>4, <2>1, <2>2 DEF HandlerStep
<1>5. CASE CancelFrame
  BY <1>5 DEF CancelFrame, thread
<1>6. CASE GetItem
  <2>1. /\ answers' \in Seq(Item) /\ Head(answers) \in Item
    BY <1>6, TailItems DEF GetItem, Item
  <2>2. CASE Head(answers) = CANCEL
    BY <1>6, <2>1, <2>2 DEF GetItem, EndRun, Item
  <2>3. CASE Head(answers) # CANCEL
    <3>1. turnSeq \in Turn
      BY <1>6 DEF GetItem, Turn, PendingIsThisTurn, Waiting
    <3> QED
      BY <1>6, <2>1, <2>3, <3>1 DEF GetItem, Item
  <2> QED
    BY <2>2, <2>3
<1>7. CASE BeginTurn \/ EmitQuestion \/ PollFlag \/ GetTimesOut \/ FinishRun
  BY <1>7 DEF BeginTurn, EmitQuestion, PollFlag, GetTimesOut, FinishRun, EndRun
<1> QED
  BY <1>1, <1>2, <1>3, <1>4, <1>5, <1>6, <1>7 DEF Next, ThreadStep

\* The rest of the invariant, action by action.
LEMMA BindingStep == ASSUME BindingInv, TypeOK', [Next]_vars PROVE BindingInv'
<1> DEFINE Q == Len(answers)
<1>0. /\ TypeOK /\ QueueOfThisTurn /\ PendingIsThisTurn /\ AnswersItsOwnQuestion
      /\ LateStaysBehindTheFlag /\ LateAnswersNeverScored /\ CancelsAreSeen
  BY DEF BindingInv
<1> USE DEF QueueOfThisTurn, PendingIsThisTurn, LateStaysBehindTheFlag, CancelsAreSeen,
            AnswersItsOwnQuestion, LateAnswersNeverScored, StoppedByOwnCancel, Waiting
<1>1. CASE UNCHANGED vars
  BY <1>0, <1>1 DEF vars, BindingInv
<1>2. CASE StartRun
  <2>1. answers' = <<>> /\ cancelled' = FALSE /\ awaiting' = 0 /\ run' = "busy"
    BY <1>2 DEF StartRun, ResetRunState
  <2>2. 1..Len(answers') = {}
    BY <2>1, EmptyQueue
  <2>3. handler' = "frame" /\ intent' = "none" /\ evidence' = evidence
    BY <1>2 DEF StartRun
  <2> QED BY <1>0, <2>1, <2>2, <2>3 DEF BindingInv
<1>3. CASE AnswerFrame
  <2>1. PICK t \in 1..shown :
          /\ awaiting # 0 /\ awaiting = t /\ handler = "frame" /\ handler' = "accepted"
          /\ answers' = Append(answers, [turn |-> t, late |-> cancelled])
          /\ UNCHANGED <<run, turnSeq, awaiting, cancelled, evidence, cancelSeen, intent>>
    BY <1>3 DEF AnswerFrame, Accepts
  <2> DEFINE x == [turn |-> t, late |-> cancelled]
  <2>2. x \in Item /\ x # CANCEL /\ x.turn = t /\ x.late = cancelled
    BY <1>0, <2>1, SentinelAssumption, BoundsAssumption DEF TypeOK, Item, Answer, Turn
  <2>3. answers \in Seq(Item)
    BY <1>0 DEF TypeOK, Item
  <2> HIDE DEF x
  <2>4. /\ Len(answers') = Q + 1 /\ answers'[Q + 1] = x
        /\ \A i \in 1..Q : answers'[i] = answers[i]
    BY <2>1, <2>2, <2>3, AppendItems DEF x
  <2>5. \A i \in 1..Len(answers') : i = Q + 1 \/ i \in 1..Q
    BY <2>3, <2>4
  <2>6. Waiting => t = turnSeq /\ \A i \in 1..Q : answers[i] = CANCEL
    BY <1>0, <2>1
  <2>7. run # "busy" /\ (run = "getting" => ~cancelled)
    BY <1>0, <2>1
  <2>8. QueueOfThisTurn'
    BY <1>0, <2>1, <2>2, <2>4, <2>5, <2>6, <2>7
  <2>9. LateStaysBehindTheFlag'
    BY <1>0, <2>1, <2>2, <2>4, <2>5, <2>7
  <2>10. CancelsAreSeen'
    BY <1>0, <2>1, <2>2, <2>4, <2>5
  <2>11. PendingIsThisTurn'
    BY <1>0, <2>1
  <2> QED BY <1>0, <2>1, <2>8, <2>9, <2>10, <2>11 DEF BindingInv
<1>4. CASE ClearPending \/ CancelCloses \/ CancelFrame
  <2>1. /\ UNCHANGED <<run, turnSeq, evidence, intent, answers>>
        /\ awaiting' \in {0, awaiting}
    BY <1>4 DEF ClearPending, CancelCloses, CancelFrame, thread
  <2>2. handler' # "accepted" /\ (handler = "accepted" => awaiting' = 0)
    BY <1>4 DEF ClearPending, CancelCloses, CancelFrame
  <2>3. QueueOfThisTurn' /\ AnswersItsOwnQuestion' /\ LateAnswersNeverScored'
    BY <1>0, <2>1
  <2>4. PendingIsThisTurn'
    BY <1>0, <2>1, <2>2
  <2>5. LateStaysBehindTheFlag'
    BY <1>0, <1>4, <2>1 DEF ClearPending, CancelCloses, CancelFrame
  <2>6. CancelsAreSeen'
    BY <1>0, <1>4, <2>1 DEF ClearPending, CancelCloses, CancelFrame
  <2> QED BY <2>3, <2>4, <2>5, <2>6 DEF BindingInv
<1>5. CASE CancelDrains
  <2>1. answers' = <<>> /\ handler = "closed" /\ handler' = "drained"
    BY <1>5 DEF CancelDrains
  <2>2. UNCHANGED <<run, turnSeq, evidence, intent, awaiting, cancelled, cancelSeen>>
    BY <1>5 DEF CancelDrains, thread
  <2>3. 1..Len(answers') = {}
    BY <2>1, EmptyQueue
  <2> QED BY <1>0, <2>1, <2>2, <2>3 DEF BindingInv
<1>6. CASE CancelSignals
  <2>1. answers' = Append(answers, CANCEL) /\ handler = "drained" /\ handler' = "frame"
    BY <1>6 DEF CancelSignals
  <2>2. UNCHANGED <<run, turnSeq, evidence, intent, awaiting, cancelled, cancelSeen>>
    BY <1>6 DEF CancelSignals, thread
  <2>3. answers \in Seq(Item) /\ CANCEL \in Item
    BY <1>0 DEF TypeOK, Item
  <2>4. /\ Len(answers') = Q + 1 /\ answers'[Q + 1] = CANCEL
        /\ \A i \in 1..Q : answers'[i] = answers[i]
    BY <2>1, <2>3, AppendItems
  <2>5. \A i \in 1..Len(answers') : i = Q + 1 \/ i \in 1..Q
    BY <2>3, <2>4
  <2>6. QueueOfThisTurn' /\ PendingIsThisTurn'
    BY <1>0, <2>1, <2>2, <2>4, <2>5
  <2>7. LateStaysBehindTheFlag' /\ CancelsAreSeen'
    BY <1>0, <2>1, <2>2, <2>4, <2>5
  <2> QED BY <1>0, <2>2, <2>6, <2>7 DEF BindingInv
<1>7. CASE BeginTurn
  <2>1. /\ run = "busy" /\ run' = "armed" /\ awaiting' = turnSeq' /\ turnSeq' = turnSeq + 1
        /\ UNCHANGED <<answers, cancelled, handler, evidence, cancelSeen, intent>>
    BY <1>7 DEF BeginTurn
  <2>2. \A i \in 1..Q : answers[i] = CANCEL
    BY <1>0, <2>1
  <2>3. turnSeq' # 0
    BY <1>0, <2>1, BoundsAssumption DEF TypeOK
  <2> QED BY <1>0, <2>1, <2>2, <2>3 DEF BindingInv
<1>8. CASE EmitQuestion \/ GetTimesOut
  BY <1>0, <1>8 DEF EmitQuestion, GetTimesOut, BindingInv
<1>9. CASE PollFlag \/ FinishRun
  BY <1>0, <1>9 DEF PollFlag, FinishRun, EndRun, BindingInv
<1>10. CASE GetItem
  <2>1. answers \in Seq(Item) /\ answers # <<>> /\ run = "getting" /\ answers' = Tail(answers)
    BY <1>0, <1>10 DEF GetItem, TypeOK, Item
  <2>2. /\ \A i \in 1..Len(answers') : i + 1 \in 1..Q /\ answers'[i] = answers[i + 1]
        /\ 1 \in 1..Q /\ Head(answers) = answers[1]
    BY <2>1, TailItems
  <2>3. UNCHANGED <<turnSeq, awaiting, cancelled, handler, cancelSeen>>
    BY <1>10 DEF GetItem, EndRun
  <2>4. \A i \in 1..Len(answers') : answers'[i] # CANCEL /\ answers'[i].late => cancelled
    BY <1>0, <2>2
  <2>5. \A i \in 1..Len(answers') : answers'[i] = CANCEL => cancelSeen
    BY <1>0, <2>2
  <2>6. CASE Head(answers) = CANCEL
    <3>1. run' = "off" /\ intent' = "cancel" /\ evidence' = evidence
      BY <1>10, <2>6 DEF GetItem, EndRun
    <3>2. cancelSeen
      BY <1>0, <2>2, <2>6
    <3> QED BY <1>0, <2>3, <2>4, <2>5, <3>1, <3>2 DEF BindingInv
  <2>7. CASE Head(answers) # CANCEL
    <3>1. /\ run' = "busy" /\ intent' = intent
          /\ evidence' = evidence \cup {[asked |-> turnSeq, answer |-> answers[1]]}
      BY <1>10, <2>2, <2>7 DEF GetItem
    <3>2. answers[1].turn = turnSeq /\ ~answers[1].late
      BY <1>0, <2>1, <2>2, <2>7
    <3>3. AnswersItsOwnQuestion' /\ LateAnswersNeverScored'
      BY <1>0, <3>1, <3>2
    <3>4. \A i \in 1..Len(answers') : answers'[i] = CANCEL
      <4> SUFFICES ASSUME NEW i \in 1..Len(answers'), answers'[i] # CANCEL PROVE FALSE
        OBVIOUS
      <4>1. i + 1 \in 1..Q /\ answers[i + 1] # CANCEL /\ answers[1] # CANCEL
        BY <2>2, <2>7
      <4>2. i + 1 = 1
        BY <1>0, <2>1, <2>2, <4>1
      <4> QED BY <4>2
    <3>5. handler # "accepted" => awaiting = 0
      BY <1>0, <2>1, <2>2, <2>7
    <3> QED BY <1>0, <2>3, <2>5, <3>1, <3>3, <3>4, <3>5 DEF BindingInv
  <2> QED BY <2>6, <2>7
<1> QED
  BY <1>1, <1>2, <1>3, <1>4, <1>5, <1>6, <1>7, <1>8, <1>9, <1>10
  DEF Next, ThreadStep, HandlerStep

\* The invariant holds of every behaviour.
LEMMA InductiveBinding == Spec => []BindingInv
<1>1. Init => BindingInv
  <2> SUFFICES ASSUME Init PROVE BindingInv
    OBVIOUS
  <2>1. answers \in Seq(Answer \cup {CANCEL}) /\ 1..Len(answers) = {}
    BY EmptyQueue DEF Init, Item
  <2>2. TypeOK
    <3>1. turnSeq \in 0..MaxTurn /\ shown \in 0..turnSeq /\ awaiting \in 0..turnSeq
      BY BoundsAssumption DEF Init
    <3>2. evidence \subseteq [asked : Turn, answer : Answer]
      BY DEF Init
    <3> QED BY <2>1, <3>1, <3>2 DEF Init, TypeOK
  <2>3. QueueOfThisTurn /\ LateStaysBehindTheFlag /\ CancelsAreSeen
    BY <2>1 DEF Init, QueueOfThisTurn, LateStaysBehindTheFlag, CancelsAreSeen,
       StoppedByOwnCancel, Waiting
  <2>4. PendingIsThisTurn /\ AnswersItsOwnQuestion /\ LateAnswersNeverScored
    BY DEF Init, PendingIsThisTurn, AnswersItsOwnQuestion, LateAnswersNeverScored, Waiting
  <2> QED BY <2>2, <2>3, <2>4 DEF BindingInv
<1>2. BindingInv /\ [Next]_vars => BindingInv'
  <2> SUFFICES ASSUME BindingInv, [Next]_vars PROVE BindingInv'
    OBVIOUS
  <2>1. TypeOK'
    BY TypeStep DEF BindingInv
  <2> QED BY <2>1, BindingStep
<1> QED
  BY <1>1, <1>2, PTL DEF Spec

\* Every variable keeps its type, and the counters their order: the last question
\* shown and the pending turn never run ahead of turn_seq (web_runtime.py:91-97).
THEOREM TypeCorrect == Spec => []TypeOK
<1>1. BindingInv => TypeOK
  BY DEF BindingInv
<1> QED BY <1>1, InductiveBinding, PTL

\* Every answer is scored against the question its author was shown, whatever frames
\* arrive, in whatever order, over any number of turns and runs (web_api.py:202-211).
THEOREM OwnQuestion == Spec => []AnswersItsOwnQuestion
<1>1. BindingInv => AnswersItsOwnQuestion
  BY DEF BindingInv
<1> QED BY <1>1, InductiveBinding, PTL

\* An answer accepted after a cancel is never scored (web_runtime.py:162).
THEOREM LateNeverScored == Spec => []LateAnswersNeverScored
<1>1. BindingInv => LateAnswersNeverScored
  BY DEF BindingInv
<1> QED BY <1>1, InductiveBinding, PTL

\* A run never stops on a cancel that an earlier run received (web_runtime.py:147-149).
THEOREM OwnCancel == Spec => []StoppedByOwnCancel
<1>1. BindingInv => StoppedByOwnCancel
  BY DEF BindingInv, CancelsAreSeen
<1> QED BY <1>1, InductiveBinding, PTL

\* The queue holds a sentinel and an answer at most: an answer enters only when there is
\* none, and cancel() drains before it puts its sentinel.
RoomInv ==
  /\ Len(answers) <= 2
  /\ (\A i \in 1..Len(answers) : answers[i] = CANCEL) => Len(answers) <= 1
  /\ handler = "drained" => answers = <<>>
  /\ handler # "accepted" /\ awaiting # 0 => \A i \in 1..Len(answers) : answers[i] = CANCEL

\* RoomInv is kept, given the invariant of the binding.
LEMMA RoomStep == ASSUME BindingInv, RoomInv, [Next]_vars PROVE RoomInv'
<1>0. answers \in Seq(Item) /\ Len(answers) \in Nat
  BY DEF BindingInv, TypeOK, Item
<1> USE DEF RoomInv
<1>1. CASE UNCHANGED vars
  BY <1>1 DEF vars
<1>2. CASE StartRun \/ CancelDrains
  <2>1. answers' = <<>> /\ handler' # "accepted"
    BY <1>2 DEF StartRun, ResetRunState, CancelDrains
  <2>2. Len(answers') = 0 /\ 1..Len(answers') = {}
    BY <2>1, EmptyQueue
  <2> QED BY <2>1, <2>2
<1>3. CASE AnswerFrame
  <2>1. PICK t \in 1..shown : /\ awaiting # 0 /\ handler = "frame" /\ handler' = "accepted"
                             /\ answers' = Append(answers, [turn |-> t, late |-> cancelled])
    BY <1>3 DEF AnswerFrame, Accepts
  <2> DEFINE x == [turn |-> t, late |-> cancelled]
  <2>2. x \in Item /\ x # CANCEL
    BY <2>1, SentinelAssumption, BoundsAssumption DEF BindingInv, TypeOK, Item, Answer, Turn
  <2> HIDE DEF x
  <2>3. Len(answers') = Len(answers) + 1 /\ answers'[Len(answers) + 1] = x
    BY <1>0, <2>1, <2>2, AppendItems DEF x
  <2>4. Len(answers) <= 1
    BY <2>1
  <2>5. Len(answers) + 1 \in 1..Len(answers')
    BY <1>0, <2>3
  <2> QED BY <1>0, <2>1, <2>2, <2>3, <2>4, <2>5
<1>4. CASE ClearPending \/ CancelCloses \/ CancelFrame
  BY <1>4 DEF ClearPending, CancelCloses, CancelFrame, thread
<1>5. CASE CancelSignals
  <2>1. /\ answers' = Append(answers, CANCEL) /\ answers = <<>> /\ handler' = "frame"
        /\ CANCEL \in Item
    BY <1>5 DEF CancelSignals, Item
  <2>2. Len(answers') = 1 /\ answers'[1] = CANCEL
    BY <1>0, <2>1, EmptyQueue, AppendItems
  <2> QED BY <2>1, <2>2
<1>6. CASE BeginTurn
  <2>1. answers' = answers /\ handler' = handler /\ run = "busy"
    BY <1>6 DEF BeginTurn
  <2>2. \A i \in 1..Len(answers) : answers[i] = CANCEL
    BY <2>1 DEF BindingInv, QueueOfThisTurn
  <2> QED BY <2>1, <2>2
<1>7. CASE EmitQuestion \/ GetTimesOut \/ PollFlag \/ FinishRun
  BY <1>7 DEF EmitQuestion, GetTimesOut, PollFlag, FinishRun, EndRun
<1>8. CASE GetItem
  <2>1. answers # <<>> /\ answers' = Tail(answers) /\ UNCHANGED <<handler, awaiting>>
    BY <1>8 DEF GetItem, EndRun
  <2>2. /\ Len(answers') = Len(answers) - 1
        /\ \A i \in 1..Len(answers') : i + 1 \in 1..Len(answers) /\ answers'[i] = answers[i + 1]
    BY <1>0, <2>1, TailItems
  <2> QED BY <1>0, <2>1, <2>2
<1> QED
  BY <1>1, <1>2, <1>3, <1>4, <1>5, <1>6, <1>7, <1>8 DEF Next, ThreadStep, HandlerStep

\* put_nowait always has room, for any number of turns and any queue of more than two:
\* neither an accepted answer nor cancel's sentinel meets queue.Full (web_runtime.py:160-166).
THEOREM AlwaysRoom == Spec => []QueueHasRoom
<1>1. Init => RoomInv
  BY EmptyQueue DEF Init, RoomInv
<1>2. BindingInv /\ RoomInv /\ [Next]_vars => RoomInv'
  BY RoomStep
<1>3. BindingInv /\ RoomInv => QueueHasRoom
  BY BoundsAssumption DEF RoomInv, QueueHasRoom, BindingInv, TypeOK
<1> QED BY <1>1, <1>2, <1>3, InductiveBinding, PTL DEF Spec
=============================================================================
