---------------------------- MODULE TurnBinding ----------------------------
(***************************************************************************)
(* One socket and its runs: how an answer frame is bound to the question   *)
(* it answers (web_api.py, the frame loop; web_runtime.py, RuntimeSession  *)
(* and QueueCandidate).                                                    *)
(*                                                                         *)
(* The frame loop and the graph thread share awaiting_turn_id, the answer  *)
(* queue and the cancelled event, and no lock: each read and each write of *)
(* those is a step of its own. An answer is known by the turn its author   *)
(* was shown, and by whether it was accepted after a cancel.               *)
(***************************************************************************)
EXTENDS Naturals, Sequences

CONSTANTS MaxTurn,     \* bound of the model: questions asked on one socket
          QueueMax,    \* ANSWER_QUEUE_MAXSIZE
          CANCEL       \* the sentinel

ASSUME BoundsAssumption == MaxTurn \in Nat /\ QueueMax \in Nat \ 0..2
ASSUME SentinelAssumption == CANCEL \notin [turn : 1..MaxTurn, late : BOOLEAN]

VARIABLES run,        \* the graph thread: off, busy, armed, polling, getting
          turnSeq,    \* RuntimeSession.turn_seq
          awaiting,   \* awaiting_turn_id, 0 for None
          shown,      \* the last turn whose question frame was emitted
          answers,    \* RuntimeSession.answers
          cancelled,  \* RuntimeSession.cancelled
          handler,    \* where the frame loop stands
          evidence,   \* every answer a turn was scored on
          cancelSeen, \* history: a cancel was handled during this run
          intent      \* history: how the last run ended: "none", "other", "cancel"

thread == <<run, turnSeq, shown, evidence, intent>>
vars == <<run, turnSeq, awaiting, shown, answers, cancelled, handler, evidence, cancelSeen, intent>>

Turn == 1..MaxTurn
Answer == [turn : Turn, late : BOOLEAN]

TypeOK ==
  /\ run \in {"off", "busy", "armed", "polling", "getting"}
  /\ turnSeq \in 0..MaxTurn /\ shown \in 0..turnSeq
  /\ awaiting \in 0..turnSeq
  /\ answers \in Seq(Answer \cup {CANCEL})
  /\ cancelled \in BOOLEAN /\ cancelSeen \in BOOLEAN
  /\ handler \in {"frame", "accepted", "flagged", "closed", "drained"}
  /\ evidence \subseteq [asked : Turn, answer : Answer]
  /\ intent \in {"none", "other", "cancel"}

Init == /\ run = "off" /\ turnSeq = 0 /\ awaiting = 0 /\ shown = 0
        /\ answers = <<>> /\ cancelled = FALSE
        /\ handler = "frame" /\ evidence = {}
        /\ cancelSeen = FALSE /\ intent = "none"
-----------------------------------------------------------------------------
(* The frame loop.                                                         *)

ResetRunStateKeepingQueue == /\ cancelled' = FALSE /\ awaiting' = 0
                             /\ UNCHANGED <<answers, turnSeq>>

ResetRunStateKeepingFlag == /\ answers' = <<>> /\ awaiting' = 0
                            /\ UNCHANGED <<cancelled, turnSeq>>

ResetRunState == /\ answers' = <<>> /\ cancelled' = FALSE /\ awaiting' = 0
                 /\ UNCHANGED turnSeq

\* A start or resume frame; refused while the last run's thread is alive.
StartRun == /\ handler = "frame" /\ run = "off"
            /\ ResetRunState
            /\ run' = "busy"
            /\ cancelSeen' = FALSE /\ intent' = "none"
            /\ UNCHANGED <<shown, handler, evidence>>

AcceptsAnyPending(t) == awaiting # 0

\* The frame names the one pending turn (any other answer frame is refused).
Accepts(t) == awaiting # 0 /\ awaiting = t

\* A client may answer any question it was ever shown, in any order, twice.
AnswerFrame == /\ handler = "frame"
               /\ \E t \in 1..shown :
                    /\ Accepts(t)
                    /\ handler' = "accepted"
                    /\ answers' = Append(answers, [turn |-> t, late |-> cancelled])
               /\ UNCHANGED <<run, turnSeq, awaiting, shown, cancelled, evidence, cancelSeen, intent>>

\* After put_nowait, as a step of its own: nothing is pending any more.
ClearPending == /\ handler = "accepted" /\ handler' = "frame"
                /\ awaiting' = 0
                /\ UNCHANGED <<thread, answers, cancelled, cancelSeen>>

CancelFrameWhenPending ==
  /\ handler = "frame" /\ cancelSeen' = TRUE
  /\ IF awaiting = 0 THEN UNCHANGED <<handler, cancelled>>
                     ELSE handler' = "flagged" /\ cancelled' = TRUE
  /\ UNCHANGED <<thread, awaiting, answers>>

\* RuntimeSession.cancel, for a cancel frame and for a disconnect alike: flag,
\* close the turn, drain, sentinel.
CancelFrame == /\ handler = "frame" /\ handler' = "flagged"
               /\ cancelled' = TRUE /\ cancelSeen' = TRUE
               /\ UNCHANGED <<thread, awaiting, answers>>

CancelCloses == /\ handler = "flagged" /\ handler' = "closed"
                /\ awaiting' = 0
                /\ UNCHANGED <<thread, answers, cancelled, cancelSeen>>

CancelDrains == /\ handler = "closed" /\ handler' = "drained"
                /\ answers' = <<>>
                /\ UNCHANGED <<thread, awaiting, cancelled, cancelSeen>>

CancelSignals == /\ handler = "drained" /\ handler' = "frame"
                 /\ answers' = Append(answers, CANCEL)
                 /\ UNCHANGED <<thread, awaiting, cancelled, cancelSeen>>
-----------------------------------------------------------------------------
(* The graph thread.                                                       *)

\* begin_turn, before the question frame leaves.
BeginTurn == /\ run = "busy" /\ turnSeq < MaxTurn
             /\ run' = "armed"
             /\ turnSeq' = turnSeq + 1
             /\ awaiting' = turnSeq + 1
             /\ UNCHANGED <<shown, answers, cancelled, handler, evidence, cancelSeen, intent>>

EmitQuestion == /\ run = "armed" /\ run' = "polling"
                /\ shown' = turnSeq
                /\ UNCHANGED <<turnSeq, awaiting, answers, cancelled, handler, evidence, cancelSeen, intent>>

EndRun(how) == /\ run' = "off"
               /\ intent' = how
               /\ UNCHANGED <<turnSeq, awaiting, shown, cancelled, handler, evidence, cancelSeen>>

\* QueueCandidate.answer's loop: the flag, then the queue for 0.1 s.
PollFlag == /\ run = "polling"
            /\ \/ cancelled /\ EndRun("cancel")
               \/ /\ ~cancelled
                  /\ run' = "getting"
                  /\ UNCHANGED <<turnSeq, awaiting, shown, cancelled, handler, evidence, cancelSeen, intent>>
            /\ UNCHANGED answers

GetTimesOut == /\ run = "getting" /\ answers = <<>>
               /\ run' = "polling"
               /\ UNCHANGED <<turnSeq, awaiting, shown, answers, cancelled, handler, evidence, cancelSeen, intent>>

GetItem == /\ run = "getting" /\ answers # <<>>
           /\ answers' = Tail(answers)
           /\ \/ Head(answers) = CANCEL /\ EndRun("cancel")
              \/ /\ Head(answers) # CANCEL
                 /\ run' = "busy"
                 /\ evidence' = evidence \cup {[asked |-> turnSeq, answer |-> Head(answers)]}
                 /\ UNCHANGED <<turnSeq, awaiting, shown, cancelled, handler, cancelSeen, intent>>

\* The run ends between questions: complete, suspended, failed, or cancelled at
\* the event loop of _stream_graph.
FinishRun == /\ run = "busy"
             /\ \/ EndRun("other")
                \/ cancelled /\ EndRun("cancel")
             /\ UNCHANGED answers
-----------------------------------------------------------------------------
ThreadStep == BeginTurn \/ EmitQuestion \/ PollFlag \/ GetTimesOut \/ GetItem \/ FinishRun

HandlerStep == ClearPending \/ CancelCloses \/ CancelDrains \/ CancelSignals

Next == ThreadStep \/ HandlerStep \/ StartRun \/ AnswerFrame \/ CancelFrame

\* Both threads keep running; clients need not send anything.
Spec == Init /\ [][Next]_vars /\ WF_vars(ThreadStep) /\ WF_vars(HandlerStep)
-----------------------------------------------------------------------------
(* Properties.                                                             *)

\* Every answer is scored against the question its author was shown, across
\* duplicated and late frames and across runs of one socket (web_api.py:202-211).
AnswersItsOwnQuestion == \A e \in evidence : e.answer.turn = e.asked

\* "a late answer is not evidence": an answer accepted after a cancel is never
\* scored, in that run or in a later one of the socket (web_runtime.py:162).
LateAnswersNeverScored == \A e \in evidence : ~e.answer.late

\* A run only ever stops on a cancel it received itself, never on a flag or a
\* sentinel left over from the run before it (web_runtime.py:147-149).
StoppedByOwnCancel == intent = "cancel" => cancelSeen

\* put_nowait always has room, so no accepted answer is dropped and cancel's
\* sentinel cannot raise queue.Full (web_runtime.py:160, web_api.py:216-219).
QueueHasRoom == Len(answers) < QueueMax

\* A cancel ends the run, whatever the graph thread is doing when it arrives.
CancelEndsRun == (cancelSeen /\ run # "off") ~> (run = "off")

\* "with no window in which a legitimate answer would be refused"
\* (web_runtime.py:87-89): while the thread waits for an answer that nobody has
\* sent yet, and nothing cancelled it, that answer would be accepted.
PendingTurnAnswerable ==
  (run = "getting" /\ handler = "frame" /\ answers = <<>> /\ ~cancelled) => awaiting = turnSeq

\* "a cancel closes the turn" (web_runtime.py:162): once cancel() has returned,
\* no answer is accepted before the next run.
CancelClosesTurn == (cancelled /\ handler = "frame") => awaiting = 0
=============================================================================
