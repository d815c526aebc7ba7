----------------------------- MODULE MicroLoop -----------------------------
(***************************************************************************)
(* One question of a Session: the micro-loop of asking, judging and        *)
(* following up (microloop.py), the Evaluator with its committee           *)
(* (evaluator.py), the Interviewer's tool round-trip (interviewer.py), and *)
(* the weight a judgment enters the Skill state with (skill.py). A step is *)
(* one provider call with what the code does on its reply; a call's errors *)
(* are those left after backoff and, but in a tool round-trip, failover.   *)
(* Confidence is in percent, weight in two-hundredths of an observation.   *)
(***************************************************************************)
EXTENDS Integers, Sequences, Functions

CONSTANTS Session, Self,     \* the Sessions of a process, and the one that asks
          Seed, Rendered,    \* the question of the bank, and its re-voicing
          Text,              \* what a follow-up may say
          MaxTurns,          \* max_turns
          Escalations,       \* PANEL_MAX_ESCALATIONS_PER_QUESTION
          JudgeRetries,      \* JUDGE_MAX_RETRIES
          Retries,           \* max_retries of every other structured call
          ToolAttempts,      \* _NATIVE_TOOL_ATTEMPTS
          Dims,              \* active dimensions, each with a citation
          Stated,            \* confidences a judge may state, in percent
          Split              \* |skeptic - advocate|, in score points

ASSUME TextAssumption == Seed # Rendered /\ {Seed, Rendered} \subseteq Text
ASSUME SelfAssumption == Self \in Session
ASSUME LimitsAssumption == /\ MaxTurns \in Nat \ {0} /\ Escalations \in Nat
                           /\ JudgeRetries \in Nat /\ Retries \in Nat
                           /\ ToolAttempts \in Nat \ {0} /\ Dims \in Nat \ {0}
ASSUME ScaleAssumption == Stated \subseteq 0..100 /\ Split \subseteq 0..4

VARIABLES mode,       \* language_mode: en, or one that is rendered
          native,     \* whether the Interviewer's client does tool calls
          pc,         \* the call being made
          attempt,    \* replies to it that were sent back
          tries,      \* tool round-trips of this follow-up
          put,        \* the questions put to the Candidate, the seed first
          hit,        \* whether lookup_concept found a note in this round-trip
          fellOver,   \* whether this round-trip began anew on the fallback provider
          budget,     \* PanelBudget.remaining
          turns,      \* turns scored
          first,      \* the first pass, while the committee sits
          split,      \* the committee's disagreement
          kept,       \* the judgment of the last answer, once it is scored
          moved,      \* the Sessions whose noise counters moved since the last snapshot
          own,        \* history: replies to the judge were sent back or folded
          calls,      \* history: calls since the last answer
          panels,     \* history: committees convened
          outcome, belief,
          error       \* what failed the question: [at, kind]

context == <<mode, native>>
following == <<hit, tries, fellOver>>
judging == <<budget, first, split, panels, own>>
scored == <<turns, kept>>
ended == <<outcome, belief, error>>
vars == <<context, pc, attempt, put, following, judging, scored, moved, calls, ended>>

Voice == {"skeptic", "advocate"}
FirstPass == {"judge", "judge_degraded"}
Verdict == {"verdict", "verdict_degraded"}
Committee == Voice \cup Verdict
FollowUp == {"tool", "plan", "compose"}
Stage == {"render", "ask", "done"} \cup FollowUp \cup FirstPass \cup Committee
Scored == {"resolved", "safety_cap", "follow_up_unavailable"}
Judgment == [follow : BOOLEAN, conf : 0..100, diverged : BOOLEAN, blanked : 0..Dims,
             noisy : BOOLEAN, own : BOOLEAN, split : Split \cup {-1}, suppressed : BOOLEAN]
NoJudgment == [follow |-> FALSE, conf |-> 0, diverged |-> FALSE, blanked |-> 0,
               noisy |-> FALSE, own |-> FALSE, split |-> -1, suppressed |-> FALSE]

TypeOK == /\ mode \in {"en", "vn"} /\ native \in BOOLEAN /\ hit \in BOOLEAN /\ fellOver \in BOOLEAN
          /\ pc \in Stage /\ attempt \in 0..(JudgeRetries + Retries) /\ tries \in 0..ToolAttempts
          /\ put \in Seq(Text) /\ Len(put) <= MaxTurns
          /\ budget \in 0..Escalations /\ turns \in 0..MaxTurns /\ panels \in Nat
          /\ first \in Judgment /\ kept \in Judgment /\ split \in Split \cup {-1}
          /\ moved \subseteq Session /\ own \in BOOLEAN /\ calls \in Nat
          /\ outcome \in Scored \cup {"open", "failed", "abandoned"} /\ belief \in Nat

Init == /\ mode \in {"en", "vn"} /\ native \in BOOLEAN
        /\ pc = "render" /\ attempt = 0 /\ tries = 0 /\ put = <<>>
        /\ hit = FALSE /\ fellOver = FALSE
        /\ budget = Escalations /\ turns = 0 /\ panels = 0
        /\ first = NoJudgment /\ kept = NoJudgment /\ split = -1
        /\ moved = {} /\ own = FALSE /\ calls = 0
        /\ outcome = "open" /\ belief = 0 /\ error = [at |-> "none", kind |-> "none"]
-----------------------------------------------------------------------------
(* What a judgment is worth.                                               *)

Least(a, b) == IF a < b THEN a ELSE b

\* apply_cross_check.
CrossChecked(j) == [j EXCEPT !.conf = IF j.diverged THEN Least(@, 40) ELSE @]

Triggers(j) == j.conf < 50 \/ j.diverged

\* apply_evidence_degrade_haircut, then apply_noise_haircut.
Finalized(j) ==
  LET graded == Least(j.conf, 100 - (60 * j.blanked) \div Dims)
  IN  [j EXCEPT !.conf = IF j.noisy THEN Least(graded, 85) ELSE graded]

ConfidenceWeight(c) == 100 + 3 * c
AgreementWeight(d) == 100 + 75 * (4 - d)

WeightDispatched(j) == IF j.split >= 0 THEN AgreementWeight(j.split) ELSE ConfidenceWeight(j.conf)
Weight(j) == IF j.split >= 0 THEN Least(AgreementWeight(j.split), ConfidenceWeight(j.conf))
             ELSE ConfidenceWeight(j.conf)
-----------------------------------------------------------------------------
(* Telemetry counters: one Counter for each Session.                       *)

ActiveUnscoped(s) == Self
Active(s) == s

Incr(s) == moved' = moved \cup {Active(s)}

\* Another Session's reply is sent back or folded between two snapshots of this one.
Neighbour == /\ pc \in FirstPass \cup Verdict
             /\ \E s \in Session \ {Self} : Incr(s)
             /\ UNCHANGED <<context, pc, attempt, put, following, judging, scored, calls, ended>>
-----------------------------------------------------------------------------
(* How a structured call ends (chat_json), and how the question does.      *)

Go(p) == pc' = p /\ attempt' = 0

\* The reply is sent back with the error: a retry is left.
SentBack(limit) == attempt < limit /\ attempt' = attempt + 1 /\ pc' = pc /\ Incr(Self)

\* The last reply is invalid too: StructuredOutputError.
Exhausted(limit) == attempt = limit /\ Incr(Self)

\* run_micro_loop returns, and question_node writes the belief.
Finish(reason) == /\ Go("done") /\ outcome' = reason
                  /\ belief' = belief + Weight(kept') /\ error' = error

\* The exception reaches question_node, which records a failed item.
Fail(kind) == /\ Go("done") /\ outcome' = "failed" /\ error' = [at |-> pc, kind |-> kind]
              /\ belief' = belief

\* FollowUpUnavailable: the question keeps the score it has.
Unavailable == UNCHANGED scored /\ Finish("follow_up_unavailable")

\* CandidateIntent and the operator stops pass the net.
Abandon == /\ Go("done") /\ outcome' = "abandoned"
           /\ UNCHANGED <<context, put, following, judging, scored, moved, belief, error>>
-----------------------------------------------------------------------------
(* The Interviewer asks.                                                   *)

Put(q) == put' = Append(put, q) /\ Go("ask")

\* render_seed_question.
Render ==
  /\ pc = "render"
  /\ \/ mode = "en" /\ Put(Seed) /\ UNCHANGED <<moved, calls>>
     \/ /\ mode # "en" /\ calls' = calls + 1
        /\ \/ Put(Rendered) /\ UNCHANGED moved
           \/ SentBack(Retries) /\ UNCHANGED put
           \/ Exhausted(Retries) /\ Put(Seed)
  /\ UNCHANGED <<context, following, judging, scored, ended>>

\* The Candidate answers, and evaluate takes its snapshot of the counters.
Answer == /\ pc = "ask" /\ Go("judge") /\ calls' = 0 /\ own' = FALSE /\ moved' = {}
          /\ kept' = NoJudgment
          /\ UNCHANGED <<context, put, following, budget, first, split, panels, turns, ended>>

\* EOF, a cancel or a disconnect.
Leave == pc = "ask" /\ Abandon /\ UNCHANGED calls
-----------------------------------------------------------------------------
(* The Evaluator judges (evaluate, _evaluate_once).                        *)

AtCap == turns + 1 >= MaxTurns

\* The micro-loop takes the judgment: it resolves, is capped, or follows up.
Score(j) ==
  /\ kept' = Finalized(j) /\ turns' = turns + 1
  /\ first' = NoJudgment /\ split' = -1 /\ UNCHANGED <<context, put>>
  /\ \/ ~j.follow /\ Finish("resolved") /\ UNCHANGED following
     \/ j.follow /\ AtCap /\ Finish("safety_cap") /\ UNCHANGED following
     \/ /\ j.follow /\ ~AtCap
        /\ Go(IF native THEN "tool" ELSE "plan") /\ tries' = 0 /\ hit' = FALSE /\ fellOver' = FALSE
        /\ UNCHANGED ended

KeepFirst == Score([first EXCEPT !.suppressed = TRUE]) /\ UNCHANGED <<budget, panels>>

\* try_consume, before the committee sits.
Convene(j) == /\ budget > 0 /\ budget' = budget - 1 /\ panels' = panels + 1
              /\ first' = j /\ Go("skeptic")
              /\ UNCHANGED <<context, put, following, split, scored, ended>>

FirstJudged(j) ==
  \/ ~Triggers(j) /\ Score(j) /\ UNCHANGED <<budget, panels>>
  \/ Triggers(j) /\ Convene(j)
  \/ /\ Triggers(j) /\ budget = 0
     /\ Score([j EXCEPT !.suppressed = TRUE]) /\ UNCHANGED <<budget, panels>>

\* The verdict inherits the noise of the first pass.
VerdictOn(j) == [j EXCEPT !.split = split, !.noisy = @ \/ first.noisy]

\* A valid judgment; without the evidence check its unverifiable quotes are blanked.
Judged ==
  /\ pc \in FirstPass \cup Verdict /\ calls' = calls + 1
  /\ \E c \in Stated, diverged, follow, fold \in BOOLEAN,
        blanked \in IF pc \in {"judge", "verdict"} THEN {0} ELSE 0..Dims :
       /\ moved' = IF fold THEN moved \cup {Active(Self)} ELSE moved
       /\ own' = (own \/ fold)
       /\ LET j == CrossChecked([follow |-> follow, conf |-> c, diverged |-> diverged,
                                 blanked |-> blanked, noisy |-> Self \in moved', own |-> own',
                                 split |-> -1, suppressed |-> FALSE])
          IN  \/ pc \in FirstPass /\ FirstJudged(j)
              \/ pc \in Verdict /\ Score(VerdictOn(j)) /\ UNCHANGED <<budget, panels>>

\* An invalid judgment: only a quote that stays unverifiable earns the lenient pass.
Misjudged ==
  /\ pc \in FirstPass \cup Verdict /\ calls' = calls + 1 /\ own' = TRUE
  /\ \/ /\ SentBack(JudgeRetries)
        /\ UNCHANGED <<context, put, following, budget, first, split, panels, scored, ended>>
     \/ /\ Exhausted(JudgeRetries) /\ pc \in {"judge", "verdict"}
        /\ Go(IF pc = "judge" THEN "judge_degraded" ELSE "verdict_degraded")
        /\ UNCHANGED <<context, put, following, budget, first, split, panels, scored, ended>>
     \/ /\ Exhausted(JudgeRetries) /\ pc \in FirstPass /\ Fail("structured")
        /\ UNCHANGED <<context, put, following, budget, first, split, panels, scored>>
     \/ Exhausted(JudgeRetries) /\ pc \in Verdict /\ KeepFirst

\* _panel_opinion, of the skeptic and then of the advocate.
Opine ==
  /\ pc \in Voice /\ calls' = calls + 1 /\ own' = own
  /\ \/ /\ pc = "skeptic" /\ Go("advocate") /\ split' = split /\ UNCHANGED moved
        /\ UNCHANGED <<context, put, following, budget, first, panels, scored, ended>>
     \/ /\ pc = "advocate" /\ Go("verdict") /\ split' \in Split /\ moved' = {}
        /\ UNCHANGED <<context, put, following, budget, first, panels, scored, ended>>
     \/ /\ SentBack(Retries)
        /\ UNCHANGED <<context, put, following, budget, first, split, panels, scored, ended>>
     \/ Exhausted(Retries) /\ KeepFirst
-----------------------------------------------------------------------------
(* The Interviewer follows up (generate_follow_up).                        *)

\* chat_with_tools: no tool call stays loud, a garbled name is tried again from nothing,
\* arguments that are no JSON or no request escape as a ValueError, and a miss is told to
\* the model.
Tool ==
  /\ pc = "tool" /\ calls' = calls + 1
  /\ \/ \E kind \in {"unsupported", "malformed"} : Fail(kind) /\ UNCHANGED <<following, scored>>
     \/ /\ tries + 1 < ToolAttempts /\ tries' = tries + 1 /\ hit' = FALSE /\ fellOver' = FALSE
        /\ UNCHANGED <<pc, attempt, scored, ended>>
     \/ tries + 1 >= ToolAttempts /\ Unavailable /\ UNCHANGED following
     \/ hit' \in {hit, TRUE} /\ Go("compose") /\ UNCHANGED <<tries, fellOver, scored, ended>>
  /\ UNCHANGED <<context, put, judging, moved>>

\* The primary fails anywhere in the round-trip: LLMRouter.chat_with_tools runs it whole on
\* a fallback that does tool calls. What the lookup found before is kept.
FailOver == /\ native /\ pc \in {"tool", "compose"} /\ ~fellOver
            /\ fellOver' = TRUE /\ Go("tool") /\ calls' = calls + 1
            /\ UNCHANGED <<context, put, hit, tries, judging, scored, moved, ended>>

\* The lookup planned as JSON, for a client without tool calls.
Plan ==
  /\ pc = "plan" /\ calls' = calls + 1
  /\ \/ hit' = TRUE /\ Go("compose") /\ UNCHANGED <<tries, fellOver, scored, ended, moved>>
     \/ Unavailable /\ UNCHANGED <<following, moved>>
     \/ SentBack(Retries) /\ UNCHANGED <<following, scored, ended>>
     \/ Exhausted(Retries) /\ Unavailable /\ UNCHANGED following
  /\ UNCHANGED <<context, put, judging>>

ReaskOfSeed(text) == text = Seed

\* reject_reask: the bank's question, and the follow-ups asked so far.
Reask(text) == text = Seed \/ text \in Range(Tail(put))

\* The follow-up is written; without a note it is dropped after the round-trip.
Compose ==
  /\ pc = "compose" /\ calls' = calls + 1
  /\ \/ \E text \in Text :
          /\ hit /\ ~Reask(text) /\ Put(text) /\ UNCHANGED <<moved, scored, ended>>
     \/ ~hit /\ Unavailable /\ UNCHANGED <<put, moved>>
     \/ SentBack(Retries) /\ UNCHANGED <<put, scored, ended>>
     \/ Exhausted(Retries) /\ Unavailable /\ UNCHANGED put
  /\ UNCHANGED <<context, following, judging>>
-----------------------------------------------------------------------------
(* Calls that raise.                                                       *)

Calling == pc \notin {"ask", "done"} /\ ~(pc = "render" /\ mode = "en")

\* The exceptions evaluate forgives a committee.
Forgiven(kind) == kind = "api"

\* "api" is openai.APIError; "defect" is any other exception that no driver stops on.
Raise == /\ Calling /\ calls' = calls + 1 /\ UNCHANGED <<moved, own>>
         /\ \E kind \in {"api", "defect"} :
              \/ pc \in Committee /\ Forgiven(kind) /\ KeepFirst
              \/ /\ ~(pc \in Committee /\ Forgiven(kind)) /\ Fail(kind)
                 /\ UNCHANGED <<context, put, following, budget, first, split, panels, scored>>

\* AccountingUnavailable and ProviderQuotaExhausted.
OperatorStops == Calling /\ Abandon /\ UNCHANGED calls

Reply == \/ Render \/ Judged \/ Misjudged \/ Opine
         \/ Tool \/ FailOver \/ Plan \/ Compose \/ Raise

Next == Reply \/ Answer \/ Leave \/ Neighbour \/ OperatorStops

Spec == Init /\ [][Next]_vars
-----------------------------------------------------------------------------
(* Properties.                                                             *)

\* No follow-up repeats the bank's question or an earlier follow-up of the exchange.
NeverAsksTwice == \A i \in 2..Len(put) : put[i] # Seed /\ \A k \in 2..(i - 1) : put[k] # put[i]

\* No follow-up repeats a question put before it, as it was put. A re-voiced seed may be.
AskedOnce == IsInjective(put)

\* A kept judgment is marked noisy exactly if the replies it rests on were: not by another
\* Session's noise, not by a committee voice's, and not cleared by the verdict.
NoiseIsExact == kept.noisy = kept.own

\* A question that was not scored moves the belief by nothing, and what the guards found
\* wrong with a judgment bounds the weight of one that was, whether the committee agreed
\* or not.
GuardsBindTheWeight ==
  /\ outcome \notin Scored => belief = 0
  /\ kept.diverged => belief <= ConfidenceWeight(40)
  /\ kept.noisy => belief <= ConfidenceWeight(85)
  /\ belief <= ConfidenceWeight(100 - (60 * kept.blanked) \div Dims)

\* Between two answers the calls stay within the retry limits of each stage; of a tool
\* round-trip within those of two providers (llm.py:901-937), where a garbled name ends it.
TurnCost == calls <= 2 * (JudgeRetries + 1)
                     + (IF panels > 0 THEN 2 * (Retries + 1) + 2 * (JudgeRetries + 1) ELSE 0)
                     + (IF native THEN ToolAttempts * (Retries + 3) ELSE Retries + 1) + Retries + 1

\* A question whose answer was scored is not failed by a malformed tool call
\* (microloop.py:125-127).
ScoredTurnKept == outcome = "failed" /\ turns > 0 /\ error.at = "tool" => error.kind # "malformed"

=============================================================================
