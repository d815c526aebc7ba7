-------------------------- MODULE MicroLoop_proofs --------------------------
(***************************************************************************)
(* Proofs about MicroLoop, for any retry limits, number of turns, budget   *)
(* and scales: the types, that no follow-up repeats a question and that in *)
(* English no question is put twice, that the noise of a kept judgment is  *)
(* its own, that what the guards found wrong with it bounds the weight it  *)
(* enters the belief with, and what a turn costs in provider calls.        *)
(***************************************************************************)
EXTENDS MicroLoop, TLAPS

Penalty(n) == (60 * n) \div Dims

\* A judgment whose noise is its own, lowered if it was cross-checked.
Sound(j) == /\ j \in Judgment /\ (j.noisy <=> j.own)
            /\ j.diverged => j.conf <= 40

\* A judgment the guards have lowered.
Guarded(j) == /\ Sound(j)
              /\ j.noisy => j.conf <= 85
              /\ j.conf <= 100 - Penalty(j.blanked)

\* What has been asked and what was scored, at each stage.
Counted == /\ pc = "render" => turns = 0 /\ put = <<>>
           /\ pc \in {"ask"} \cup FirstPass \cup Committee => Len(put) = turns + 1 /\ turns < MaxTurns
           /\ pc \in FollowUp => Len(put) = turns /\ 0 < turns /\ turns < MaxTurns

\* Where the noise of the judgment under way is remembered.
NoiseTracked == /\ pc \in FirstPass => (own <=> Self \in moved)
                /\ pc \in Voice => (own <=> first.own)
                /\ pc \in Verdict => (own <=> first.noisy \/ Self \in moved)

\* The belief moves when the question ends, by no more than its last judgment is worth.
MovedAtTheEnd == /\ pc # "done" => outcome = "open" /\ belief = 0
                 /\ outcome \notin Scored => belief = 0
                 /\ belief = 0 \/ belief <= ConfidenceWeight(kept.conf)

LoopInv == /\ TypeOK /\ Counted /\ NeverAsksTwice /\ NoiseTracked /\ MovedAtTheEnd
           /\ Sound(first) /\ Guarded(kept)

-----------------------------------------------------------------------------
(* What a judgment is worth.                                               *)

\* Blanked citations cost at most 60 percent.
LEMMA PenaltyBound ==
  ASSUME NEW n \in 0..Dims
  PROVE  Penalty(n) \in 0..60
<1> DEFINE q == Penalty(n)
<1>1. q \in Int /\ q * Dims <= 60 * n /\ 60 * n < q * Dims + Dims
  BY LimitsAssumption, Z3 DEF Penalty
<1>2. q < 61
  <2> SUFFICES ASSUME q >= 61 PROVE FALSE
    BY <1>1
  <2>1. q * Dims >= 61 * Dims
    BY <1>1, LimitsAssumption
  <2> QED BY <2>1, <1>1, LimitsAssumption
<1>3. q >= 0
  <2> SUFFICES ASSUME q <= -1 PROVE FALSE
    BY <1>1
  <2>1. q * Dims <= (-1) * Dims
    BY <1>1, LimitsAssumption
  <2> QED BY <2>1, <1>1, LimitsAssumption
<1> QED BY <1>1, <1>2, <1>3

LEMMA NoJudgmentGuarded == Guarded(NoJudgment)
<1>1. Penalty(0) \in 0..60
  BY PenaltyBound, LimitsAssumption
<1> QED BY <1>1, LimitsAssumption DEF Guarded, Sound, NoJudgment, Judgment

LEMMA CrossCheckedSound ==
  ASSUME NEW j \in Judgment, j.noisy <=> j.own
  PROVE  Sound(CrossChecked(j))
  BY DEF CrossChecked, Sound, Judgment, Least

LEMMA FinalizedGuarded ==
  ASSUME NEW j, Sound(j)
  PROVE  Guarded(Finalized(j))
<1> DEFINE p == Penalty(j.blanked)
<1>1. j \in Judgment /\ j.blanked \in 0..Dims
  BY DEF Sound, Judgment
<1>2. p \in 0..60
  BY <1>1, PenaltyBound
<1> DEFINE graded == Least(j.conf, 100 - p)
<1>3. graded \in 0..100 /\ graded <= j.conf /\ graded <= 100 - p
  BY <1>1, <1>2 DEF Least, Judgment
<1> DEFINE c == IF j.noisy THEN Least(graded, 85) ELSE graded
<1>4. Finalized(j) = [j EXCEPT !.conf = c]
  BY DEF Finalized, Penalty
<1>5. c \in 0..100 /\ c <= graded /\ (j.noisy => c <= 85)
  <2>1. Least(graded, 85) \in 0..85 /\ Least(graded, 85) <= graded
    BY <1>3 DEF Least
  <2> HIDE DEF graded
  <2> QED BY <1>3, <2>1
<1> HIDE DEF graded, p, c
<1>6. Finalized(j).conf = c
  BY <1>1, <1>4 DEF Judgment
<1>7. c <= j.conf /\ c <= 100 - p
  BY <1>1, <1>2, <1>3, <1>5 DEF Judgment
<1>8. Finalized(j) \in Judgment
  BY <1>1, <1>4, <1>5 DEF Judgment
<1>9. /\ Finalized(j).noisy = j.noisy /\ Finalized(j).own = j.own
      /\ Finalized(j).diverged = j.diverged /\ Finalized(j).blanked = j.blanked
  BY <1>1, <1>4 DEF Judgment
<1>10. Sound(Finalized(j))
  BY <1>1, <1>5, <1>6, <1>7, <1>8, <1>9 DEF Sound, Judgment
<1> QED BY <1>5, <1>6, <1>7, <1>9, <1>10 DEF Guarded, p

LEMMA WeightBound ==
  ASSUME NEW j \in Judgment
  PROVE  Weight(j) \in Nat /\ Weight(j) <= ConfidenceWeight(j.conf)
<1>1. ConfidenceWeight(j.conf) \in Nat
  BY DEF Judgment, ConfidenceWeight
<1>2. CASE j.split >= 0
  <2>1. j.split \in Split
    BY <1>2 DEF Judgment
  <2>2. \A d \in Split : AgreementWeight(d) \in Nat
    BY ScaleAssumption DEF AgreementWeight
  <2> QED BY <1>1, <1>2, <2>1, <2>2 DEF Weight, Least
<1>3. CASE ~(j.split >= 0)
  BY <1>1, <1>3 DEF Weight
<1> QED BY <1>2, <1>3
-----------------------------------------------------------------------------
(* Steps.                                                                  *)

LEMMA InitLoopInv == Init => LoopInv
<1> SUFFICES ASSUME Init PROVE LoopInv
  OBVIOUS
<1>1. Guarded(NoJudgment) /\ Sound(NoJudgment) /\ NoJudgment \in Judgment
  BY NoJudgmentGuarded DEF Guarded, Sound
<1>2. put \in Seq(Text) /\ Len(put) = 0
  BY DEF Init
<1>3. first = NoJudgment /\ kept = NoJudgment
  BY DEF Init
<1>4. TypeOK
  <2>1. hit \in BOOLEAN /\ own \in BOOLEAN /\ native \in BOOLEAN
    BY Zenon DEF Init
  <2>2. /\ attempt \in 0..(JudgeRetries + Retries) /\ tries \in 0..ToolAttempts
        /\ Len(put) <= MaxTurns /\ budget \in 0..Escalations /\ turns \in 0..MaxTurns
    BY <1>2, LimitsAssumption DEF Init
  <2> QED BY <1>1, <1>2, <1>3, <2>1, <2>2 DEF Init, TypeOK, Stage
<1>5. Counted /\ NeverAsksTwice /\ NoiseTracked
  BY <1>2 DEF Init, Counted, NeverAsksTwice, NoiseTracked,
     FirstPass, Committee, Voice, Verdict, FollowUp
<1>6. MovedAtTheEnd
  BY DEF Init, MovedAtTheEnd
<1> QED BY <1>1, <1>3, <1>4, <1>5, <1>6 DEF LoopInv

\* The end of a question keeps what it was worth.
LEMMA FinishKeeps ==
  ASSUME LoopInv, pc # "done", NEW reason \in Scored, Finish(reason),
         Guarded(kept')
  PROVE  /\ pc' = "done" /\ attempt' = 0 /\ outcome' = reason
         /\ belief' \in Nat /\ MovedAtTheEnd'
<1>1. kept' \in Judgment /\ belief = 0
  BY DEF Guarded, Sound, LoopInv, MovedAtTheEnd
<1>2. Weight(kept') \in Nat /\ Weight(kept') <= ConfidenceWeight(kept'.conf)
  BY <1>1, WeightBound
<1>3. belief' = Weight(kept')
  BY <1>1, <1>2 DEF Finish
<1> QED BY <1>2, <1>3 DEF Finish, Go, MovedAtTheEnd

\* A question that fails, or is abandoned, is worth nothing.
LEMMA FailKeeps ==
  ASSUME LoopInv, pc # "done", NEW kind, Fail(kind)
  PROVE  /\ pc' = "done" /\ attempt' = 0 /\ outcome' = "failed"
         /\ belief' \in Nat /\ MovedAtTheEnd'
  BY DEF Fail, Go, LoopInv, MovedAtTheEnd, Scored

\* The stages that judge.
Judging == FirstPass \cup Committee

\* Taking a sound judgment keeps the invariant.
LEMMA ScoreKeeps ==
  ASSUME LoopInv, pc \in Judging, NEW j, Sound(j), Score(j),
         UNCHANGED <<budget, panels>>, calls' \in Nat, own' \in BOOLEAN,
         moved' \in SUBSET Session
  PROVE  LoopInv'
<1>1. Guarded(kept') /\ kept' \in Judgment
  BY FinalizedGuarded DEF Score, Guarded, Sound
<1>2. Sound(first') /\ first' \in Judgment
  BY NoJudgmentGuarded DEF Score, Guarded, Sound
<1>3. turns \in 0..MaxTurns /\ turns < MaxTurns /\ Len(put) = turns + 1 /\ turns' = turns + 1
  BY DEF LoopInv, Counted, TypeOK, Score, Judging
<1>4. turns' \in 0..MaxTurns /\ 0 < turns'
  BY <1>3, LimitsAssumption
<1>5. UNCHANGED <<mode, native, put, budget, panels>> /\ split' = -1
  BY DEF Score, context
<1>6. NeverAsksTwice'
  BY <1>5 DEF LoopInv, NeverAsksTwice
<1>7. pc # "done"
  BY DEF Judging, FirstPass, Committee, Voice, Verdict
<1>8. ASSUME NEW reason \in Scored, Finish(reason), UNCHANGED following PROVE LoopInv'
  <2>1. pc' = "done" /\ attempt' = 0 /\ outcome' = reason /\ belief' \in Nat /\ MovedAtTheEnd'
    BY <1>1, <1>7, <1>8, FinishKeeps
  <2>2. TypeOK'
    BY <1>1, <1>2, <1>4, <1>5, <1>8, <2>1, LimitsAssumption DEF LoopInv, TypeOK, following, Stage
  <2>3. Counted' /\ NoiseTracked'
    BY <2>1 DEF Counted, NoiseTracked, FirstPass, Committee, Voice, Verdict, FollowUp
  <2> QED BY <1>1, <1>2, <1>6, <2>1, <2>2, <2>3 DEF LoopInv
<1>9. ASSUME ~AtCap, Go(IF native THEN "tool" ELSE "plan"), tries' = 0, hit' = FALSE, fellOver' = FALSE,
             UNCHANGED ended
      PROVE  LoopInv'
  <2>1. pc' \in {"tool", "plan"} /\ attempt' = 0
    BY <1>9 DEF Go
  <2>2. turns' < MaxTurns
    BY <1>3, <1>9, LimitsAssumption DEF AtCap
  <2>3. TypeOK'
    <3>1. pc' \in Stage
      BY <2>1 DEF Stage, FollowUp
    <3>2. attempt' \in 0..(JudgeRetries + Retries)
      BY <2>1, LimitsAssumption
    <3>3. tries' \in 0..ToolAttempts
      BY <1>9, LimitsAssumption
    <3>5. hit' \in BOOLEAN /\ fellOver' \in BOOLEAN
      BY <1>9, Zenon
    <3>4. UNCHANGED <<outcome, belief>>
      BY <1>9 DEF ended
    <3> QED BY <1>1, <1>2, <1>4, <1>5, <3>1, <3>2, <3>3, <3>4, <3>5 DEF LoopInv, TypeOK
  <2>4. Counted'
    BY <1>3, <1>4, <1>5, <2>1, <2>2
    DEF Counted, FirstPass, Committee, Voice, Verdict, FollowUp
  <2>5. NoiseTracked'
    BY <2>1 DEF NoiseTracked, FirstPass, Voice, Verdict
  <2>6. MovedAtTheEnd'
    BY <1>7, <1>9 DEF LoopInv, MovedAtTheEnd, ended
  <2> QED BY <1>1, <1>2, <1>6, <2>3, <2>4, <2>5, <2>6 DEF LoopInv
<1> QED BY <1>8, <1>9 DEF Score, Scored

\* The first pass stands.
LEMMA KeepFirstKeeps ==
  ASSUME LoopInv, pc \in Judging, KeepFirst, calls' \in Nat, own' \in BOOLEAN,
         moved' \in SUBSET Session
  PROVE  LoopInv'
<1> DEFINE j == [first EXCEPT !.suppressed = TRUE]
<1>1. Sound(j)
  BY DEF LoopInv, Sound, Judgment
<1> HIDE DEF j
<1> QED BY <1>1, ScoreKeeps DEF KeepFirst, j

\* A question that fails, is abandoned or gets no follow-up keeps the rest as it was.
LEMMA EndKeeps ==
  ASSUME LoopInv, pc # "done", pc' = "done", attempt' = 0, MovedAtTheEnd', belief' \in Nat,
         outcome' \in Scored \cup {"failed", "abandoned"},
         UNCHANGED <<context, put, following, budget, first, split, panels, scored>>,
         own' \in BOOLEAN, moved' \in SUBSET Session, calls' \in Nat
  PROVE  LoopInv'
<1>1. TypeOK'
  BY LimitsAssumption DEF LoopInv, TypeOK, context, following, scored, Stage
<1>2. Counted' /\ NoiseTracked'
  BY DEF Counted, NoiseTracked, FirstPass, Committee, Voice, Verdict, FollowUp
<1>3. NeverAsksTwice'
  BY DEF LoopInv, NeverAsksTwice
<1>4. Sound(first') /\ Guarded(kept')
  BY DEF LoopInv, scored
<1> QED BY <1>1, <1>2, <1>3, <1>4 DEF LoopInv

LEMMA FailedKeeps ==
  ASSUME LoopInv, pc # "done", NEW kind, Fail(kind),
         UNCHANGED <<context, put, following, budget, first, split, panels, scored>>,
         own' \in BOOLEAN, moved' \in SUBSET Session, calls' \in Nat
  PROVE  LoopInv'
  BY FailKeeps, EndKeeps

LEMMA UnavailableKeeps ==
  ASSUME LoopInv, pc # "done", Unavailable, UNCHANGED <<context, put, following, judging>>,
         moved' \in SUBSET Session, calls' \in Nat
  PROVE  LoopInv'
<1>1. Guarded(kept')
  BY DEF Unavailable, scored, LoopInv
<1>2. Finish("follow_up_unavailable") /\ "follow_up_unavailable" \in Scored
  BY DEF Unavailable, Scored
<1>3. /\ pc' = "done" /\ attempt' = 0 /\ outcome' = "follow_up_unavailable"
      /\ belief' \in Nat /\ MovedAtTheEnd'
  BY <1>1, <1>2, FinishKeeps
<1>4. own' \in BOOLEAN
  BY Zenon DEF judging, LoopInv, TypeOK
<1> QED BY <1>2, <1>3, <1>4, EndKeeps DEF Unavailable, judging

LEMMA AbandonKeeps ==
  ASSUME LoopInv, pc # "done", Abandon, calls' \in Nat
  PROVE  LoopInv'
<1>1. belief' \in Nat /\ own' \in BOOLEAN /\ moved' \in SUBSET Session
  BY DEF Abandon, judging, LoopInv, TypeOK
<1>2. MovedAtTheEnd'
  BY DEF Abandon, Go, LoopInv, MovedAtTheEnd, Scored
<1> QED BY <1>1, <1>2, EndKeeps DEF Abandon, Go, judging

\* A reply that is sent back leaves all but the attempts and the noise counters.
LEMMA SentBackKeeps ==
  ASSUME LoopInv, pc # "done", NEW limit \in {JudgeRetries, Retries}, SentBack(limit),
         UNCHANGED <<context, put, following, budget, first, split, panels, scored, ended>>,
         own' \in BOOLEAN, calls' \in Nat, NoiseTracked'
  PROVE  LoopInv'
<1>1. attempt' \in 0..(JudgeRetries + Retries) /\ pc' = pc
  BY LimitsAssumption DEF SentBack, LoopInv, TypeOK
<1>2. moved' \in SUBSET Session
  BY SelfAssumption DEF SentBack, Incr, Active, LoopInv, TypeOK
<1>3. TypeOK'
  BY <1>1, <1>2 DEF LoopInv, TypeOK, context, following, scored, ended
<1>4. Counted'
  BY <1>1 DEF LoopInv, Counted, scored
<1>5. NeverAsksTwice'
  BY DEF LoopInv, NeverAsksTwice
<1>6. MovedAtTheEnd'
  BY <1>1 DEF LoopInv, MovedAtTheEnd, ended, scored
<1>7. Sound(first') /\ Guarded(kept')
  BY DEF LoopInv, scored
<1> QED BY <1>3, <1>4, <1>5, <1>6, <1>7 DEF LoopInv

\* A question put to the Candidate that repeats no follow-up, and not the bank's question.
LEMMA PutKeeps ==
  ASSUME LoopInv, pc \in {"render", "compose"}, NEW q \in Text, Put(q),
         pc = "compose" => ~Reask(q),
         UNCHANGED <<context, following, judging, scored, ended>>,
         moved' \in SUBSET Session, calls' \in Nat
  PROVE  LoopInv'
<1>1. put \in Seq(Text) /\ put' = Append(put, q) /\ pc' = "ask" /\ attempt' = 0
  BY DEF Put, Go, LoopInv, TypeOK
<1>2. Len(put') = turns + 1 /\ turns < MaxTurns /\ Len(put) = turns /\ turns \in Nat
  BY <1>1, LimitsAssumption DEF LoopInv, TypeOK, Counted, FollowUp
<1>3. turns' = turns
  BY DEF scored
<1>4. put' \in Seq(Text) /\ Len(put') <= MaxTurns
  BY <1>1, <1>2, LimitsAssumption
<1>5. TypeOK'
  BY <1>1, <1>4, LimitsAssumption
  DEF LoopInv, TypeOK, context, following, judging, scored, ended, Stage
<1>6. Counted'
  BY <1>1, <1>2, <1>3 DEF Counted, FollowUp
<1>7. NeverAsksTwice'
  <2> SUFFICES ASSUME NEW i \in 2..Len(put')
               PROVE  put'[i] # Seed /\ \A k \in 2..(i - 1) : put'[k] # put'[i]
    BY DEF NeverAsksTwice
  <2>1. CASE i <= Len(put)
    BY <1>1, <1>2, <2>1 DEF LoopInv, NeverAsksTwice
  <2>2. CASE i = Len(put) + 1
    <3>1. pc = "compose"
      BY <2>2 DEF LoopInv, Counted
    <3>2. q # Seed /\ q \notin Range(Tail(put))
      BY <3>1 DEF Reask
    <3>3. ASSUME NEW k \in 2..Len(put) PROVE put[k] \in Range(Tail(put))
      <4>1. k - 1 \in 1..(Len(put) - 1) /\ put # <<>>
        BY <1>1, <1>2
      <4>2. k - 1 \in DOMAIN Tail(put) /\ Tail(put)[k - 1] = put[k]
        BY <1>1, <1>2, <4>1
      <4> QED BY <4>2 DEF Range
    <3> QED BY <1>1, <1>2, <2>2, <3>2, <3>3
  <2> QED BY <1>1, <1>2, <2>1, <2>2
<1>8. NoiseTracked'
  BY <1>1 DEF NoiseTracked, FirstPass, Voice, Verdict
<1>9. MovedAtTheEnd'
  BY DEF LoopInv, MovedAtTheEnd, ended, scored
<1>10. Sound(first') /\ Guarded(kept')
  BY DEF LoopInv, judging, scored
<1> QED BY <1>5, <1>6, <1>7, <1>8, <1>9, <1>10 DEF LoopInv
-----------------------------------------------------------------------------
(* The actions.                                                            *)

LEMMA RenderKeeps == LoopInv /\ Render => LoopInv'
<1> SUFFICES ASSUME LoopInv, Render PROVE LoopInv'
  OBVIOUS
<1>1. Seed \in Text /\ Rendered \in Text /\ Retries \in {JudgeRetries, Retries}
  BY TextAssumption
<1>2. pc = "render" /\ pc \in {"render", "compose"} /\ pc # "done" /\ pc # "compose"
  BY DEF Render
<1>3. moved \in SUBSET Session /\ calls \in Nat /\ own \in BOOLEAN
  BY DEF LoopInv, TypeOK
<1>4. UNCHANGED <<context, following, judging, scored, ended>>
  BY DEF Render
<1>5. CASE mode = "en" /\ Put(Seed) /\ UNCHANGED <<moved, calls>>
  BY <1>1, <1>2, <1>3, <1>4, <1>5, PutKeeps
<1>6. CASE calls' = calls + 1 /\ Put(Rendered) /\ UNCHANGED moved
  BY <1>1, <1>2, <1>3, <1>4, <1>6, PutKeeps
<1>7. CASE calls' = calls + 1 /\ SentBack(Retries) /\ UNCHANGED put
  <2>1. pc' = "render" /\ own' = own /\ UNCHANGED <<budget, first, split, panels>>
    BY <1>2, <1>4, <1>7 DEF SentBack, judging
  <2>2. NoiseTracked'
    BY <2>1 DEF NoiseTracked, FirstPass, Voice, Verdict
  <2> QED BY <1>1, <1>2, <1>3, <1>4, <1>7, <2>1, <2>2, SentBackKeeps
<1>8. CASE calls' = calls + 1 /\ Exhausted(Retries) /\ Put(Seed)
  <2>1. moved' \in SUBSET Session
    BY <1>3, <1>8, SelfAssumption DEF Exhausted, Incr, Active
  <2> QED BY <1>1, <1>2, <1>3, <1>4, <1>8, <2>1, PutKeeps
<1> QED BY <1>5, <1>6, <1>7, <1>8 DEF Render

LEMMA AnswerKeeps == LoopInv /\ Answer => LoopInv'
<1> SUFFICES ASSUME LoopInv, Answer PROVE LoopInv'
  OBVIOUS
<1>1. pc = "ask" /\ pc' = "judge" /\ attempt' = 0 /\ moved' = {} /\ kept' = NoJudgment
      /\ calls' = 0 /\ UNCHANGED <<context, put, following, budget, first, split, panels, turns, ended>>
  BY DEF Answer, Go
<1>2. own' \in BOOLEAN /\ ~own'
  BY Zenon DEF Answer
<1>3. Guarded(kept') /\ kept' \in Judgment
  BY <1>1, NoJudgmentGuarded DEF Guarded, Sound
<1>4. TypeOK'
  BY <1>1, <1>2, <1>3, LimitsAssumption DEF LoopInv, TypeOK, context, following, ended, Stage, FirstPass
<1>5. Counted'
  BY <1>1 DEF LoopInv, Counted, FirstPass, Committee, Voice, Verdict, FollowUp
<1>6. NoiseTracked'
  BY <1>1, <1>2 DEF NoiseTracked, FirstPass, Voice, Verdict
<1>7. NeverAsksTwice' /\ MovedAtTheEnd'
  BY <1>1 DEF LoopInv, NeverAsksTwice, MovedAtTheEnd, ended
<1> QED BY <1>1, <1>3, <1>4, <1>5, <1>6, <1>7 DEF LoopInv

LEMMA LeaveKeeps == LoopInv /\ (Leave \/ OperatorStops) => LoopInv'
<1>1. LoopInv => calls \in Nat
  BY DEF LoopInv, TypeOK
<1> QED BY <1>1, AbandonKeeps DEF Leave, OperatorStops, Calling

LEMMA NeighbourKeeps == LoopInv /\ Neighbour => LoopInv'
<1> SUFFICES ASSUME LoopInv, NEW s \in Session \ {Self}, Incr(s),
                    UNCHANGED <<context, pc, attempt, put, following, judging, scored, calls, ended>>
             PROVE  LoopInv'
  BY DEF Neighbour
<1>1. moved' \in SUBSET Session /\ (Self \in moved' <=> Self \in moved)
  BY DEF Incr, Active, LoopInv, TypeOK
<1>2. TypeOK'
  BY <1>1 DEF LoopInv, TypeOK, context, following, judging, scored, ended
<1>3. Counted' /\ NeverAsksTwice' /\ MovedAtTheEnd'
  BY DEF LoopInv, Counted, NeverAsksTwice, MovedAtTheEnd, judging, scored, ended
<1>4. NoiseTracked'
  BY <1>1 DEF LoopInv, NoiseTracked, judging
<1> QED BY <1>2, <1>3, <1>4 DEF LoopInv, judging, scored

LEMMA RaiseKeeps == LoopInv /\ Raise => LoopInv'
<1> SUFFICES ASSUME LoopInv, Raise PROVE LoopInv'
  OBVIOUS
<1>1. calls' \in Nat /\ moved' \in SUBSET Session /\ pc # "done"
  BY DEF Raise, Calling, LoopInv, TypeOK
<1>2. own' \in BOOLEAN
  BY Zenon DEF Raise, LoopInv, TypeOK
<1>3. CASE pc \in Committee /\ KeepFirst
  BY <1>1, <1>2, <1>3, KeepFirstKeeps DEF Judging
<1>4. ASSUME NEW kind, Fail(kind),
             UNCHANGED <<context, put, following, budget, first, split, panels, scored>>
      PROVE  LoopInv'
  BY <1>1, <1>2, <1>4, FailedKeeps
<1> QED BY <1>3, <1>4 DEF Raise

\* The committee is convened on a sound first pass.
LEMMA ConveneKeeps ==
  ASSUME LoopInv, pc \in FirstPass, NEW j, Sound(j), Convene(j),
         own' \in BOOLEAN, own' <=> j.own, moved' \in SUBSET Session, calls' \in Nat
  PROVE  LoopInv'
<1>1. /\ pc' = "skeptic" /\ attempt' = 0 /\ first' = j /\ j \in Judgment
      /\ UNCHANGED <<context, put, following, split, scored, ended>>
  BY DEF Convene, Go, Sound
<1>2. budget' \in 0..Escalations /\ panels' \in Nat
  BY LimitsAssumption DEF Convene, LoopInv, TypeOK
<1>3. TypeOK'
  BY <1>1, <1>2, LimitsAssumption
  DEF LoopInv, TypeOK, context, following, scored, ended, Stage, Committee, Voice
<1>4. Counted'
  BY <1>1 DEF LoopInv, Counted, scored, FirstPass, Committee, Voice, Verdict, FollowUp
<1>5. NoiseTracked'
  BY <1>1 DEF NoiseTracked, FirstPass, Voice, Verdict
<1>6. NeverAsksTwice' /\ MovedAtTheEnd'
  BY <1>1 DEF LoopInv, NeverAsksTwice, MovedAtTheEnd, scored, ended, FirstPass
<1> QED BY <1>1, <1>3, <1>4, <1>5, <1>6 DEF LoopInv, scored

LEMMA JudgedKeeps == LoopInv /\ Judged => LoopInv'
<1> SUFFICES ASSUME LoopInv, Judged PROVE LoopInv'
  OBVIOUS
<1>1. PICK c \in Stated, diverged \in BOOLEAN, follow \in BOOLEAN, fold \in BOOLEAN,
           blanked \in IF pc \in {"judge", "verdict"} THEN {0} ELSE 0..Dims :
        /\ moved' = IF fold THEN moved \cup {Active(Self)} ELSE moved
        /\ own' = (own \/ fold)
        /\ LET j == CrossChecked([follow |-> follow, conf |-> c, diverged |-> diverged,
                                  blanked |-> blanked, noisy |-> Self \in moved', own |-> own',
                                  split |-> -1, suppressed |-> FALSE])
           IN  \/ pc \in FirstPass /\ FirstJudged(j)
               \/ pc \in Verdict /\ Score(VerdictOn(j)) /\ UNCHANGED <<budget, panels>>
  BY DEF Judged
<1> DEFINE r == [follow |-> follow, conf |-> c, diverged |-> diverged,
                 blanked |-> blanked, noisy |-> Self \in moved', own |-> own',
                 split |-> -1, suppressed |-> FALSE]
           j == CrossChecked(r)
<1>2. own' \in BOOLEAN /\ (own' <=> own \/ fold)
  BY <1>1, Zenon
<1>3. moved' \in SUBSET Session /\ (Self \in moved' <=> Self \in moved \/ fold)
  BY <1>1, SelfAssumption DEF Active, LoopInv, TypeOK
<1>4. calls' \in Nat
  BY DEF Judged, LoopInv, TypeOK
<1>5. r \in Judgment
  <2>1. (Self \in moved') \in BOOLEAN
    OBVIOUS
  <2>2. c \in 0..100
    BY ScaleAssumption
  <2>3. blanked \in 0..Dims
    BY LimitsAssumption
  <2> QED BY <1>2, <2>1, <2>2, <2>3 DEF Judgment
<1>6. CASE pc \in FirstPass /\ FirstJudged(j)
  <2>1. r.noisy <=> r.own
    BY <1>2, <1>3, <1>6 DEF LoopInv, NoiseTracked
  <2>2. Sound(j)
    BY <1>5, <2>1, CrossCheckedSound
  <2>3. j.own <=> own'
    BY <1>5 DEF CrossChecked, Judgment
  <2> HIDE DEF j
  <2>4. Sound([j EXCEPT !.suppressed = TRUE])
    BY <2>2 DEF Sound, Judgment
  <2>5. CASE Score(j) /\ UNCHANGED <<budget, panels>>
    BY <1>2, <1>3, <1>4, <1>6, <2>2, <2>5, ScoreKeeps DEF Judging
  <2>6. CASE Convene(j)
    BY <1>2, <1>3, <1>4, <1>6, <2>2, <2>3, <2>6, ConveneKeeps
  <2>7. CASE Score([j EXCEPT !.suppressed = TRUE]) /\ UNCHANGED <<budget, panels>>
    BY <1>2, <1>3, <1>4, <1>6, <2>4, <2>7, ScoreKeeps DEF Judging
  <2> QED BY <1>6, <2>5, <2>6, <2>7 DEF FirstJudged
<1>7. CASE pc \in Verdict /\ Score(VerdictOn(j)) /\ UNCHANGED <<budget, panels>>
  <2>1. /\ j \in Judgment /\ (j.diverged => j.conf <= 40)
        /\ (j.noisy <=> Self \in moved') /\ (j.own <=> own')
    <3>1. r.noisy = (Self \in moved') /\ r.own = own'
      OBVIOUS
    <3> HIDE DEF r
    <3>2. j \in Judgment /\ (j.diverged => j.conf <= 40)
      BY <1>5 DEF CrossChecked, Judgment, Least
    <3>3. (j.noisy <=> r.noisy) /\ (j.own <=> r.own)
      BY <1>5 DEF CrossChecked, Judgment
    <3> HIDE DEF j
    <3> QED BY <3>1, <3>2, <3>3
  <2>2. split \in Split \cup {-1} /\ first \in Judgment /\ first.noisy \in BOOLEAN
    BY DEF LoopInv, TypeOK, Judgment
  <2> HIDE DEF j
  <2> DEFINE v == VerdictOn(j)
  <2>3. v = [j EXCEPT !.split = split, !.noisy = j.noisy \/ first.noisy]
    BY DEF VerdictOn
  <2>4. (j.noisy \/ first.noisy) \in BOOLEAN
    OBVIOUS
  <2>5. v \in Judgment
    BY <2>1, <2>2, <2>3, <2>4 DEF Judgment
  <2>6. v.conf = j.conf /\ v.diverged = j.diverged /\ v.own = j.own
    BY <2>1, <2>3 DEF Judgment
  <2>7. v.noisy <=> j.noisy \/ first.noisy
    BY <2>1, <2>3 DEF Judgment
  <2>8. v.noisy <=> v.own
    BY <1>2, <1>3, <1>7, <2>1, <2>6, <2>7 DEF LoopInv, NoiseTracked
  <2>9. Sound(v)
    BY <2>1, <2>5, <2>6, <2>8 DEF Sound
  <2> HIDE DEF v
  <2> QED BY <1>2, <1>3, <1>4, <1>7, <2>9, ScoreKeeps DEF Judging, Committee, v
<1> QED BY <1>1, <1>6, <1>7

LEMMA MisjudgedKeeps == LoopInv /\ Misjudged => LoopInv'
<1> SUFFICES ASSUME LoopInv, Misjudged PROVE LoopInv'
  OBVIOUS
<1>1. calls' \in Nat /\ pc \in FirstPass \cup Verdict /\ pc # "done"
  BY DEF Misjudged, LoopInv, TypeOK, FirstPass, Verdict
<1>2. own' \in BOOLEAN /\ own'
  BY Zenon DEF Misjudged
<1>3. JudgeRetries \in {JudgeRetries, Retries}
  OBVIOUS
<1>4. Incr(Self) => moved' \in SUBSET Session /\ Self \in moved'
  BY SelfAssumption DEF Incr, Active, LoopInv, TypeOK
<1>5. CASE SentBack(JudgeRetries)
           /\ UNCHANGED <<context, put, following, budget, first, split, panels, scored, ended>>
  <2>1. pc' = pc /\ Self \in moved'
    BY <1>4, <1>5 DEF SentBack
  <2>2. NoiseTracked'
    BY <1>1, <1>2, <2>1 DEF NoiseTracked, FirstPass, Voice, Verdict
  <2> QED BY <1>1, <1>2, <1>3, <1>5, <2>2, SentBackKeeps
<1>6. CASE Exhausted(JudgeRetries) /\ pc \in {"judge", "verdict"}
           /\ Go(IF pc = "judge" THEN "judge_degraded" ELSE "verdict_degraded")
           /\ UNCHANGED <<context, put, following, budget, first, split, panels, scored, ended>>
  <2>1. moved' \in SUBSET Session /\ Self \in moved'
    BY <1>4, <1>6 DEF Exhausted
  <2>2. pc' \in {"judge_degraded", "verdict_degraded"} /\ attempt' = 0
    BY <1>6 DEF Go
  <2>3. TypeOK'
    BY <1>1, <1>2, <1>6, <2>1, <2>2, LimitsAssumption
    DEF LoopInv, TypeOK, context, following, scored, ended, Stage, FirstPass, Committee, Verdict
  <2>4. Counted'
    BY <1>1, <1>6, <2>2 DEF LoopInv, Counted, scored, FirstPass, Committee, Voice, Verdict, FollowUp
  <2>5. NoiseTracked'
    BY <1>2, <2>1, <2>2 DEF NoiseTracked, FirstPass, Voice, Verdict
  <2>6. NeverAsksTwice' /\ MovedAtTheEnd' /\ Sound(first') /\ Guarded(kept')
    BY <1>1, <1>6 DEF LoopInv, NeverAsksTwice, MovedAtTheEnd, scored, ended
  <2> QED BY <2>3, <2>4, <2>5, <2>6 DEF LoopInv
<1>7. CASE Exhausted(JudgeRetries) /\ Fail("structured")
           /\ UNCHANGED <<context, put, following, budget, first, split, panels, scored>>
  <2>1. moved' \in SUBSET Session
    BY <1>4, <1>7 DEF Exhausted
  <2> QED BY <1>1, <1>2, <1>7, <2>1, FailedKeeps
<1>8. CASE Exhausted(JudgeRetries) /\ pc \in Verdict /\ KeepFirst
  <2>1. moved' \in SUBSET Session
    BY <1>4, <1>8 DEF Exhausted
  <2> QED BY <1>1, <1>2, <1>8, <2>1, KeepFirstKeeps DEF Judging, Committee
<1> QED BY <1>5, <1>6, <1>7, <1>8 DEF Misjudged

LEMMA OpineKeeps == LoopInv /\ Opine => LoopInv'
<1> SUFFICES ASSUME LoopInv, Opine PROVE LoopInv'
  OBVIOUS
<1>1. calls' \in Nat /\ pc \in Voice /\ pc # "done" /\ own' = own
  BY DEF Opine, LoopInv, TypeOK, Voice
<1>2. own' \in BOOLEAN
  BY <1>1, Zenon DEF LoopInv, TypeOK
<1>3. own' <=> first.noisy
  <2>1. first.noisy \in BOOLEAN /\ first.own \in BOOLEAN /\ (first.noisy <=> first.own)
    BY DEF LoopInv, Sound, Judgment
  <2> QED BY <1>1, <2>1 DEF LoopInv, NoiseTracked
<1>4. Retries \in {JudgeRetries, Retries}
  OBVIOUS
<1>5. ASSUME pc' \in {"advocate", "verdict"}, attempt' = 0, split' \in Split \cup {-1},
             moved' \in SUBSET Session, pc' = "verdict" => Self \notin moved',
             UNCHANGED <<context, put, following, budget, first, panels, scored, ended>>
      PROVE  LoopInv'
  <2>1. TypeOK'
    BY <1>1, <1>2, <1>5, LimitsAssumption
    DEF LoopInv, TypeOK, context, following, scored, ended, Stage, Committee, Voice, Verdict
  <2>2. Counted'
    BY <1>1, <1>5 DEF LoopInv, Counted, scored, FirstPass, Committee, Voice, Verdict, FollowUp
  <2>3. first' = first /\ (first.noisy <=> first.own)
    BY <1>5 DEF LoopInv, Sound
  <2>4. NoiseTracked'
    BY <1>3, <1>5, <2>3 DEF NoiseTracked, FirstPass, Voice, Verdict
  <2>5. NeverAsksTwice' /\ MovedAtTheEnd' /\ Sound(first') /\ Guarded(kept')
    BY <1>1, <1>5 DEF LoopInv, NeverAsksTwice, MovedAtTheEnd, scored, ended
  <2> QED BY <2>1, <2>2, <2>4, <2>5 DEF LoopInv
<1>6. CASE /\ pc = "skeptic" /\ Go("advocate") /\ split' = split /\ UNCHANGED moved
           /\ UNCHANGED <<context, put, following, budget, first, panels, scored, ended>>
  BY <1>5, <1>6 DEF Go, LoopInv, TypeOK
<1>7. CASE /\ pc = "advocate" /\ Go("verdict") /\ split' \in Split /\ moved' = {}
           /\ UNCHANGED <<context, put, following, budget, first, panels, scored, ended>>
  BY <1>5, <1>7 DEF Go
<1>8. CASE /\ SentBack(Retries)
           /\ UNCHANGED <<context, put, following, budget, first, split, panels, scored, ended>>
  <2>1. pc' = pc /\ first' = first
    BY <1>8 DEF SentBack
  <2>2. NoiseTracked'
    BY <1>1, <2>1 DEF LoopInv, NoiseTracked, FirstPass, Voice, Verdict
  <2> QED BY <1>1, <1>2, <1>4, <1>8, <2>2, SentBackKeeps
<1>9. CASE Exhausted(Retries) /\ KeepFirst
  <2>1. moved' \in SUBSET Session
    BY <1>9, SelfAssumption DEF Exhausted, Incr, Active, LoopInv, TypeOK
  <2> QED BY <1>1, <1>2, <1>9, <2>1, KeepFirstKeeps DEF Judging, Committee
<1> QED BY <1>6, <1>7, <1>8, <1>9 DEF Opine

\* A step from one call of the follow-up to another.
LEMMA FollowUpKeeps ==
  ASSUME LoopInv, pc \in FollowUp, pc' \in FollowUp, attempt' \in 0..(JudgeRetries + Retries),
         tries' \in 0..ToolAttempts, hit' \in BOOLEAN, fellOver' \in BOOLEAN, calls' \in Nat,
         UNCHANGED <<context, put, judging, moved, scored, ended>>
  PROVE  LoopInv'
<1>1. TypeOK'
  BY DEF LoopInv, TypeOK, context, judging, scored, ended, Stage
<1>2. Counted'
  BY DEF LoopInv, Counted, scored, FirstPass, Committee, Voice, Verdict, FollowUp
<1>3. NoiseTracked'
  BY DEF NoiseTracked, FirstPass, Voice, Verdict, FollowUp
<1>4. NeverAsksTwice' /\ MovedAtTheEnd' /\ Sound(first') /\ Guarded(kept')
  BY DEF LoopInv, NeverAsksTwice, MovedAtTheEnd, judging, scored, ended, FollowUp
<1> QED BY <1>1, <1>2, <1>3, <1>4 DEF LoopInv

\* A follow-up that is sent back.
LEMMA FollowUpSentBack ==
  ASSUME LoopInv, pc \in FollowUp, SentBack(Retries), calls' \in Nat,
         UNCHANGED <<context, put, following, judging, scored, ended>>
  PROVE  LoopInv'
<1>1. pc' = pc /\ pc # "done" /\ Retries \in {JudgeRetries, Retries}
  BY DEF SentBack, FollowUp
<1>2. NoiseTracked'
  BY <1>1 DEF NoiseTracked, FirstPass, Voice, Verdict, FollowUp
<1>3. own' \in BOOLEAN
  BY Zenon DEF judging, LoopInv, TypeOK
<1> QED BY <1>1, <1>2, <1>3, SentBackKeeps DEF judging

\* The last follow-up is invalid too.
LEMMA FollowUpExhausted ==
  ASSUME LoopInv, pc \in FollowUp, Exhausted(Retries), Unavailable, calls' \in Nat,
         UNCHANGED <<context, put, following, judging>>
  PROVE  LoopInv'
<1>1. moved' \in SUBSET Session /\ pc # "done"
  BY SelfAssumption DEF Exhausted, Incr, Active, LoopInv, TypeOK, FollowUp
<1> QED BY <1>1, UnavailableKeeps

LEMMA ToolKeeps == LoopInv /\ Tool => LoopInv'
<1> SUFFICES ASSUME LoopInv, Tool PROVE LoopInv'
  OBVIOUS
<1>1. /\ pc = "tool" /\ pc \in FollowUp /\ pc # "done" /\ calls' \in Nat
      /\ UNCHANGED <<context, put, judging, moved>> /\ moved' \in SUBSET Session
  BY DEF Tool, LoopInv, TypeOK, FollowUp
<1>2. hit \in BOOLEAN /\ own' \in BOOLEAN /\ fellOver \in BOOLEAN
  BY <1>1, Zenon DEF LoopInv, TypeOK, judging
<1>3. attempt \in 0..(JudgeRetries + Retries) /\ tries \in 0..ToolAttempts
      /\ 0 \in 0..(JudgeRetries + Retries)
  BY LimitsAssumption DEF LoopInv, TypeOK
<1>4. ASSUME NEW kind, Fail(kind), UNCHANGED <<following, scored>> PROVE LoopInv'
  BY <1>1, <1>2, <1>4, FailedKeeps DEF judging
<1>5. CASE /\ tries + 1 < ToolAttempts /\ tries' = tries + 1 /\ hit' = FALSE /\ fellOver' = FALSE
           /\ UNCHANGED <<pc, attempt, scored, ended>>
  <2>1. tries' \in 0..ToolAttempts
    BY <1>3, <1>5, LimitsAssumption
  <2>2. hit' \in BOOLEAN /\ fellOver' \in BOOLEAN
    BY <1>2, <1>5, Zenon
  <2>3. attempt' \in 0..(JudgeRetries + Retries) /\ pc' \in FollowUp
    BY <1>1, <1>3, <1>5
  <2> QED BY <1>1, <1>5, <2>1, <2>2, <2>3, FollowUpKeeps
<1>6. CASE Unavailable /\ UNCHANGED following
  BY <1>1, <1>6, UnavailableKeeps
<1>7. CASE hit' \in {hit, TRUE} /\ Go("compose") /\ UNCHANGED <<tries, fellOver, scored, ended>>
  <2>1. hit' \in BOOLEAN /\ fellOver' \in BOOLEAN
    BY <1>2, <1>7, Zenon
  <2> QED BY <1>1, <1>3, <1>7, <2>1, FollowUpKeeps DEF Go, FollowUp
<1> QED BY <1>4, <1>5, <1>6, <1>7 DEF Tool

LEMMA FailOverKeeps == LoopInv /\ FailOver => LoopInv'
<1> SUFFICES ASSUME LoopInv, FailOver PROVE LoopInv'
  OBVIOUS
<1>1. /\ pc \in FollowUp /\ pc' \in FollowUp /\ attempt' = 0 /\ calls' = calls + 1 /\ tries' = tries
      /\ UNCHANGED <<context, put, judging, moved, scored, ended>>
  BY DEF FailOver, Go, FollowUp
<1>2. attempt' \in 0..(JudgeRetries + Retries) /\ tries' \in 0..ToolAttempts /\ calls' \in Nat
  BY <1>1, LimitsAssumption DEF LoopInv, TypeOK
<1>3. hit' \in BOOLEAN /\ fellOver' \in BOOLEAN
  BY Zenon DEF FailOver, LoopInv, TypeOK
<1> QED BY <1>1, <1>2, <1>3, FollowUpKeeps

LEMMA PlanKeeps == LoopInv /\ Plan => LoopInv'
<1> SUFFICES ASSUME LoopInv, Plan PROVE LoopInv'
  OBVIOUS
<1>1. /\ pc = "plan" /\ pc \in FollowUp /\ pc # "done" /\ calls' \in Nat
      /\ UNCHANGED <<context, put, judging>> /\ moved \in SUBSET Session
  BY DEF Plan, LoopInv, TypeOK, FollowUp
<1>2. CASE hit' = TRUE /\ Go("compose") /\ UNCHANGED <<tries, fellOver, scored, ended, moved>>
  <2>1. tries' \in 0..ToolAttempts /\ 0 \in 0..(JudgeRetries + Retries)
    BY <1>2, LimitsAssumption DEF LoopInv, TypeOK
  <2>2. hit' \in BOOLEAN /\ fellOver' \in BOOLEAN
    BY <1>2, Zenon DEF LoopInv, TypeOK
  <2> QED BY <1>1, <1>2, <2>1, <2>2, FollowUpKeeps DEF Go, FollowUp
<1>3. CASE Unavailable /\ UNCHANGED <<following, moved>>
  BY <1>1, <1>3, UnavailableKeeps
<1>4. CASE SentBack(Retries) /\ UNCHANGED <<following, scored, ended>>
  BY <1>1, <1>4, FollowUpSentBack
<1>5. CASE Exhausted(Retries) /\ Unavailable /\ UNCHANGED following
  BY <1>1, <1>5, FollowUpExhausted
<1> QED BY <1>2, <1>3, <1>4, <1>5 DEF Plan

LEMMA ComposeKeeps == LoopInv /\ Compose => LoopInv'
<1> SUFFICES ASSUME LoopInv, Compose PROVE LoopInv'
  OBVIOUS
<1>1. /\ pc = "compose" /\ pc \in FollowUp /\ pc \in {"render", "compose"} /\ pc # "done"
      /\ calls' \in Nat /\ UNCHANGED <<context, following, judging>> /\ moved \in SUBSET Session
  BY DEF Compose, LoopInv, TypeOK, FollowUp
<1>2. ASSUME NEW text \in Text, ~Reask(text), Put(text), UNCHANGED <<moved, scored, ended>>
      PROVE  LoopInv'
  BY <1>1, <1>2, PutKeeps
<1>3. CASE Unavailable /\ UNCHANGED <<put, moved>>
  BY <1>1, <1>3, UnavailableKeeps
<1>4. CASE SentBack(Retries) /\ UNCHANGED <<put, scored, ended>>
  BY <1>1, <1>4, FollowUpSentBack
<1>5. CASE Exhausted(Retries) /\ Unavailable /\ UNCHANGED put
  BY <1>1, <1>5, FollowUpExhausted
<1> QED BY <1>2, <1>3, <1>4, <1>5 DEF Compose
-----------------------------------------------------------------------------
LEMMA NextLoopInv == LoopInv /\ [Next]_vars => LoopInv'
<1>1. ASSUME LoopInv, UNCHANGED vars PROVE LoopInv'
  BY <1>1
  DEF vars, context, following, judging, scored, ended, LoopInv, TypeOK, Counted,
      NeverAsksTwice, NoiseTracked, MovedAtTheEnd
<1> QED
  BY <1>1, RenderKeeps, AnswerKeeps, LeaveKeeps, NeighbourKeeps, JudgedKeeps, MisjudgedKeeps,
     OpineKeeps, ToolKeeps, FailOverKeeps, PlanKeeps, ComposeKeeps, RaiseKeeps
  DEF Next, Reply

LEMMA LoopInvariant == Spec => []LoopInv
  BY InitLoopInv, NextLoopInv, PTL DEF Spec

\* Every variable of the micro-loop keeps its type; in particular a question is put to the
\* Candidate at most MaxTurns times, and every stage is left within its retry limit.
THEOREM TypeCorrect == Spec => []TypeOK
<1>1. LoopInv => TypeOK
  BY DEF LoopInv
<1> QED BY <1>1, LoopInvariant, PTL

\* No follow-up repeats the bank's question or an earlier follow-up of the exchange.
THEOREM NoReask == Spec => []NeverAsksTwice
<1>1. LoopInv => NeverAsksTwice
  BY DEF LoopInv
<1> QED BY <1>1, LoopInvariant, PTL

\* In English the first question put is the bank's own.
SeedAsWritten == mode = "en" /\ put # <<>> => put[1] = Seed

LEMMA SeedStays == LoopInv /\ SeedAsWritten /\ [Next]_vars => SeedAsWritten'
<1> SUFFICES ASSUME LoopInv, SeedAsWritten, [Next]_vars PROVE SeedAsWritten'
  OBVIOUS
<1>1. put \in Seq(Text)
  BY DEF LoopInv, TypeOK
<1>2. mode' = mode /\ (put' = put \/ Render \/ Compose)
  <2>1. Judged => UNCHANGED <<mode, put>>
    BY DEF Judged, FirstJudged, Convene, Score, KeepFirst, context
  <2>2. Misjudged \/ Opine \/ Raise => UNCHANGED <<mode, put>>
    BY DEF Misjudged, Opine, Raise, Score, KeepFirst, context
  <2>3. Tool \/ FailOver \/ Plan \/ Answer \/ Leave \/ Neighbour \/ OperatorStops => UNCHANGED <<mode, put>>
    BY DEF Tool, FailOver, Plan, Answer, Leave, Neighbour, OperatorStops, Abandon, context
  <2>4. Render \/ Compose => mode' = mode
    BY DEF Render, Compose, context
  <2> QED BY <2>1, <2>2, <2>3, <2>4 DEF Next, Reply, vars, context
<1>3. CASE put' = put
  BY <1>2, <1>3 DEF SeedAsWritten
<1>4. ASSUME Render, put' # put PROVE SeedAsWritten'
  <2>1. put = <<>>
    BY <1>4 DEF Render, LoopInv, Counted
  <2>2. mode = "en" => put' = Append(put, Seed)
    BY <1>4 DEF Render, Put
  <2> QED BY <1>2, <2>1, <2>2 DEF SeedAsWritten
<1>5. ASSUME Compose, put' # put PROVE SeedAsWritten'
  <2>1. PICK text \in Text : put' = Append(put, text)
    BY <1>5 DEF Compose, Put
  <2>2. put # <<>>
    BY <1>1, <1>5 DEF Compose, LoopInv, Counted, FollowUp
  <2>3. put'[1] = put[1]
    BY <1>1, <2>1, <2>2
  <2> QED BY <1>2, <2>2, <2>3 DEF SeedAsWritten
<1> QED BY <1>2, <1>3, <1>4, <1>5

\* No question of an English Session is put twice, the first one included: only a seed
\* that was re-voiced is outside what reject_reask compares (interviewer.py:236).
THEOREM EnglishAsksOnce == Spec => [](mode = "en" => AskedOnce)
<1>1. Init => SeedAsWritten
  BY DEF Init, SeedAsWritten
<1>2. LoopInv /\ SeedAsWritten => (mode = "en" => AskedOnce)
  <2> SUFFICES ASSUME LoopInv, SeedAsWritten, mode = "en",
                      NEW i \in DOMAIN put, NEW k \in DOMAIN put, k < i
               PROVE  put[k] # put[i]
    <3>1. ASSUME LoopInv, NEW i \in DOMAIN put, NEW k \in DOMAIN put PROVE i = k \/ k < i \/ i < k
      BY <3>1 DEF LoopInv, TypeOK
    <3> QED BY <3>1 DEF AskedOnce, IsInjective
  <2>1. put \in Seq(Text) /\ DOMAIN put = 1..Len(put) /\ i \in 2..Len(put)
    BY DEF LoopInv, TypeOK
  <2>2. CASE k = 1
    BY <2>1, <2>2 DEF LoopInv, NeverAsksTwice, SeedAsWritten
  <2>3. CASE k # 1
    BY <2>1, <2>3 DEF LoopInv, NeverAsksTwice
  <2> QED BY <2>2, <2>3
<1> QED BY <1>1, <1>2, LoopInvariant, SeedStays, PTL DEF Spec

\* A kept judgment is marked noisy exactly if the replies it rests on were, whatever other
\* Sessions of the process and the committee's voices did to the counters meanwhile.
THEOREM ExactNoise == Spec => []NoiseIsExact
<1>1. LoopInv => NoiseIsExact
  BY DEF LoopInv, Guarded, Sound, Judgment, NoiseIsExact
<1> QED BY <1>1, LoopInvariant, PTL

\* What the guards found wrong with a judgment bounds the weight of the question, and one
\* that was not scored has none.
THEOREM GuardedWeight == Spec => []GuardsBindTheWeight
<1>1. LoopInv => GuardsBindTheWeight
  <2> SUFFICES ASSUME LoopInv PROVE GuardsBindTheWeight
    OBVIOUS
  <2>1. kept \in Judgment /\ kept.conf \in 0..100 /\ kept.blanked \in 0..Dims /\ belief \in Nat
    BY DEF LoopInv, TypeOK, Judgment
  <2>2. Penalty(kept.blanked) \in 0..60
    BY <2>1, PenaltyBound
  <2>3. belief = 0 \/ belief <= 100 + 3 * kept.conf
    BY DEF LoopInv, MovedAtTheEnd, ConfidenceWeight
  <2>4. kept.diverged => belief <= ConfidenceWeight(40)
    BY <2>1, <2>3 DEF LoopInv, Guarded, Sound, ConfidenceWeight
  <2>5. kept.noisy => belief <= ConfidenceWeight(85)
    BY <2>1, <2>3 DEF LoopInv, Guarded, ConfidenceWeight
  <2>6. belief <= 100 + 3 * (100 - Penalty(kept.blanked))
    BY <2>1, <2>2, <2>3 DEF LoopInv, Guarded
  <2>7. belief <= ConfidenceWeight(100 - (60 * kept.blanked) \div Dims)
    BY <2>6 DEF ConfidenceWeight, Penalty
  <2>8. outcome \notin Scored => belief = 0
    BY DEF LoopInv, MovedAtTheEnd
  <2> QED BY <2>4, <2>5, <2>7, <2>8 DEF GuardsBindTheWeight
<1> QED BY <1>1, LoopInvariant, PTL
-----------------------------------------------------------------------------
(* What a turn costs.                                                      *)

\* The calls that judging an answer may take, with the committee once it has been convened.
JudgingCost == 2 * (JudgeRetries + 1)
                 + (IF panels > 0 THEN 2 * (Retries + 1) + 2 * (JudgeRetries + 1) ELSE 0)
LookupCost == IF native THEN ToolAttempts * (Retries + 3) ELSE Retries + 1

\* What the round-trips that ended in a garbled name took, and the primary's part of one that
\* was run again on the fallback.
Trips == tries * (Retries + 3)
Primarys == IF fellOver THEN Retries + 2 ELSE 0

\* The calls made by each stage: what the stages before it may take, and its own attempts.
CostInv ==
  /\ pc = "render" => calls <= attempt /\ attempt <= Retries
  /\ pc = "judge" => calls <= attempt /\ attempt <= JudgeRetries
  /\ pc = "judge_degraded" => calls <= JudgeRetries + 1 + attempt /\ attempt <= JudgeRetries
  /\ pc \in Committee => panels > 0
  /\ pc = "skeptic" => calls <= 2 * (JudgeRetries + 1) + attempt /\ attempt <= Retries
  /\ pc = "advocate" => /\ calls <= 2 * (JudgeRetries + 1) + Retries + 1 + attempt
                        /\ attempt <= Retries
  /\ pc = "verdict" => /\ calls <= 2 * (JudgeRetries + 1) + 2 * (Retries + 1) + attempt
                       /\ attempt <= JudgeRetries
  /\ pc = "verdict_degraded" =>
       /\ calls <= 3 * (JudgeRetries + 1) + 2 * (Retries + 1) + attempt
       /\ attempt <= JudgeRetries
  /\ pc = "tool" => native /\ calls <= JudgingCost + Trips + Primarys /\ tries < ToolAttempts
  /\ pc = "plan" => ~native /\ calls <= JudgingCost + attempt /\ attempt <= Retries
  /\ pc = "compose" => attempt <= Retries
  /\ pc = "compose" /\ native =>
       calls <= JudgingCost + Trips + Primarys + 1 + attempt /\ tries < ToolAttempts
  /\ pc = "compose" /\ ~native => calls <= JudgingCost + Retries + 1 + attempt
  /\ pc \in {"ask", "done"} => TurnCost

\* The numbers the bounds are made of.
LEMMA CostNumbers ==
  ASSUME LoopInv
  PROVE  /\ JudgeRetries \in Nat /\ Retries \in Nat /\ ToolAttempts \in Nat \ {0}
         /\ calls \in Nat /\ attempt \in Nat /\ tries \in Nat /\ panels \in Nat
         /\ JudgingCost \in Nat /\ LookupCost \in Nat \ {0}
         /\ JudgingCost >= 2 * (JudgeRetries + 1)
         /\ panels > 0 => JudgingCost = 4 * (JudgeRetries + 1) + 2 * (Retries + 1)
         /\ TurnCost <=> calls <= JudgingCost + LookupCost + Retries + 1
         /\ Trips \in Nat /\ Primarys \in Nat /\ Primarys <= Retries + 2
         /\ (tries + 1) * (Retries + 3) = Trips + (Retries + 3)
         /\ native /\ tries < ToolAttempts => Trips + (Retries + 3) <= LookupCost
<1>1. JudgeRetries \in Nat /\ Retries \in Nat /\ ToolAttempts \in Nat \ {0}
  BY LimitsAssumption
<1>2. calls \in Nat /\ attempt \in Nat /\ tries \in Nat /\ panels \in Nat
  BY <1>1 DEF LoopInv, TypeOK
<1> DEFINE R == Retries + 3
<1>3. R \in Nat /\ tries * R \in Nat /\ (tries + 1) * R = tries * R + R /\ ToolAttempts * R \in Nat
      /\ ToolAttempts * R > 0
  BY <1>1, <1>2
<1>4. tries < ToolAttempts => tries * R + R <= ToolAttempts * R
  <2> SUFFICES ASSUME tries < ToolAttempts PROVE tries * R + R <= ToolAttempts * R
    OBVIOUS
  <2> DEFINE d == ToolAttempts - (tries + 1)
  <2>1. d \in Nat /\ ToolAttempts = (tries + 1) + d
    BY <1>1, <1>2
  <2> HIDE DEF d, R
  <2>2. ToolAttempts * R = (tries + 1) * R + d * R /\ d * R \in Nat
    BY <1>2, <1>3, <2>1
  <2> QED BY <1>3, <2>2
<1>5. LookupCost \in Nat \ {0}
  BY <1>1, <1>3 DEF LookupCost
<1>6. JudgingCost \in Nat /\ JudgingCost >= 2 * (JudgeRetries + 1)
      /\ (panels > 0 => JudgingCost = 4 * (JudgeRetries + 1) + 2 * (Retries + 1))
  BY <1>1, <1>2 DEF JudgingCost
<1>7. TurnCost <=> calls <= JudgingCost + LookupCost + Retries + 1
  BY DEF TurnCost, JudgingCost, LookupCost
<1>8. Primarys \in Nat /\ Primarys <= Retries + 2
  BY <1>1 DEF Primarys
<1> QED BY <1>1, <1>2, <1>3, <1>4, <1>5, <1>6, <1>7, <1>8 DEF Trips, LookupCost

\* A call within the bounds of its stage may end the question, or hand over to the next stage.
LEMMA WithinTheTurn ==
  ASSUME LoopInv, CostInv, pc # "done"
  PROVE  /\ pc \in FirstPass \cup Committee => calls + 1 <= JudgingCost
         /\ pc \in {"tool", "plan"} => calls + 1 <= JudgingCost + LookupCost
         /\ calls + 1 <= JudgingCost + LookupCost + Retries + 1 \/ pc = "ask"
<1> USE CostNumbers
<1>1. pc \in FirstPass \cup Committee => calls + 1 <= JudgingCost
  BY DEF CostInv, FirstPass, Committee, Voice, Verdict
<1>2. pc \in {"tool", "plan"} => calls + 1 <= JudgingCost + LookupCost
  <2>1. CASE pc = "tool"
    BY <2>1 DEF CostInv
  <2>2. CASE pc = "plan"
    BY <2>2 DEF CostInv, LookupCost
  <2> QED BY <2>1, <2>2
<1>3. pc \in {"render", "compose"} => calls + 1 <= JudgingCost + LookupCost + Retries + 1
  <2>1. CASE pc = "render"
    BY <2>1 DEF CostInv
  <2>2. CASE pc = "compose" /\ native
    BY <2>2 DEF CostInv
  <2>3. CASE pc = "compose" /\ ~native
    BY <2>3 DEF CostInv, LookupCost
  <2> QED BY <2>1, <2>2, <2>3
<1>4. /\ calls + 1 <= JudgingCost => calls + 1 <= JudgingCost + LookupCost
      /\ calls + 1 <= JudgingCost + LookupCost => calls + 1 <= JudgingCost + LookupCost + Retries + 1
  OBVIOUS
<1>5. pc \in FirstPass \cup Committee \cup {"tool", "plan", "render", "compose", "ask"}
  BY DEF LoopInv, TypeOK, Stage, FollowUp
<1> QED BY <1>1, <1>2, <1>3, <1>4, <1>5

\* The question ends, or is put to the Candidate, within the turn's calls.
LEMMA EndCost ==
  ASSUME LoopInv, LoopInv', CostInv, pc # "done", pc # "ask", pc' \in {"done", "ask"},
         UNCHANGED <<panels, native>>, calls' <= calls + 1
  PROVE  CostInv'
<1>1. UNCHANGED <<JudgingCost, LookupCost>>
  BY DEF JudgingCost, LookupCost
<1>2. TurnCost' <=> calls' <= JudgingCost + LookupCost + Retries + 1
  BY <1>1 DEF TurnCost, JudgingCost, LookupCost
<1>3. calls + 1 <= JudgingCost + LookupCost + Retries + 1
  BY WithinTheTurn
<1>4. calls' \in Nat /\ calls \in Nat
  BY DEF LoopInv, TypeOK
<1>5. TurnCost'
  BY <1>2, <1>3, <1>4, CostNumbers
<1> QED BY <1>5 DEF CostInv, Committee, Voice, Verdict

\* A judgment is taken within what judging costs.
LEMMA ScoreCost ==
  ASSUME LoopInv, LoopInv', CostInv, pc \in Judging, NEW j, Score(j),
         UNCHANGED panels, calls' = calls + 1
  PROVE  CostInv'
<1>1. pc # "done" /\ pc # "ask"
  BY DEF Judging, FirstPass, Committee, Voice, Verdict
<1>2. native' = native
  BY DEF Score, context
<1>3. CASE pc' = "done"
  BY <1>1, <1>2, <1>3, EndCost
<1>4. CASE Go(IF native THEN "tool" ELSE "plan") /\ tries' = 0 /\ fellOver' = FALSE
  <2>1. calls' <= JudgingCost /\ JudgingCost' = JudgingCost
    BY <1>1, WithinTheTurn DEF JudgingCost, Judging
  <2>2. attempt' = 0 /\ pc' = IF native THEN "tool" ELSE "plan"
    BY <1>4 DEF Go
  <2>3. Trips' = 0 /\ Primarys' = 0
    BY <1>4, CostNumbers DEF Trips, Primarys
  <2> QED
    BY <1>2, <1>4, <2>1, <2>2, <2>3, CostNumbers DEF CostInv, Committee, Voice, Verdict
<1> QED BY <1>3, <1>4 DEF Score, Finish, Go

\* A reply that is sent back is one more attempt of its stage.
LEMMA SentBackCost ==
  ASSUME LoopInv, CostInv, NEW limit \in {JudgeRetries, Retries}, SentBack(limit),
         calls' = calls + 1, UNCHANGED <<panels, native, tries, fellOver>>,
         pc \in FirstPass \cup Verdict => limit = JudgeRetries,
         pc \in Voice \cup {"render", "plan", "compose"} => limit = Retries,
         pc \notin {"tool", "ask", "done"}
  PROVE  CostInv'
<1>1. UNCHANGED <<JudgingCost, LookupCost, Trips, Primarys>>
  BY DEF JudgingCost, LookupCost, Trips, Primarys
<1>2. pc' = pc /\ attempt' = attempt + 1 /\ attempt < limit
  BY DEF SentBack
<1> QED
  BY <1>1, <1>2, CostNumbers DEF CostInv, FirstPass, Committee, Voice, Verdict
-----------------------------------------------------------------------------
\* The rendering of the question is paid for.
LEMMA RenderCost == LoopInv /\ LoopInv' /\ CostInv /\ Render => CostInv'
<1> SUFFICES ASSUME LoopInv, LoopInv', CostInv, Render PROVE CostInv'
  OBVIOUS
<1>1. pc = "render" /\ UNCHANGED <<panels, native, tries, fellOver>>
  BY DEF Render, context, following, judging
<1>2. CASE pc' = "ask"
  <2>1. calls' <= calls + 1
    BY CostNumbers DEF Render
  <2> QED BY <1>1, <1>2, <2>1, EndCost
<1>3. CASE calls' = calls + 1 /\ SentBack(Retries)
  BY <1>1, <1>3, SentBackCost DEF FirstPass, Verdict, Voice
<1> QED BY <1>2, <1>3 DEF Render, Put, Go

\* A judgment, of the first pass or the committee.
LEMMA JudgedCost == LoopInv /\ LoopInv' /\ CostInv /\ Judged => CostInv'
<1> SUFFICES ASSUME LoopInv, LoopInv', CostInv, Judged PROVE CostInv'
  OBVIOUS
<1>1. pc \in Judging /\ calls' = calls + 1
  BY DEF Judged, Judging, Committee
<1>2. ASSUME NEW j, Score(j), UNCHANGED panels PROVE CostInv'
  BY <1>1, <1>2, ScoreCost
<1>3. ASSUME NEW j, Convene(j), pc \in FirstPass PROVE CostInv'
  <2>1. pc' = "skeptic" /\ attempt' = 0 /\ panels' = panels + 1
    BY <1>3 DEF Convene, Go
  <2>2. calls' <= 2 * (JudgeRetries + 1)
    BY <1>1, <1>3, CostNumbers DEF CostInv, FirstPass
  <2> QED BY <2>1, <2>2, CostNumbers DEF CostInv, Committee, Voice, Verdict
<1> QED BY <1>2, <1>3 DEF Judged, FirstJudged

\* A reply of the judge that cannot be used.
LEMMA MisjudgedCost == LoopInv /\ LoopInv' /\ CostInv /\ Misjudged => CostInv'
<1> SUFFICES ASSUME LoopInv, LoopInv', CostInv, Misjudged PROVE CostInv'
  OBVIOUS
<1>1. /\ pc \in FirstPass \cup Verdict /\ pc \in Judging /\ calls' = calls + 1
      /\ pc # "done" /\ pc # "ask" /\ pc \notin Voice
  BY DEF Misjudged, Judging, Committee, FirstPass, Verdict, Voice
<1>2. CASE SentBack(JudgeRetries) /\ UNCHANGED <<context, following, panels>>
  BY <1>1, <1>2, SentBackCost DEF context, following, FirstPass, Verdict
<1>3. CASE /\ Exhausted(JudgeRetries) /\ pc \in {"judge", "verdict"} /\ UNCHANGED panels
           /\ Go(IF pc = "judge" THEN "judge_degraded" ELSE "verdict_degraded")
  <2>1. attempt = JudgeRetries /\ attempt' = 0
    BY <1>3 DEF Exhausted, Go
  <2>2. pc' = IF pc = "judge" THEN "judge_degraded" ELSE "verdict_degraded"
    BY <1>3 DEF Go
  <2> QED
    BY <1>1, <1>3, <2>1, <2>2, CostNumbers DEF CostInv, Committee, Voice, Verdict
<1>4. CASE Fail("structured") /\ UNCHANGED <<context, panels>>
  BY <1>1, <1>4, EndCost, CostNumbers DEF Fail, Go, context
<1>5. CASE KeepFirst
  BY <1>1, <1>5, ScoreCost DEF KeepFirst
<1> QED BY <1>2, <1>3, <1>4, <1>5 DEF Misjudged

\* A voice of the committee.
LEMMA OpineCost == LoopInv /\ LoopInv' /\ CostInv /\ Opine => CostInv'
<1> SUFFICES ASSUME LoopInv, LoopInv', CostInv, Opine PROVE CostInv'
  OBVIOUS
<1>1. /\ pc \in Voice /\ pc \in Judging /\ pc \in Committee /\ calls' = calls + 1
  BY DEF Opine, Judging, Committee
<1>2. CASE SentBack(Retries) /\ UNCHANGED <<context, following, panels>>
  BY <1>1, <1>2, SentBackCost DEF context, following, FirstPass, Verdict, Voice
<1>3. CASE pc = "skeptic" /\ Go("advocate") /\ UNCHANGED panels
  BY <1>1, <1>3, CostNumbers DEF CostInv, Go, Committee, Voice, Verdict
<1>4. CASE pc = "advocate" /\ Go("verdict") /\ UNCHANGED panels
  BY <1>1, <1>4, CostNumbers DEF CostInv, Go, Committee, Voice, Verdict
<1>5. CASE KeepFirst
  BY <1>1, <1>5, ScoreCost DEF KeepFirst
<1> QED BY <1>2, <1>3, <1>4, <1>5 DEF Opine

\* The lookup and the follow-up.
LEMMA FollowUpCost == LoopInv /\ LoopInv' /\ CostInv /\ (Tool \/ Plan \/ Compose) => CostInv'
<1> SUFFICES ASSUME LoopInv, LoopInv', CostInv, Tool \/ Plan \/ Compose PROVE CostInv'
  OBVIOUS
<1>1. /\ pc \in {"tool", "plan", "compose"} /\ calls' = calls + 1
      /\ UNCHANGED <<panels, native>> /\ pc # "done" /\ pc # "ask"
  BY DEF Tool, Plan, Compose, context, judging
<1>2. UNCHANGED <<JudgingCost, LookupCost>>
  BY <1>1 DEF JudgingCost, LookupCost
<1>3. CASE pc' \in {"done", "ask"}
  BY <1>1, <1>3, EndCost, CostNumbers
<1>4. CASE SentBack(Retries) /\ UNCHANGED following /\ pc # "tool"
  BY <1>1, <1>4, SentBackCost DEF following, FirstPass, Verdict
<1>5. CASE Go("compose") /\ pc \in {"tool", "plan"} /\ UNCHANGED <<tries, fellOver>>
  <2>1. UNCHANGED <<Trips, Primarys>> /\ pc' = "compose" /\ attempt' = 0
    BY <1>5 DEF Trips, Primarys, Go
  <2>2. CASE pc = "tool"
    BY <1>1, <1>2, <1>5, <2>1, <2>2, CostNumbers DEF CostInv, Committee, Voice, Verdict
  <2>3. CASE pc = "plan"
    BY <1>1, <1>2, <1>5, <2>1, <2>3, CostNumbers DEF CostInv, Committee, Voice, Verdict
  <2> QED BY <1>5, <2>2, <2>3
<1>6. CASE /\ pc = "tool" /\ tries + 1 < ToolAttempts /\ tries' = tries + 1 /\ fellOver' = FALSE
           /\ UNCHANGED <<pc, attempt>>
  <2>1. Trips' = Trips + (Retries + 3) /\ Primarys' = 0
    BY <1>6, CostNumbers DEF Trips, Primarys
  <2> QED BY <1>1, <1>2, <1>6, <2>1, CostNumbers DEF CostInv, Committee, Voice, Verdict
<1>7. CASE Tool
  BY <1>3, <1>5, <1>6, <1>7 DEF Tool, Fail, Unavailable, Finish, Go
<1>8. CASE Plan
  BY <1>3, <1>4, <1>5, <1>8 DEF Plan, Unavailable, Finish, Go
<1>9. CASE Compose
  BY <1>3, <1>4, <1>9 DEF Compose, Unavailable, Finish, Put, Go
<1> QED BY <1>7, <1>8, <1>9

\* The primary's part of the round-trip is paid for, and the fallback begins anew.
LEMMA FailOverCost == LoopInv /\ LoopInv' /\ CostInv /\ FailOver => CostInv'
<1> SUFFICES ASSUME LoopInv, LoopInv', CostInv, FailOver PROVE CostInv'
  OBVIOUS
<1>1. /\ pc \in {"tool", "compose"} /\ pc' = "tool" /\ native /\ native' = native /\ ~fellOver
      /\ fellOver' = TRUE /\ calls' = calls + 1 /\ tries' = tries /\ panels' = panels
  BY DEF FailOver, Go, context, judging
<1>2. /\ JudgingCost' = JudgingCost /\ Trips' = Trips /\ Primarys = 0 /\ Primarys' = Retries + 2
  BY <1>1 DEF JudgingCost, Trips, Primarys
<1>3. calls + 1 <= JudgingCost + Trips + (Retries + 2) /\ tries < ToolAttempts
  BY <1>1, <1>2, CostNumbers DEF CostInv
<1> QED BY <1>1, <1>2, <1>3 DEF CostInv, Committee, Voice, Verdict

\* An exception spends the call it ends.
LEMMA RaiseCost == LoopInv /\ LoopInv' /\ CostInv /\ Raise => CostInv'
<1> SUFFICES ASSUME LoopInv, LoopInv', CostInv, Raise PROVE CostInv'
  OBVIOUS
<1>1. calls' = calls + 1 /\ pc # "done" /\ pc # "ask"
  BY DEF Raise, Calling
<1>2. CASE pc \in Committee /\ KeepFirst
  BY <1>1, <1>2, ScoreCost DEF KeepFirst, Judging
<1>3. ASSUME NEW kind, Fail(kind), UNCHANGED <<context, panels>> PROVE CostInv'
  BY <1>1, <1>3, EndCost, CostNumbers DEF Fail, Go, context
<1> QED BY <1>2, <1>3 DEF Raise

\* A new answer starts a new turn; whoever leaves, or another Session, makes no call of it.
LEMMA QuietCost ==
  LoopInv /\ LoopInv' /\ CostInv /\ (Answer \/ Leave \/ OperatorStops \/ Neighbour) => CostInv'
<1>1. ASSUME LoopInv, Answer PROVE CostInv'
  BY <1>1, CostNumbers DEF Answer, Go, CostInv, Committee, Voice, Verdict
<1>2. ASSUME LoopInv, LoopInv', CostInv, Leave PROVE CostInv'
  <2>1. /\ pc = "ask" /\ pc' = "done" /\ UNCHANGED <<calls, panels, native>>
    BY <1>2 DEF Leave, Abandon, Go, context, judging
  <2>2. TurnCost'
    BY <1>2, <2>1 DEF CostInv, TurnCost
  <2> QED BY <2>1, <2>2 DEF CostInv, Committee, Voice, Verdict
<1>3. ASSUME LoopInv, LoopInv', CostInv, OperatorStops PROVE CostInv'
  BY <1>3, EndCost, CostNumbers DEF OperatorStops, Calling, Abandon, Go, context, judging
<1>4. ASSUME CostInv, Neighbour PROVE CostInv'
  BY <1>4
  DEF Neighbour, context, following, judging, scored, CostInv, TurnCost, JudgingCost, LookupCost,
      Trips, Primarys
<1> QED BY <1>1, <1>2, <1>3, <1>4

\* Between two answers the calls stay within the retry limits of each stage, whatever those
\* limits are: the retries inside one another do not multiply, but for a tool round-trip, which
\* a failover runs once more whole (llm.py:901-937), and a turn that triggers the committee at
\* every pass pays for it once (evaluator.py:443).
THEOREM BoundedTurns == Spec => []TurnCost
<1>1. Init => CostInv
  BY LimitsAssumption DEF Init, CostInv, Committee, Voice, Verdict
<1>2. LoopInv /\ LoopInv' /\ CostInv /\ [Next]_vars => CostInv'
  <2>1. CostInv /\ UNCHANGED vars => CostInv'
    BY DEF vars, context, following, judging, scored, CostInv, TurnCost, JudgingCost, LookupCost,
           Trips, Primarys
  <2> QED
    BY <2>1, RenderCost, JudgedCost, MisjudgedCost, OpineCost, FollowUpCost, FailOverCost, RaiseCost,
       QuietCost
    DEF Next, Reply
<1>3. LoopInv /\ CostInv => TurnCost
  <2> SUFFICES ASSUME LoopInv, CostInv PROVE TurnCost
    OBVIOUS
  <2>1. CASE pc \in {"ask", "done"}
    BY <2>1 DEF CostInv
  <2>2. CASE pc \notin {"ask", "done"}
    BY <2>2, WithinTheTurn, CostNumbers
  <2> QED BY <2>1, <2>2
<1> QED BY <1>1, <1>2, <1>3, LoopInvariant, PTL DEF Spec
=============================================================================
