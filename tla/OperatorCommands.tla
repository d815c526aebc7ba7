-------------------------- MODULE OperatorCommands --------------------------
(***************************************************************************)
(* The metered commands of the coach command line (cli.py): diagnose,      *)
(* bench, eval-harness, forge, and the study plan a post-mortem ends with  *)
(* (its debrief is PostMortem's). One invocation: the clients are built,   *)
(* the start gate is asked, then one step is one structured call with what *)
(* the command does on its reply. A reply is a value, Errored after the    *)
(* transport gave up, or Stopped: one of the two operator stops, a dead    *)
(* quota or refused accounting.                                            *)
(***************************************************************************)
EXTENDS QuestionForge, StudyPlanner, FiniteSetsExt

CONSTANTS Stopped, None,
          Orders,         \* what may be asked on the command line
          Configs,        \* settings an operator may have
          Ledgers,        \* what the gate may read: [metered, fault, dead, left]
          Judgments,      \* scores of an answer
          GoldenCases,    \* GOLDEN_ANSWER_CASES
          PerPass,        \* BENCH_MIN_BUDGET_TOKENS_PER_PASS, in the unit of left
          PerDraft,       \* FORGE_MIN_BUDGET_TOKENS_PER_DRAFT
          Flat,           \* what every other command needs
          PlanReplies,    \* Topic Plans the Diagnostic agent may send
          DraftSets,      \* what the Writer may send
          StudyDrafts(_), \* what the Planner may send, by targets
          MaxRetries      \* max_retries of these calls

Judgment == [score : Int, delivery : Int]
BenchCase == [id : STRING, pair : STRING, min : Int, max : Int, delivery : Int]
SkillState == [mastery : Int, confidence : Int, rank : {MustHave, Core, Peripheral}]

ASSUME CommandsAssumption == /\ Errored \notin Judgments /\ Stopped \notin Judgments
                             /\ MaxRetries \in Nat
                             /\ Judgments \subseteq Judgment

\* A Candidate's profile, and what the ledger carries for it (CandidateProfile.__post_init__).
ProfileOK(p) == /\ p.role \in DOMAIN RoleTable /\ p.companies \in Seq(DOMAIN CompanyTable)
                /\ DOMAIN p.claims \subseteq Skills /\ \A s \in DOMAIN p.claims : p.claims[s] \in 1..5
                /\ DOMAIN p.carried \subseteq Skills /\ \A s \in DOMAIN p.carried : p.carried[s] \in Int

\* A command line: the profile that is diagnosed, the bench's file and sweeps, the forge's
\* number of drafts, the final Skill states of the Session that is debriefed.
ASSUME OrdersAssumption ==
  \A o \in Orders : /\ o.command = "diagnose" => ProfileOK(o.profile)
                    /\ o.command = "bench" => o.cases \in Seq(BenchCase) /\ o.k \in Nat \ {0}
                    /\ o.command = "forge" => o.n \in Nat
                    /\ o.command = "postmortem" => /\ DOMAIN o.states \subseteq Skills
                                                   /\ \A s \in DOMAIN o.states : o.states[s] \in SkillState

\* The Diagnostic agent sends a list of items (DiagnosticPlanResponse), the Writer one of drafts.
ASSUME PlansAssumption == \A plan \in PlanReplies : plan \in Seq([skill : STRING, difficulty : 1..5])
ASSUME DraftsAssumption == \A batch \in DraftSets : batch \in Seq({batch[i] : i \in DOMAIN batch})

VARIABLES order, cfg,
          pc,         \* main, gate, run; pair, strong, weak in the admission gate; over
          online,     \* whether the command got a client
          attempt,    \* replies sent back
          tape,       \* bench and harness: the attempts, in the order they were made
          drafts, outcomes, seen, strong,    \* forge
          found,      \* the resources retrieved for the targets
          product,    \* what is printed: a diagnosis or a study plan
          filed,      \* where something was written: audits, logs, queue
          exit,       \* exit code, traceback, or none yet
          stopped,    \* history: an operator stop was raised
          judgedBy    \* history: the triples that answered a call of the judge

forging == <<drafts, outcomes, seen, strong>>
history == <<stopped, judgedBy>>
vars == <<order, cfg, pc, online, attempt, tape, forging, found, product, filed, exit, history>>

Init == /\ order \in Orders /\ cfg \in Configs
        /\ pc = "main" /\ online = FALSE /\ attempt = 0 /\ tape = << >>
        /\ drafts = << >> /\ outcomes = << >> /\ seen = {} /\ strong = None
        /\ found = {} /\ product = None /\ filed = "none" /\ exit = "none"
        /\ stopped = FALSE /\ judgedBy = {}

Ends(code) == pc' = "over" /\ exit' = code
Goes(to) == pc' = to /\ UNCHANGED exit
-----------------------------------------------------------------------------
(* The start of a command.                                                 *)

Offline == order.command = "diagnose" /\ order.offline
Preferred == order.command = "diagnose"
Configured == cfg.models[cfg.primary] # ""

\* main(): no client, or the bundle of role clients, or a refusal.
Main ==
  /\ pc = "main"
  /\ \/ /\ Offline \/ (~Configured /\ Preferred)
        /\ Goes("run") /\ UNCHANGED online
     \/ /\ ~Offline /\ ~Configured /\ ~Preferred
        /\ Ends("2") /\ UNCHANGED online
     \/ /\ ~Offline /\ Configured /\ ~Seatable(cfg)
        /\ Ends("traceback") /\ UNCHANGED online
     \/ /\ ~Offline /\ Configured /\ Seatable(cfg)
        /\ Goes("gate") /\ online' = TRUE
  /\ UNCHANGED <<order, cfg, attempt, tape, forging, found, product, filed, history>>

Sample == IF order.command = "bench" THEN Selected(order.cases, order.only) ELSE GoldenCases
Sweeps == IF order.command = "bench" THEN order.k ELSE 1

RoundedUp(a, b) == (a + b - 1) \div b
Needed == CASE order.command = "bench" -> RoundedUp(PerPass * order.k * Len(Sample),
                                                    Larger(1, Len(order.cases)))
            [] order.command = "forge" -> order.n * PerDraft
            [] OTHER -> Flat

\* _refuse_metered_start: the flag buys the arithmetic only, a client that is no provider all.
Refuses(ledger) ==
  /\ ledger.metered
  /\ ledger.fault \/ ledger.dead \/ (~order.ignoreBudget /\ ledger.left < Needed)

\* run_forge before its first call: a pack that does not load, a Skill without a note.
MayFailToLoad == order.command = "forge"

Gate ==
  /\ pc = "gate"
  /\ \/ /\ order.command = "bench" /\ UnknownNames(order.cases, order.only) # {}
        /\ Ends("2") /\ UNCHANGED found
     \/ /\ ~(order.command = "bench" /\ UnknownNames(order.cases, order.only) # {})
        /\ \E ledger \in Ledgers :
             \/ Refuses(ledger) /\ Ends("2") /\ UNCHANGED found
             \/ ~Refuses(ledger) /\ MayFailToLoad /\ Ends("traceback") /\ UNCHANGED found
             \/ /\ ~Refuses(ledger) /\ Goes("run")
                /\ IF order.command = "postmortem" THEN found' \in Retrievals(order.states)
                   ELSE UNCHANGED found
  /\ UNCHANGED <<order, cfg, online, attempt, tape, forging, product, filed, history>>
-----------------------------------------------------------------------------
(* A call. Every place that turns an error into a result lets the operator *)
(* stops through first, up to _dispatch.                                   *)

Swallowed(reply) == FALSE
Propagates(reply) == reply = Stopped

Dispatched == Ends("2") /\ stopped' = TRUE
              /\ UNCHANGED <<attempt, tape, forging, product, filed, judgedBy>>

\* The judge answers, or the attempt is an error of its own.
Judged(reply) == /\ stopped' = (stopped \/ reply = Stopped)
                 /\ IF reply \in Judgments THEN \E t \in JudgeAnswers(cfg) : judgedBy' = judgedBy \cup {t}
                    ELSE UNCHANGED judgedBy
Other(reply) == stopped' = (stopped \/ reply = Stopped) /\ UNCHANGED judgedBy

Attempted(reply) == IF reply \in Judgments THEN reply ELSE Errored

\* _evaluate_case and the harness's loop: sweep after sweep, case after case.
JudgeCase ==
  /\ pc = "run" /\ order.command \in {"bench", "harness"} /\ Len(tape) < Sweeps * Len(Sample)
  /\ \E reply \in Judgments \cup {Errored, Stopped} :
       \/ Propagates(reply) /\ Dispatched
       \/ /\ ~Propagates(reply) /\ Judged(reply)
          /\ tape' = Append(tape, Attempted(reply))
          /\ UNCHANGED <<pc, exit, attempt, forging, product, filed>>
  /\ UNCHANGED <<order, cfg, online, found>>

\* The attempts at each case, one of every sweep.
Attempts == [i \in DOMAIN Sample |->
               [sweep \in 1..Sweeps |-> tape[(sweep - 1) * Len(Sample) + i]]]

\* The report, then the verdict. A screen is filed with the logs.
Report ==
  /\ pc = "run" /\ order.command \in {"bench", "harness"} /\ Len(tape) = Sweeps * Len(Sample)
  /\ IF order.command = "bench"
     THEN /\ filed' = IF order.only = {} THEN "audits" ELSE "logs"
          /\ Ends(IF BenchPassed(Sample, Attempts) THEN "0" ELSE "1")
     ELSE /\ Ends(IF HarnessPassed(Sample, Attempts) THEN "0" ELSE "1")
          /\ UNCHANGED filed
  /\ UNCHANGED <<order, cfg, online, attempt, tape, forging, found, product, history>>
-----------------------------------------------------------------------------
(* The forge.                                                              *)

Write ==
  /\ pc = "run" /\ order.command = "forge" /\ drafts = << >>
  /\ \E reply \in DraftSets \cup {Errored, Stopped} :
       \/ Propagates(reply) /\ Dispatched
       \/ /\ ~Propagates(reply) /\ Other(reply)
          /\ \/ reply \in {Errored, Stopped} /\ Ends("traceback") /\ UNCHANGED <<attempt, drafts>>
             \/ /\ reply \in DraftSets /\ ValidDraftSet(reply)
                /\ drafts' = Truncated(reply, order.n) /\ UNCHANGED <<pc, exit, attempt>>
             \/ /\ reply \in DraftSets /\ ~ValidDraftSet(reply) /\ UNCHANGED drafts
                /\ IF attempt < MaxRetries THEN attempt' = attempt + 1 /\ UNCHANGED <<pc, exit>>
                   ELSE Ends("1") /\ UNCHANGED attempt
          /\ UNCHANGED <<tape, outcomes, seen, strong, product, filed>>
  /\ UNCHANGED <<order, cfg, online, found>>

Draft == drafts[Len(outcomes) + 1]
Enters(o) == outcomes' = Append(outcomes, o)

\* Gates 1 and 2: what a draft fails here costs nothing.
CheapGates ==
  /\ pc = "run" /\ order.command = "forge" /\ Len(outcomes) < Len(drafts)
  /\ seen' = SeenAfter(Draft, seen)
  /\ LET rejection == CheapRejection(Draft, seen)
     IN IF rejection = "none" THEN Goes("pair") /\ UNCHANGED outcomes
        ELSE Enters(Outcome(Draft, rejection, Errored, Errored)) /\ UNCHANGED <<pc, exit>>
  /\ UNCHANGED <<order, cfg, online, attempt, tape, drafts, strong, found, product, filed, history>>

\* Gate 3: the pair of answers, then what the judge makes of each.
AnswerPair ==
  /\ pc = "pair"
  /\ \E reply \in {"pair", Errored, Stopped} :
       \/ Propagates(reply) /\ Dispatched
       \/ /\ ~Propagates(reply) /\ Other(reply)
          /\ IF reply = "pair" THEN Goes("strong") /\ UNCHANGED outcomes
             ELSE Goes("run") /\ Enters(Outcome(Draft, "admission", Errored, Errored))
          /\ UNCHANGED <<attempt, tape, drafts, seen, strong, product, filed>>
  /\ UNCHANGED <<order, cfg, online, found>>

JudgeAnswer ==
  /\ pc \in {"strong", "weak"}
  /\ \E reply \in Judgments \cup {Errored, Stopped} :
       \/ Propagates(reply) /\ Dispatched
       \/ /\ ~Propagates(reply) /\ Judged(reply)
          /\ IF pc = "strong"
             THEN Goes("weak") /\ strong' = Attempted(reply) /\ UNCHANGED outcomes
             ELSE /\ Goes("run") /\ strong' = None
                  /\ Enters(Outcome(Draft, IF Admits(strong, Attempted(reply)) THEN "none" ELSE "admission",
                                    strong, Attempted(reply)))
          /\ UNCHANGED <<attempt, tape, drafts, seen, product, filed>>
  /\ UNCHANGED <<order, cfg, online, found>>

\* Written once, when every draft has its outcome; none admitted is a result too.
WriteQueue ==
  /\ pc = "run" /\ order.command = "forge" /\ drafts # << >> /\ Len(outcomes) = Len(drafts)
  /\ filed' = "queue" /\ Ends("0")
  /\ UNCHANGED <<order, cfg, online, attempt, tape, forging, found, product, history>>
-----------------------------------------------------------------------------
(* The Diagnostic, and the study plan.                                     *)

Diagnosis(plan) == [priors |-> Priors(order.profile), plan |-> plan]
Deterministic == LET priors == Priors(order.profile)
                 IN [i \in DOMAIN Alphabet |-> LET s == OrderedSkills(priors)[i]
                      IN [skill |-> s, difficulty |-> TargetDifficulty(Mastery(priors[s]))]]
SkillsOf(plan) == [i \in DOMAIN plan |-> plan[i].skill]
Prints(p) == product' = p /\ Ends("0")

\* diagnose_or_degrade: the agent's plan, or the deterministic one when that fails.
Diagnose ==
  /\ pc = "run" /\ order.command = "diagnose"
  /\ \/ /\ ~online /\ Prints(Diagnosis(Deterministic)) /\ UNCHANGED <<attempt, history>>
     \/ /\ online
        /\ \E reply \in PlanReplies \cup {Errored, Stopped} :
             \/ Propagates(reply) /\ Dispatched
             \/ /\ ~Propagates(reply) /\ Other(reply)
                /\ IF reply \in {Errored, Stopped}
                   THEN Prints(Diagnosis(Deterministic)) /\ UNCHANGED attempt
                   ELSE IF ValidPlan(SkillsOf(reply))
                   THEN Prints(Diagnosis(reply)) /\ UNCHANGED attempt
                   ELSE IF attempt < MaxRetries
                   THEN attempt' = attempt + 1 /\ UNCHANGED <<pc, exit, product>>
                   ELSE Prints(Diagnosis(Deterministic)) /\ UNCHANGED attempt
  /\ UNCHANGED <<order, cfg, online, tape, forging, found, filed>>

\* plan_study: a plan that passed the validators, or a line of the report saying why not.
PlanStudy ==
  /\ pc = "run" /\ order.command = "postmortem"
  /\ \E reply \in StudyDrafts(Targets(order.states)) \cup {Errored, Stopped} :
       \/ Propagates(reply) /\ Dispatched
       \/ /\ ~Propagates(reply) /\ Other(reply)
          /\ IF reply \in {Errored, Stopped} THEN Ends("0") /\ UNCHANGED <<attempt, product>>
             ELSE IF ValidStudyPlan(reply, order.states, found)
             THEN Prints(Materialize(reply)) /\ UNCHANGED attempt
             ELSE IF attempt < MaxRetries
             THEN attempt' = attempt + 1 /\ UNCHANGED <<pc, exit, product>>
             ELSE Ends("0") /\ UNCHANGED <<attempt, product>>
          /\ UNCHANGED <<tape, forging, filed>>
  /\ UNCHANGED <<order, cfg, online, found>>

Next == \/ Main \/ Gate \/ JudgeCase \/ Report
        \/ Write \/ CheapGates \/ AnswerPair \/ JudgeAnswer \/ WriteQueue
        \/ Diagnose \/ PlanStudy

Spec == Init /\ [][Next]_vars
-----------------------------------------------------------------------------
(* Properties.                                                             *)

\* A dead quota or refused accounting ends the command with exit 2, and a command that ended
\* so has filed no audit, log or queue and printed no diagnosis or study plan: infrastructure
\* never becomes an error row of the bench's report, a rejected draft, or a degraded plan
\* (bench.py _evaluate_case, forge.py admission_gate, diagnostic.py diagnose_or_degrade, cli.py
\* _dispatch). A post-mortem stopped in plan_study ends so too, after the fusion it had saved in
\* the Skill ledger (postmortem.py:202, 218-222), which is PostMortem's and stays. What is filed
\* with the audits measured every case of the file in every sweep, unless --out placed it.
OnlyWholeRunsAreFiled ==
  /\ stopped => exit = "2"
  /\ exit = "2" => filed = "none" /\ product = None
  /\ filed = "audits" => Len(tape) = order.k * Len(order.cases)

\* The bench's exit code, said without a sort: green exactly when something was run and, for
\* every case, some run succeeded, more than half of those are not above its band, at least half
\* are not below it, and one in the band is close enough to the delivery label. What a red gate
\* says of a case is never the work of the runs that errored beside a success
\* (bench.py _aggregate, bench_passed; cli.py _cmd_bench).
GateVerdict ==
  (order.command = "bench" /\ exit \in {"0", "1"}) =>
    LET Runs(i) == Successes(Attempts[i])
        Score(i, j) == Attempts[i][j].score
        Sound(i) == /\ 2 * Cardinality({j \in Runs(i) : Score(i, j) <= Sample[i].max}) > Cardinality(Runs(i))
                    /\ 2 * Cardinality({j \in Runs(i) : Score(i, j) >= Sample[i].min}) >= Cardinality(Runs(i))
        Delivers(i, j) == DeliveryWithin(Sample[i], Attempts[i][j])
    IN /\ exit = "0" => /\ Sample # << >>
                        /\ \A i \in DOMAIN Sample :
                             Sound(i) /\ \E j \in Runs(i) : InBand(Sample[i], Score(i, j)) /\ Delivers(i, j)
       /\ exit = "1" => \/ Sample = << >>
                        \/ \E i \in DOMAIN Sample : ~Sound(i) \/ \E j \in Runs(i) : ~Delivers(i, j)

\* A green bench that prints no REPEATABILITY warning is unanimous: no run of any case errored
\* or fell outside its band. A case with one surviving run has no spread, and still warns
\* (bench.py repeatability_rows, repeatability_warnings).
SilentGreenIsUnanimous ==
  (order.command = "bench" /\ exit = "0" /\ Warned(Sample, Attempts) = {}) =>
    \A i \in DOMAIN Sample : \A sweep \in 1..Sweeps :
      Attempts[i][sweep] # Errored /\ InBand(Sample[i], Attempts[i][sweep].score)

\* What the forge queues for a human to merge: no more than was asked for, no prompt twice, no
\* near-duplicate of the bank, nothing the bank would refuse, and the judge told the strong
\* answer from the weak one; no answer was paid for before the free gates; and the survivors the
\* report counts by subtraction are the rows of the queue (forge.py run_forge, gate_yield,
\* render_review_queue).
QueueIsEarned ==
  filed = "queue" =>
    LET queue == Queue(outcomes)
    IN /\ Len(outcomes) <= order.n
       /\ \A i, j \in queue : outcomes[i].draft.prompt = outcomes[j].draft.prompt => i = j
       /\ \A i \in queue : outcomes[i].strong.score >= 35 /\ outcomes[i].weak.score <= 30
       /\ \A i \in DOMAIN outcomes :
            LET o == outcomes[i]
            IN o.rejection \in {"none", "admission"} =>
                 o.draft.sound /\ o.draft.seeded /\ o.draft.prompt \notin Near
       /\ GateYield(outcomes).admission = Cardinality(queue)

\* What a row of the table says of a Skill: nothing unless the profile speaks of its source.
Hint(p, s, c) == IF c.to = s /\ c.from \in Informed(p)
                 THEN ((Told(p)[c.from] - Neutral) * c.percent) \div 100
                 ELSE 0
FirstHand(p, s) ==
  LET hinted[n \in 0..Len(Correlations)] ==
        IF n = 0 THEN Neutral ELSE hinted[n - 1] + Hint(p, s, Correlations[n])
  IN IF s \in Informed(p) THEN Told(p)[s] ELSE hinted[Len(Correlations)]

\* The prior means are what the Candidate brought and nothing else: the ledger's, then the
\* claims, and for a Skill nobody spoke of the first-hand hints alone, though the correlation
\* table is walked in place; the role and the companies move no mean, and at the most extreme
\* mean the Beta is still legal. The plan asks of each Skill once, whichever path made it
\* (diagnostic.py _initial_mastery_means, _seed_prior, diagnose_or_degrade). The ledger's means
\* come with the start of a Session, which diagnoses as the command does; `coach diagnose`
\* alone carries none.
SeedsComeFromTheCandidate ==
  (order.command = "diagnose" /\ product # None) =>
    /\ \A s \in Skills : LET prior == product.priors[s]
                         IN /\ prior.alpha > 0 /\ prior.beta > 0
                            /\ Mastery(prior) = FirstHand(order.profile, s)
    /\ \A s \in Skills : Cardinality({i \in DOMAIN product.plan : product.plan[i].skill = s}) = 1

\* Every score of a run comes from one judge, and from a measured one unless the operator asked
\* for another: neither an override, nor a proxy in front of a measured model, nor a failover
\* puts a judge nobody benched behind a score (config.py _require_bench_validated_judge, llm.py
\* build_role_clients).
JudgeIsMeasured == /\ Cardinality(judgedBy) <= 1
                   /\ ~cfg.allow => judgedBy \subseteq Validated

Worse(x, y) == /\ x.rank <= y.rank /\ x.mastery <= y.mastery /\ x.confidence <= y.confidence
               /\ x # y

\* A study plan passes nobody over: a Skill the role needs no less, known no better and no more
\* surely than one in the plan is in it too, and earlier; and every topic cites a resource of
\* its own Skill (study_planner.py rank_study_targets, _make_study_plan_validators).
NobodyWeakerPassedOver ==
  (order.command = "postmortem" /\ product # None) =>
    /\ \A i \in DOMAIN product.topics, s \in DOMAIN order.states :
         Worse(order.states[s], order.states[product.topics[i].skill]) =>
            \E j \in 1..(i - 1) : product.topics[j].skill = s
    /\ \A i \in DOMAIN product.topics :
         \E id \in product.topics[i].cites : Catalog[id] = product.topics[i].skill
=============================================================================
