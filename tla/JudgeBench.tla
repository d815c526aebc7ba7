----------------------------- MODULE JudgeBench -----------------------------
(***************************************************************************)
(* Who may judge, and how a judge is measured: the seating of the judge    *)
(* role (config.py role_config, llm.py build_role_clients) and the         *)
(* calibration bench with the golden-answer harness (bench.py,             *)
(* eval_harness.py). Pure operators.                                       *)
(*                                                                         *)
(* A judge is the triple of provider, model and endpoint. A judgment is    *)
(* its weighted score in tenths and its english_delivery score, 0 when the *)
(* dimension was not scored; an attempt that failed is Errored.            *)
(***************************************************************************)
EXTENDS Integers, Sequences, FiniteSets, SequencesExt

CONSTANTS Provider,      \* PROVIDER_NAMES
          Validated,     \* BENCH_VALIDATED_JUDGES
          Errored        \* an attempt that is no judgment

ASSUME SeatAssumption == \A t \in Validated : t.provider \in Provider /\ t.model # ""
-----------------------------------------------------------------------------
(* The seat. Settings: primary, models and urls by provider, the judge's   *)
(* overrides ("" for none), the temperature and the allow flag.            *)

Triple(p, model, url) == [provider |-> p, model |-> model, url |-> url]

JudgeProvider(cfg) == IF cfg.judgeProvider = "" THEN cfg.primary ELSE cfg.judgeProvider

\* role_config("judge"): the overrides applied.
JudgeTriple(cfg) ==
  LET p == JudgeProvider(cfg)
  IN Triple(p, IF cfg.judgeModel = "" THEN cfg.models[p] ELSE cfg.judgeModel, cfg.urls[p])

\* _require_bench_validated_judge. A model that is not set is left to the configured check.
Measured(t) == /\ t.provider \in {v.provider : v \in Validated}
               /\ t.model # "" => t \in Validated
MaySeat(cfg, t) == cfg.allow \/ Measured(t)

\* What building the bundle of role clients ends in: a judge pinned to one triple, or a refusal.
Seatable(cfg) == /\ JudgeProvider(cfg) \in Provider
                 /\ MaySeat(cfg, JudgeTriple(cfg))
                 /\ JudgeTriple(cfg).model # ""

\* Every other role shares the router, which answers from either side.
RouterTriples(cfg) == {Triple(p, cfg.models[p], cfg.urls[p]) :
                         p \in {q \in Provider : cfg.models[q] # ""}}
JudgeAnswersFromRouter(cfg) == RouterTriples(cfg)
\* The judge is never the router: its own client answers, whatever happens to the provider.
JudgeAnswers(cfg) == {JudgeTriple(cfg)}
-----------------------------------------------------------------------------
(* The bench. A case: its names, the band of its score, the human label of *)
(* english_delivery or 0.                                                  *)

\* The cases that are named, in the order of the file.
Selected(cases, only) ==
  LET named == {i \in DOMAIN cases : cases[i].id \in only \/ cases[i].pair \in only}
      Nth(n) == CHOOSE i \in named : Cardinality({j \in named : j < i}) = n - 1
  IN IF only = {} THEN cases ELSE [n \in 1..Cardinality(named) |-> cases[Nth(n)]]
UnknownNames(cases, only) == only \ UNION {{c.id, c.pair} : c \in ToSet(cases)}

\* Which of a case's attempts are judgments.
Successes(attempts) == {i \in DOMAIN attempts : attempts[i] # Errored}
InBand(c, score) == c.min <= score /\ score <= c.max

\* sorted() by score: the runs of one score keep the order they were made in.
SortsBefore(attempts, j, i) == \/ attempts[j].score < attempts[i].score
                               \/ attempts[j].score = attempts[i].score /\ j < i
Unsorted(attempts, i) == Cardinality({j \in Successes(attempts) : j < i})
SortedPlace(attempts, i) == Cardinality({j \in Successes(attempts) : SortsBefore(attempts, j, i)})
\* The middle one of the sorted runs, the upper one of two.
Middle(attempts) == CHOOSE i \in Successes(attempts) :
                      SortedPlace(attempts, i) = Cardinality(Successes(attempts)) \div 2
Representative(attempts) == attempts[Middle(attempts)]

DeliveryTolerance == 1
DeliveryWithin(c, run) ==
  c.delivery = 0 \/ (run.delivery # 0 /\ run.delivery - c.delivery \in (0 - DeliveryTolerance)..DeliveryTolerance)

\* A case's runs collapsed: errors are dropped, unless nothing else is left.
CasePasses(c, attempts) ==
  /\ Successes(attempts) # {}
  /\ InBand(c, Representative(attempts).score) /\ DeliveryWithin(c, Representative(attempts))

\* What the bench says of each case of a run; bench_passed wants at least one.
BenchPassed(cases, attempts) ==
  cases # << >> /\ \A i \in DOMAIN cases : CasePasses(cases[i], attempts[i])

Straddles(c, attempts) == LET inside == {i \in Successes(attempts) : InBand(c, attempts[i].score)}
                          IN inside # {} /\ inside # Successes(attempts)
Spread(attempts) == \E i, j \in Successes(attempts) : attempts[i].score # attempts[j].score

ShakyBySpread(c, attempts) == Spread(attempts) /\ Straddles(c, attempts)
\* repeatability_rows and _warnings: a case whose runs straddle its band, or partly failed.
Shaky(c, attempts) == /\ Successes(attempts) # {}
                      /\ Successes(attempts) # DOMAIN attempts \/ Straddles(c, attempts)
Warned(cases, attempts) == {i \in DOMAIN cases : Shaky(cases[i], attempts[i])}
-----------------------------------------------------------------------------
(* The golden-answer harness: one run of each case, an error fails it.     *)

HarnessPasses(c, attempt) == attempt # Errored /\ InBand(c, attempt.score)
HarnessPassed(cases, attempts) ==
  cases # << >> /\ \A i \in DOMAIN cases : HarnessPasses(cases[i], attempts[i][1])
=============================================================================
