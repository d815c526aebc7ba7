----------------------------- MODULE Diagnostic -----------------------------
(***************************************************************************)
(* The Diagnostic (diagnostic.py): from a Candidate's profile, a weak Beta *)
(* prior for every Skill and the Topic Plan a Session starts from. Pure    *)
(* operators: OperatorCommands and a Session's start call them.            *)
(*                                                                         *)
(* A mean is a whole number of 1/Unit, fine enough for every nudge of the  *)
(* correlation table to be exact; a prior's strength is in hundredths.     *)
(***************************************************************************)
EXTENDS Integers, Sequences, SequencesExt

Unit == 2000
Neutral == Unit \div 2

Smaller(a, b) == IF a < b THEN a ELSE b
Larger(a, b) == IF a > b THEN a ELSE b

\* SKILLS in the order of their names, which is how ties are broken.
Alphabet == <<"deep_learning", "ml_fundamentals", "mlops", "system_design", "vietnamese_nlp">>
Skills == ToSet(Alphabet)
Place(s) == CHOOSE i \in DOMAIN Alphabet : Alphabet[i] = s
-----------------------------------------------------------------------------
(* How much a role wants of a Skill: the ordering rank of its criticality. *)

MustHave == 0
Core == 1
Peripheral == 2

\* 100 * (1 - target_confidence), by rank.
VariancePercent == [rank \in {MustHave, Core, Peripheral} |-> IF rank = MustHave THEN 100
                                                              ELSE IF rank = Core THEN 85
                                                              ELSE 70]

RoleTable ==
  [engineer  |-> [deep_learning |-> Core, ml_fundamentals |-> MustHave, mlops |-> MustHave,
                  system_design |-> Core, vietnamese_nlp |-> Peripheral],
   scientist |-> [deep_learning |-> MustHave, ml_fundamentals |-> MustHave, mlops |-> Peripheral,
                  system_design |-> Core, vietnamese_nlp |-> Peripheral],
   other     |-> [s \in Skills |-> Peripheral]]

CompanyTable ==
  [zalo    |-> [vietnamese_nlp |-> Core],
   viettel |-> [vietnamese_nlp |-> Core, mlops |-> Core],
   other   |-> << >>]

\* A company asks more of a Skill than the role does, never less.
RoleCriticality(role, companies) ==
  LET Asking(s) == {c \in ToSet(companies) : s \in DOMAIN CompanyTable[c]}
  IN [s \in Skills |-> Min({RoleTable[role][s]} \cup {CompanyTable[c][s] : c \in Asking(s)})]
-----------------------------------------------------------------------------
(* The means.                                                              *)

ClampMean(m) == Larger(Unit \div 20, Smaller(Unit - (Unit \div 20), m))

SelfAssessmentToMean(claim) == (Unit \div 5) + (claim - 1) * ((3 * Unit) \div 20)

Informed(p) == DOMAIN p.claims \cup DOMAIN p.carried

\* What the profile says itself: past evidence before a claim, a claim before nothing.
Told(p) == [s \in Skills |-> IF s \in DOMAIN p.carried THEN ClampMean(p.carried[s])
                             ELSE IF s \in DOMAIN p.claims THEN SelfAssessmentToMean(p.claims[s])
                             ELSE Neutral]

Correlation(from, to, percent) == [from |-> from, to |-> to, percent |-> percent]
Correlations == << Correlation("ml_fundamentals", "deep_learning", 16),
                   Correlation("deep_learning", "ml_fundamentals", 12),
                   Correlation("system_design", "mlops", 10),
                   Correlation("mlops", "system_design", 10),
                   Correlation("vietnamese_nlp", "ml_fundamentals", 5),
                   Correlation("vietnamese_nlp", "deep_learning", 5) >>

MayNudge(p, c) == c.to \notin Informed(p)

\* The table is walked once, in its order: a mean it has moved is what a later row reads.
Nudge(p, means, c) ==
  IF MayNudge(p, c)
  THEN [means EXCEPT ![c.to] = ClampMean(@ + (((means[c.from] - Neutral) * c.percent) \div 100))]
  ELSE means

InitialMeans(p) ==
  LET walked[n \in 0..Len(Correlations)] ==
        IF n = 0 THEN Told(p) ELSE Nudge(p, walked[n - 1], Correlations[n])
  IN walked[Len(Correlations)]
-----------------------------------------------------------------------------
(* The prior.                                                              *)

MinStrength == 50

\* The pseudo-count whose Beta has the criticality's share of the neutral variance, 1/12.
TargetStrength(mean, rank) ==
  ((1200 * mean * (Unit - mean)) \div (((Unit * Unit) \div 100) * VariancePercent[rank])) - 100

Beta(mean, strength, rank) ==
  [alpha |-> mean * strength, beta |-> (Unit - mean) * strength, rank |-> rank]

SeedPriorInReach(mean, rank) ==
  LET reach == {m \in 1..(Unit - 1) : TargetStrength(m, rank) >= MinStrength}
      near == CHOOSE m \in reach : \A n \in reach : (m - mean) * (m - mean) <= (n - mean) * (n - mean)
  IN Beta(near, TargetStrength(near, rank), rank)
\* A mean too extreme for any Beta to be that wide keeps its place: the strength has a floor.
SeedPrior(mean, rank) == Beta(mean, Larger(MinStrength, TargetStrength(mean, rank)), rank)

Mastery(prior) == (prior.alpha * Unit) \div (prior.alpha + prior.beta)

Priors(p) == LET means == InitialMeans(p)
                 ranks == RoleCriticality(p.role, p.companies)
             IN [s \in Skills |-> SeedPrior(means[s], ranks[s])]
-----------------------------------------------------------------------------
(* The Topic Plan.                                                         *)

Distance(m) == Larger(m - Neutral, Neutral - m)

\* What the role needs most, then what the profile says most about, then the name.
AskedBefore(priors, s, t) ==
  LET x == priors[s]
      y == priors[t]
      dx == Distance(Mastery(x))
      dy == Distance(Mastery(y))
  IN \/ x.rank < y.rank
     \/ x.rank = y.rank /\ dx > dy
     \/ x.rank = y.rank /\ dx = dy /\ Place(s) < Place(t)

\* sorted(): every Skill stands behind those that are asked before it.
Preceding(priors, s) == Cardinality({t \in Skills : AskedBefore(priors, t, s)})
OrderedSkills(priors) == [i \in DOMAIN Alphabet |-> CHOOSE s \in Skills : Preceding(priors, s) = i - 1]

\* round() on 1 + 4m: a half goes to the even neighbour.
Rounded(x) == LET floor == x \div Unit
                  twice == 2 * (x % Unit)
              IN IF twice > Unit \/ (twice = Unit /\ floor % 2 = 1) THEN floor + 1 ELSE floor
TargetDifficulty(mean) == Larger(1, Smaller(5, Rounded(Unit + 4 * mean)))

\* check_plan: what a reply of the agent must be to become the plan.
ValidPlan(plan) == ToSet(plan) = Skills /\ Len(plan) = Len(Alphabet)
=============================================================================
