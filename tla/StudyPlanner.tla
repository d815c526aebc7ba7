---------------------------- MODULE StudyPlanner ----------------------------
(***************************************************************************)
(* The Study Planner (study_planner.py): from the final Skill states, the  *)
(* Skills most worth studying; from the resource catalog, what each may    *)
(* cite; and what the model's draft must be to become the plan. Pure       *)
(* operators. Skills, ranks and the scale of a mean are the Diagnostic's.   *)
(***************************************************************************)
EXTENDS Diagnostic, FiniteSets

CONSTANTS TopicCount,       \* DEFAULT_STUDY_TOPICS
          Catalog,          \* [id -> Skill]: what the resource store holds
          PerTopic,         \* DEFAULT_RESOURCES_PER_TOPIC
          Days,             \* length of the schedule, 14
          MaxResourceless   \* MAX_RESOURCELESS_SCHEDULE_DAYS

ASSUME StudyAssumption == /\ TopicCount \in Nat \ {0} /\ PerTopic \in Nat \ {0}
                          /\ Days \in Nat \ {0} /\ MaxResourceless \in Nat
                          /\ \A id \in DOMAIN Catalog : Catalog[id] \in Skills

CriticalityBonus == [rank \in {MustHave, Core, Peripheral} |-> IF rank = MustHave THEN (5 * Unit) \div 2
                                                               ELSE IF rank = Core THEN (6 * Unit) \div 5
                                                               ELSE 0]

PriorityCertain(t) == 10 * (Unit - t.mastery) + CriticalityBonus[t.rank] + t.confidence
\* Tenfold, weakness + bonus + 0.1 * uncertainty.
Priority(t) == 10 * (Unit - t.mastery) + CriticalityBonus[t.rank] + (Unit - t.confidence)

StudiedBefore(states, s, t) ==
  LET x == states[s]
      y == states[t]
  IN \/ Priority(x) > Priority(y)
     \/ /\ Priority(x) = Priority(y)
        /\ \/ x.rank < y.rank
           \/ x.rank = y.rank /\ x.mastery < y.mastery
           \/ x.rank = y.rank /\ x.mastery = y.mastery /\ Place(s) < Place(t)

\* sorted(): every Skill stands behind those that are studied before it.
Ahead(states, s) == Cardinality({t \in DOMAIN states : StudiedBefore(states, t, s)})
RankStudyTargets(states) ==
  [i \in 1..Cardinality(DOMAIN states) |-> CHOOSE s \in DOMAIN states : Ahead(states, s) = i - 1]

Targets(states) == LET ranked == RankStudyTargets(states)
                   IN SubSeq(ranked, 1, Smaller(TopicCount, Len(ranked)))

\* A search is filtered by Skill before it is ranked; the catalog of a plan is the union of
\* what the searches for its targets found, at most PerTopic each (which ones is external).
OfSkill(ids, s) == {id \in ids : Catalog[id] = s}
Retrievals(states) ==
  {found \in SUBSET DOMAIN Catalog :
     /\ \A id \in found : Catalog[id] \in ToSet(Targets(states))
     /\ \A s \in ToSet(Targets(states)) :
          Cardinality(OfSkill(found, s)) = Smaller(PerTopic, Cardinality(OfSkill(DOMAIN Catalog, s)))}

CitesItsOwn(topic, found) == /\ topic.cites # {} /\ topic.cites \subseteq found
                             /\ \A id \in topic.cites : Catalog[id] = topic.skill

\* A schedule is a sequence of [day, cites, review], in any order: review says whether the
\* text names the day a review, a consolidation or the like.
ValidSchedule(schedule, found) ==
  LET bare == {i \in DOMAIN schedule : schedule[i].cites = {}}
  IN /\ Len(schedule) = Days /\ {schedule[i].day : i \in DOMAIN schedule} = 1..Days
     /\ Cardinality(bare) <= MaxResourceless
     /\ \A i \in bare : schedule[i].review
     /\ \A i \in DOMAIN schedule : schedule[i].cites \subseteq found

\* The validators of chat_json: a draft that fails one is sent back.
ValidStudyPlan(draft, states, found) ==
  /\ [i \in DOMAIN draft.topics |-> draft.topics[i].skill] = Targets(states)
  /\ \A i \in DOMAIN draft.topics : /\ draft.topics[i].priority = i
                                    /\ CitesItsOwn(draft.topics[i], found)
  /\ ValidSchedule(draft.schedule, found)

\* The plan that is kept: the draft, its days in order.
EarlierDay(a, b) == a.day < b.day
Materialize(draft) == [topics |-> draft.topics, schedule |-> SortSeq(draft.schedule, EarlierDay)]
=============================================================================
