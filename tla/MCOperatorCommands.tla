------------------------- MODULE MCOperatorCommands -------------------------
(* OperatorCommands on two bench cases, one with a delivery label, swept   *)
(* once or three times; batches of up to two drafts from a Writer that may *)
(* send three; every combination of three claims at both ends of the scale *)
(* with a carried mean at the clamp; and two Skills compared over every    *)
(* rank, two masteries and two confidences.                                *)
EXTENDS OperatorCommands

Providers == {"openai", "groq"}
Benched == {Triple("openai", "mini", "api")}

Config(primary, jp, jm, models, proxy, allow) ==
  [primary |-> primary, judgeProvider |-> jp, judgeModel |-> jm, models |-> models,
   urls |-> [p \in Providers |-> IF proxy THEN "proxy" ELSE "api"], allow |-> allow]
Both == [openai |-> "mini", groq |-> "llama"]
OnlyGroq == [openai |-> "", groq |-> "llama"]
Settings ==
  {Config("openai", "", "", Both, FALSE, FALSE), Config("openai", "", "other", Both, FALSE, FALSE),
   Config("openai", "", "", Both, TRUE, FALSE), Config("openai", "grok", "", Both, FALSE, FALSE),
   Config("groq", "", "", Both, FALSE, FALSE), Config("groq", "openai", "", Both, FALSE, FALSE),
   Config("groq", "openai", "", OnlyGroq, FALSE, FALSE), Config("openai", "", "", OnlyGroq, FALSE, FALSE),
   Config("groq", "", "", Both, FALSE, TRUE)}

Judgements == {[score |-> 30, delivery |-> 3], [score |-> 34, delivery |-> 2],
               [score |-> 38, delivery |-> 3], [score |-> 38, delivery |-> 0]}
BenchCases == <<[id |-> "weak", pair |-> "p", min |-> 10, max |-> 32, delivery |-> 0],
                [id |-> "mixed", pair |-> "q", min |-> 33, max |-> 50, delivery |-> 4]>>
Golden == <<[id |-> "empty", min |-> 10, max |-> 32], [id |-> "strong", min |-> 32, max |-> 50]>>

Books == [metered : {TRUE}, fault : BOOLEAN, dead : {FALSE}, left : {0, 3, 6}]
           \cup {[metered |-> TRUE, fault |-> FALSE, dead |-> TRUE, left |-> 6],
                 [metered |-> FALSE, fault |-> TRUE, dead |-> FALSE, left |-> 0]}

Benches == [command : {"bench"}, cases : {BenchCases, << >>}, k : {1, 3}, only : {{}, {"q"}},
            ignoreBudget : BOOLEAN]
           \cup [command : {"bench"}, cases : {BenchCases}, k : {1}, only : {{"typo"}},
                 ignoreBudget : {FALSE}]
Harnesses == [command : {"harness"}, ignoreBudget : {FALSE}]
Forges == [command : {"forge"}, n : {1, 2}, ignoreBudget : BOOLEAN]

Claims == UNION {[C -> {1, 5}] : C \in SUBSET {"ml_fundamentals", "system_design", "vietnamese_nlp"}}
Carried == {<< >>, [deep_learning |-> 1900], [deep_learning |-> 60, mlops |-> 1400]}
Profile == [role : {"engineer", "scientist", "other"},
            companies : {<< >>, <<"viettel", "other", "zalo">>}, claims : Claims, carried : Carried]
Diagnoses == [command : {"diagnose"}, ignoreBudget : {FALSE}, offline : BOOLEAN, profile : Profile]

State == [mastery : {600, 1400}, confidence : {500, 1500}, rank : {MustHave, Core, Peripheral}]
Studied == {[mlops |-> x, system_design |-> y,
             ml_fundamentals |-> [mastery |-> 1000, confidence |-> 1000, rank |-> Core]] :
              x \in State, y \in State}
Debriefs == [command : {"postmortem"}, ignoreBudget : {FALSE}, states : Studied]

Commands == Benches \cup Harnesses \cup Forges \cup Diagnoses \cup Debriefs

Item(s) == [skill |-> s, difficulty |-> 3]
Plans == {<<Item("mlops"), Item("deep_learning"), Item("ml_fundamentals"), Item("vietnamese_nlp"),
            Item("system_design")>>,
          <<Item("mlops"), Item("mlops"), Item("ml_fundamentals"), Item("vietnamese_nlp"),
            Item("system_design")>>,
          <<Item("mlops"), Item("deep_learning"), Item("ml_fundamentals"), Item("system_design")>>}

Sketch(prompt, sound, seeded) == [prompt |-> prompt, sound |-> sound, seeded |-> seeded]
Sketches == {Sketch("p", TRUE, TRUE), Sketch("q", TRUE, TRUE), Sketch("p", TRUE, FALSE),
             Sketch("copy", TRUE, TRUE), Sketch("q", FALSE, TRUE)}
Batches == {<< >>} \cup {<<a>> : a \in Sketches} \cup {<<a, b>> : a, b \in Sketches}
             \cup {<<a, a, b>> : a, b \in Sketches}

Shelf == [notes |-> "mlops", course |-> "mlops", book |-> "system_design", paper |-> "ml_fundamentals"]
Day(d, cites, review) == [day |-> d, cites |-> cites, review |-> review]
Schedules == {<<Day(2, {"notes"}, FALSE), Day(1, {}, TRUE)>>, <<Day(1, {}, TRUE), Day(2, {}, TRUE)>>,
              <<Day(1, {"book"}, FALSE), Day(2, {}, FALSE)>>, <<Day(1, {}, TRUE), Day(1, {"book"}, FALSE)>>}
Topic(s, i, cites) == [skill |-> s, priority |-> i, cites |-> cites]
StudyReplies(targets) ==
  {[topics |-> <<Topic(s, 1, a), Topic(t, 2, b)>>, schedule |-> d] :
     s \in ToSet(targets), t \in ToSet(targets), d \in Schedules,
     a \in {{}, {"notes"}, {"book"}, {"paper"}}, b \in {{"notes"}, {"book"}, {"paper", "book"}, {"paper"}}}
=============================================================================
