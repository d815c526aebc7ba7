------------------------ MODULE OperatorCommands_proofs ------------------------
(***************************************************************************)
(* What a metered command may leave behind, and who may score in it, for   *)
(* every order, setting, ledger and reply.                                 *)
(***************************************************************************)
EXTENDS OperatorCommands, FiniteSetTheorems, TLAPS

\* Nothing is written, printed or stopped before the end; the whole of what was asked is.
Ending == /\ pc # "over" => filed = "none" /\ product = None /\ exit = "none" /\ ~stopped
          /\ OnlyWholeRunsAreFiled

LEMMA EndingInit == Init => Ending
BY DEF Init, Ending, OnlyWholeRunsAreFiled

\* A call that was stopped ends the command where it stands.
LEMMA EndingDispatched ==
  ASSUME Ending, pc # "over", Dispatched
  PROVE  Ending'
BY DEF Ending, OnlyWholeRunsAreFiled, Dispatched, Ends

LEMMA EndingStart == Ending /\ (Main \/ Gate) /\ order' = order => Ending'
BY DEF Ending, OnlyWholeRunsAreFiled, Main, Gate, Ends, Goes, history, forging

LEMMA EndingJudgeCase == Ending /\ JudgeCase => Ending'
<1> SUFFICES ASSUME Ending, JudgeCase PROVE Ending'
  OBVIOUS
<1>0. pc # "over" /\ order' = order
  BY DEF JudgeCase
<1>1. PICK reply \in Judgments \cup {Errored, Stopped} :
        \/ Propagates(reply) /\ Dispatched
        \/ /\ ~Propagates(reply) /\ Judged(reply)
           /\ UNCHANGED <<pc, exit, product, filed>>
  BY DEF JudgeCase
<1>2. CASE Propagates(reply) /\ Dispatched
  BY <1>0, <1>2, EndingDispatched
<1>3. CASE ~Propagates(reply) /\ Judged(reply) /\ UNCHANGED <<pc, exit, product, filed>>
  BY <1>0, <1>3 DEF Ending, OnlyWholeRunsAreFiled, Propagates, Judged
<1> QED BY <1>1, <1>2, <1>3

\* The only step that files with the audits, once the sample has been swept.
LEMMA EndingReport == Ending /\ Report => Ending'
<1> SUFFICES ASSUME Ending, Report PROVE Ending'
  OBVIOUS
<1>1. filed' = "audits" => Len(tape) = order.k * Len(order.cases)
  BY DEF Report, Ending, Sweeps, Sample, Selected
<1> QED BY <1>1 DEF Ending, OnlyWholeRunsAreFiled, Report, Ends, history

LEMMA EndingForge == Ending /\ (CheapGates \/ WriteQueue) => Ending'
BY DEF Ending, OnlyWholeRunsAreFiled, CheapGates, WriteQueue, Ends, Goes, Enters, history, forging

LEMMA EndingWrite == Ending /\ Write => Ending'
<1> SUFFICES ASSUME Ending, Write PROVE Ending'
  OBVIOUS
<1>0. pc # "over" /\ order' = order
  BY DEF Write
<1>1. PICK reply \in DraftSets \cup {Errored, Stopped} :
        \/ Propagates(reply) /\ Dispatched
        \/ /\ ~Propagates(reply) /\ Other(reply)
           /\ Ends("traceback") \/ Ends("1") \/ UNCHANGED <<pc, exit>>
           /\ UNCHANGED <<product, filed>>
  BY DEF Write
<1>2. CASE Propagates(reply) /\ Dispatched
  BY <1>0, <1>2, EndingDispatched
<1>3. CASE /\ ~Propagates(reply) /\ Other(reply)
           /\ Ends("traceback") \/ Ends("1") \/ UNCHANGED <<pc, exit>>
           /\ UNCHANGED <<product, filed>>
  BY <1>0, <1>3 DEF Ending, OnlyWholeRunsAreFiled, Propagates, Other, Ends
<1> QED BY <1>1, <1>2, <1>3

LEMMA EndingAdmission == Ending /\ (AnswerPair \/ JudgeAnswer) => Ending'
<1> SUFFICES ASSUME Ending, AnswerPair \/ JudgeAnswer PROVE Ending'
  OBVIOUS
<1>0. pc # "over" /\ order' = order
  BY DEF AnswerPair, JudgeAnswer
<1>1. PICK reply :
        \/ Propagates(reply) /\ Dispatched
        \/ /\ ~Propagates(reply) /\ stopped' = (stopped \/ reply = Stopped)
           /\ pc' # "over" /\ UNCHANGED <<exit, product, filed>>
  BY DEF AnswerPair, JudgeAnswer, Judged, Other, Goes
<1>2. CASE Propagates(reply) /\ Dispatched
  BY <1>0, <1>2, EndingDispatched
<1>3. CASE /\ ~Propagates(reply) /\ stopped' = (stopped \/ reply = Stopped)
           /\ pc' # "over" /\ UNCHANGED <<exit, product, filed>>
  BY <1>0, <1>3 DEF Ending, OnlyWholeRunsAreFiled, Propagates
<1> QED BY <1>1, <1>2, <1>3

LEMMA EndingPlans == Ending /\ (Diagnose \/ PlanStudy) => Ending'
<1> SUFFICES ASSUME Ending, Diagnose \/ PlanStudy PROVE Ending'
  OBVIOUS
<1>0. pc # "over" /\ order' = order
  BY DEF Diagnose, PlanStudy
<1>1. PICK reply :
        \/ Propagates(reply) /\ Dispatched
        \/ /\ (~Propagates(reply) /\ stopped' = (stopped \/ reply = Stopped)) \/ stopped' = stopped
           /\ Ends("0") \/ UNCHANGED <<pc, exit, product>>
           /\ filed' = filed
  BY DEF Diagnose, PlanStudy, Other, Prints, history
<1>2. CASE Propagates(reply) /\ Dispatched
  BY <1>0, <1>2, EndingDispatched
<1>3. CASE /\ (~Propagates(reply) /\ stopped' = (stopped \/ reply = Stopped)) \/ stopped' = stopped
           /\ Ends("0") \/ UNCHANGED <<pc, exit, product>>
           /\ filed' = filed
  <2>1. ~stopped'
    BY <1>0, <1>3, Zenon DEF Ending, Propagates
  <2>2. pc' # "over" => product' = None /\ exit' = "none"
    BY <1>0, <1>3 DEF Ending, Ends
  <2> QED BY <1>0, <1>3, <2>1, <2>2 DEF Ending, OnlyWholeRunsAreFiled, Ends
<1> QED BY <1>1, <1>2, <1>3

LEMMA EndingStep == Ending /\ [Next]_vars => Ending'
<1> SUFFICES ASSUME Ending, [Next]_vars PROVE Ending'
  OBVIOUS
<1>1. CASE Main \/ Gate
  BY <1>1, EndingStart DEF Main, Gate
<1>2. CASE JudgeCase
  BY <1>2, EndingJudgeCase
<1>3. CASE Report
  BY <1>3, EndingReport
<1>4. CASE Write
  BY <1>4, EndingWrite
<1>5. CASE CheapGates \/ WriteQueue
  BY <1>5, EndingForge
<1>6. CASE AnswerPair \/ JudgeAnswer
  BY <1>6, EndingAdmission
<1>7. CASE Diagnose \/ PlanStudy
  BY <1>7, EndingPlans
<1>8. CASE UNCHANGED vars
  BY <1>8 DEF vars, history, Ending, OnlyWholeRunsAreFiled
<1> QED BY <1>1, <1>2, <1>3, <1>4, <1>5, <1>6, <1>7, <1>8 DEF Next

\* An operator stop is exit 2 with no audit, log or queue filed and no diagnosis or study plan
\* printed, and an audit is of the whole case file, whatever is ordered and whatever the calls return.
THEOREM StopsAreNoEvidence == Spec => []OnlyWholeRunsAreFiled
<1>1. Init => Ending
  BY EndingInit
<1>2. Ending /\ [Next]_vars => Ending'
  BY EndingStep
<1>3. Ending => OnlyWholeRunsAreFiled
  BY DEF Ending
<1> QED BY <1>1, <1>2, <1>3, PTL DEF Spec
-----------------------------------------------------------------------------
\* Only a command with a seated judge gets past its gate to a call of the judge, and only that
\* judge has answered.
Seated == /\ pc \in {"gate", "run"} /\ order.command # "diagnose" => Seatable(cfg)
          /\ pc \in {"pair", "strong", "weak"} => order.command = "forge" /\ Seatable(cfg)
          /\ judgedBy \subseteq {JudgeTriple(cfg)}
          /\ judgedBy # {} => Seatable(cfg)

\* A judge that answers is the seated one.
LEMMA SeatedJudged == ASSUME NEW reply, Judged(reply)
                      PROVE  judgedBy' = judgedBy \/ judgedBy' = judgedBy \cup {JudgeTriple(cfg)}
BY DEF Judged, JudgeAnswers

\* The start of a command seats its judge or ends, unless it is a diagnosis.
LEMMA SeatedStart == Seated /\ (Main \/ Gate) => Seated'
BY DEF Seated, Main, Gate, Ends, Goes, history, Offline, Preferred

\* A sweep is scored by the seated judge.
LEMMA SeatedCase == Seated /\ JudgeCase => Seated'
<1> SUFFICES ASSUME Seated, JudgeCase PROVE Seated'
  OBVIOUS
<1>1. /\ UNCHANGED <<order, cfg>> /\ Seatable(cfg)
      /\ pc' \in {pc, "over"} /\ pc = "run"
  BY DEF JudgeCase, Seated, Dispatched, Ends
<1>2. judgedBy' = judgedBy \/ judgedBy' = judgedBy \cup {JudgeTriple(cfg)}
  BY SeatedJudged DEF JudgeCase, Dispatched
<1> QED BY <1>1, <1>2 DEF Seated

\* So are the two answers of a draft.
LEMMA SeatedAdmission == Seated /\ (AnswerPair \/ JudgeAnswer) => Seated'
<1> SUFFICES ASSUME Seated, AnswerPair \/ JudgeAnswer PROVE Seated'
  OBVIOUS
<1>1. /\ UNCHANGED <<order, cfg>> /\ Seatable(cfg) /\ order.command = "forge"
      /\ pc' \in {"run", "strong", "weak", "over"}
  BY DEF AnswerPair, JudgeAnswer, Seated, Dispatched, Ends, Goes
<1>2. judgedBy' = judgedBy \/ judgedBy' = judgedBy \cup {JudgeTriple(cfg)}
  BY SeatedJudged DEF AnswerPair, JudgeAnswer, Other, Dispatched
<1> QED BY <1>1, <1>2 DEF Seated

\* Nothing else asks the judge.
LEMMA SeatedOthers ==
  Seated /\ (Report \/ Write \/ CheapGates \/ WriteQueue \/ Diagnose \/ PlanStudy) => Seated'
<1> SUFFICES ASSUME Seated, Report \/ Write \/ CheapGates \/ WriteQueue \/ Diagnose \/ PlanStudy
    PROVE Seated'
  OBVIOUS
<1>1. /\ UNCHANGED <<order, cfg, judgedBy>> /\ pc = "run"
  BY DEF Report, Write, CheapGates, WriteQueue, Diagnose, PlanStudy, Dispatched, Other, history
<1>2. pc' \in {"run", "over"} \/ (pc' = "pair" /\ order.command = "forge")
  BY <1>1 DEF Report, Write, CheapGates, WriteQueue, Diagnose, PlanStudy, Dispatched, Ends, Goes,
              Prints
<1> QED BY <1>1, <1>2 DEF Seated

\* Every score of a command is the seated judge's, and an operator who did not ask for another
\* has seated a measured one (config.py _require_bench_validated_judge).
THEOREM MeasuredJudge == Spec => []JudgeIsMeasured
<1>1. Init => Seated
  BY DEF Init, Seated
<1>2. Seated /\ [Next]_vars => Seated'
  <2> SUFFICES ASSUME Seated, [Next]_vars PROVE Seated'
    OBVIOUS
  <2>1. CASE UNCHANGED vars
    BY <2>1 DEF vars, history, Seated
  <2> QED BY <2>1, SeatedStart, SeatedCase, SeatedAdmission, SeatedOthers DEF Next
<1>3. Seated => JudgeIsMeasured
  <2> SUFFICES ASSUME Seated PROVE JudgeIsMeasured
    OBVIOUS
  <2>1. judgedBy = {} \/ judgedBy = {JudgeTriple(cfg)}
    BY DEF Seated
  <2>2. Cardinality(judgedBy) <= 1
    <3>1. CASE judgedBy = {}
      BY <3>1, FS_EmptySet
    <3>2. CASE judgedBy = {JudgeTriple(cfg)}
      <4>1. Cardinality({JudgeTriple(cfg)}) = 1
        BY FS_Singleton, Zenon
      <4> QED BY <3>2, <4>1
    <3> QED BY <2>1, <3>1, <3>2
  <2>3. ~cfg.allow => judgedBy \subseteq Validated
    BY <2>1 DEF Seated, Seatable, MaySeat, Measured
  <2> QED BY <2>2, <2>3 DEF JudgeIsMeasured
<1> QED BY <1>1, <1>2, <1>3, PTL DEF Spec
-----------------------------------------------------------------------------
(* Sorting. A finite set and a strict total order R on it.                 *)

Behind(U, R, x) == Cardinality({y \in U : <<y, x>> \in R})

StrictOrder(U, R) == /\ \A x \in U : <<x, x>> \notin R
                     /\ \A x, y, z \in U : <<x, y>> \in R /\ <<y, z>> \in R => <<x, z>> \in R
                     /\ \A x, y \in U : x = y \/ <<x, y>> \in R \/ <<y, x>> \in R

\* Of two elements the later one has more behind it.
LEMMA BehindGrows ==
  ASSUME NEW U, IsFiniteSet(U), NEW R, StrictOrder(U, R),
         NEW x \in U, NEW y \in U, <<x, y>> \in R
  PROVE  Behind(U, R, x) + 1 <= Behind(U, R, y)
<1> DEFINE Before(z) == {w \in U : <<w, z>> \in R}
<1>1. IsFiniteSet(Before(x)) /\ IsFiniteSet(Before(y))
  BY FS_Subset
<1>2. x \notin Before(x) /\ Before(x) \cup {x} \subseteq Before(y)
  BY DEF StrictOrder
<1> HIDE DEF Before
<1>3. IsFiniteSet(Before(x) \cup {x}) /\ Cardinality(Before(x) \cup {x}) = Cardinality(Before(x)) + 1
  BY <1>1, <1>2, FS_AddElement
<1>4. Cardinality(Before(x) \cup {x}) <= Cardinality(Before(y))
  BY <1>1, <1>2, FS_Subset
<1>5. Behind(U, R, x) = Cardinality(Before(x)) /\ Behind(U, R, y) = Cardinality(Before(y))
  BY DEF Behind, Before
<1> QED BY <1>3, <1>4, <1>5

LEMMA BehindTyped ==
  ASSUME NEW U, IsFiniteSet(U), NEW R, StrictOrder(U, R), NEW x \in U
  PROVE  Behind(U, R, x) \in Nat /\ Behind(U, R, x) + 1 <= Cardinality(U)
<1> DEFINE Before == {w \in U : <<w, x>> \in R}
<1>1. x \notin Before /\ Before \cup {x} \subseteq U /\ IsFiniteSet(Before)
  BY FS_Subset DEF StrictOrder
<1>2. Behind(U, R, x) = Cardinality(Before)
  BY DEF Behind
<1> HIDE DEF Before
<1>3. Cardinality(Before \cup {x}) = Cardinality(Before) + 1 /\ Cardinality(Before) \in Nat
  BY <1>1, FS_AddElement, FS_CardinalityType
<1>4. Cardinality(Before \cup {x}) <= Cardinality(U)
  BY <1>1, FS_Subset
<1> QED BY <1>2, <1>3, <1>4

\* Every place below the size of the set is somebody's.
LEMMA PlacesFilled ==
  ASSUME NEW U, IsFiniteSet(U), NEW R, StrictOrder(U, R), NEW k \in Nat, k < Cardinality(U)
  PROVE  \E x \in U : Behind(U, R, x) = k
<1> DEFINE f == [x \in U |-> Behind(U, R, x)]
           n == Cardinality(U)
<1>1. n \in Nat
  BY FS_CardinalityType
<1>2. \A x \in U : f[x] \in 0..(n - 1)
  BY <1>1, BehindTyped
<1>3. \A x, y \in U : x # y => f[x] # f[y]
  <2> SUFFICES ASSUME NEW x \in U, NEW y \in U, x # y PROVE f[x] # f[y]
    OBVIOUS
  <2>1. <<x, y>> \in R \/ <<y, x>> \in R
    BY DEF StrictOrder
  <2>2. Behind(U, R, x) \in Nat /\ Behind(U, R, y) \in Nat
    BY BehindTyped
  <2>3. Behind(U, R, x) # Behind(U, R, y)
    BY <2>1, <2>2, BehindGrows
  <2> QED BY <2>3
<1>4. f \in Injection(U, 0..(n - 1))
  BY <1>2, <1>3 DEF Injection, IsInjective
<1>5. IsFiniteSet(0..(n - 1)) /\ Cardinality(0..(n - 1)) = n
  <2>1. 0 \in Int /\ n - 1 \in Int
    BY <1>1
  <2> QED BY <1>1, <2>1, FS_Interval
<1> HIDE DEF f
<1>6. f \in Surjection(U, 0..(n - 1))
  BY <1>4, <1>5, FS_Injection
<1>7. k \in 0..(n - 1)
  BY <1>1
<1>8. \E x \in U : f[x] = k
  BY <1>6, <1>7 DEF Surjection
<1> QED BY <1>8 DEF f
-----------------------------------------------------------------------------
(* The bench's verdict.                                                    *)

\* The judgments of a case, in an order with a first for every score.
JudgedCase(attempts) == /\ IsFiniteSet(DOMAIN attempts) /\ DOMAIN attempts \subseteq Nat
                        /\ \A i \in Successes(attempts) : attempts[i].score \in Int

LEMMA SomeMiddle ==
  ASSUME NEW attempts, JudgedCase(attempts), Successes(attempts) # {}
  PROVE  /\ Middle(attempts) \in Successes(attempts)
         /\ SortedPlace(attempts, Middle(attempts)) = Cardinality(Successes(attempts)) \div 2
         /\ Cardinality(Successes(attempts)) \in Nat \ {0}
<1> DEFINE U == Successes(attempts)
           R == {p \in U \X U : SortsBefore(attempts, p[1], p[2])}
           n == Cardinality(U)
<1>1. IsFiniteSet(U) /\ U \subseteq Nat
  BY FS_Subset DEF JudgedCase, Successes
<1>2. n \in Nat /\ n # 0
  BY <1>1, FS_CardinalityType, FS_EmptySet
<1>3. \A x, y \in U : <<x, y>> \in R <=> SortsBefore(attempts, x, y)
  OBVIOUS
<1>4. StrictOrder(U, R)
  <2>1. \A x \in U : x \in Nat /\ attempts[x].score \in Int
    BY <1>1 DEF JudgedCase
  <2> HIDE DEF U, R
  <2> QED BY <1>3, <2>1 DEF StrictOrder, SortsBefore
<1>5. \A x \in U : Behind(U, R, x) = SortedPlace(attempts, x)
  <2> SUFFICES ASSUME NEW x \in U PROVE Behind(U, R, x) = SortedPlace(attempts, x)
    OBVIOUS
  <2>1. {y \in U : <<y, x>> \in R} = {j \in U : SortsBefore(attempts, j, x)}
    OBVIOUS
  <2> QED BY <2>1 DEF Behind, SortedPlace
<1>6. n \div 2 \in Nat /\ n \div 2 < n
  BY <1>2
<1> HIDE DEF R, n
<1>7. \E x \in U : Behind(U, R, x) = n \div 2
  BY <1>1, <1>4, <1>6, PlacesFilled DEF n
<1>8. \E x \in U : SortedPlace(attempts, x) = n \div 2
  BY <1>5, <1>7
<1> QED BY <1>2, <1>8 DEF Middle, n

\* The middle run is no higher than a bound exactly if more than half of the runs are not,
\* and no lower exactly if at least half are not.
LEMMA MiddleIsMajority ==
  ASSUME NEW attempts, JudgedCase(attempts), Successes(attempts) # {}, NEW bound \in Int
  PROVE  LET U == Successes(attempts)
             n == Cardinality(U)
             middle == Representative(attempts).score
         IN /\ middle <= bound <=> 2 * Cardinality({j \in U : attempts[j].score <= bound}) > n
            /\ middle >= bound <=> 2 * Cardinality({j \in U : attempts[j].score >= bound}) >= n
<1> DEFINE U == Successes(attempts)
           n == Cardinality(U)
           m == Middle(attempts)
           k == n \div 2
           Score(j) == attempts[j].score
           Before == {j \in U : SortsBefore(attempts, j, m)}
           Low == {j \in U : Score(j) <= bound}
           High == {j \in U : Score(j) >= bound}
<1>1. m \in U /\ Cardinality(Before) = k /\ n \in Nat \ {0}
  BY SomeMiddle DEF SortedPlace
<1>2. \A j \in U : j \in Nat /\ Score(j) \in Int
  BY DEF JudgedCase, Successes
<1>3. IsFiniteSet(U) /\ IsFiniteSet(Before) /\ IsFiniteSet(Low) /\ IsFiniteSet(High)
  BY FS_Subset DEF JudgedCase, Successes
<1>4. k \in Nat /\ (n = 2 * k \/ n = 2 * k + 1)
  BY <1>1
<1>5. m \notin Before /\ Before \subseteq U
  BY <1>1, <1>2 DEF SortsBefore
<1>6. /\ \A j \in Before \cup {m} : Score(j) <= Score(m)
      /\ \A j \in U \ Before : Score(j) >= Score(m)
      /\ \A j \in U \ (Before \cup {m}) : Score(j) >= Score(m)
  BY <1>1, <1>2 DEF SortsBefore
<1>7. \A j \in U : Score(j) < Score(m) => j \in Before
  BY <1>1, <1>2 DEF SortsBefore
<1> HIDE DEF U, n, m, k, Score, Before
<1>8. /\ IsFiniteSet(Before \cup {m}) /\ Cardinality(Before \cup {m}) = k + 1
      /\ IsFiniteSet(U \ Before) /\ Cardinality(U \ Before) = n - k
      /\ IsFiniteSet(U \ (Before \cup {m})) /\ Cardinality(U \ (Before \cup {m})) = n - k - 1
  <2>1. IsFiniteSet(Before \cup {m}) /\ Cardinality(Before \cup {m}) = k + 1
    BY <1>1, <1>3, <1>5, FS_AddElement
  <2>2. U \cap Before = Before /\ U \cap (Before \cup {m}) = Before \cup {m}
    BY <1>1, <1>5
  <2>3. IsFiniteSet(U \ Before) /\ Cardinality(U \ Before) = n - k
    BY <1>1, <1>3, <2>2, FS_Difference DEF n
  <2>4. /\ IsFiniteSet(U \ (Before \cup {m}))
        /\ Cardinality(U \ (Before \cup {m})) = n - Cardinality(Before \cup {m})
    BY <1>1, <1>3, <2>2, FS_Difference DEF n
  <2> QED BY <1>1, <1>4, <2>1, <2>3, <2>4
<1>9. Cardinality(Low) \in Nat /\ Cardinality(High) \in Nat
  BY <1>3, FS_CardinalityType
<1>10. Score(m) \in Int
  BY <1>1, <1>2
<1>11. Score(m) <= bound => 2 * Cardinality(Low) > n
  <2> SUFFICES ASSUME Score(m) <= bound PROVE 2 * Cardinality(Low) > n
    OBVIOUS
  <2>1. Before \cup {m} \subseteq Low
    BY <1>1, <1>2, <1>5, <1>6, <1>10
  <2>2. k + 1 <= Cardinality(Low)
    BY <1>3, <1>8, <2>1, FS_Subset
  <2> QED BY <1>1, <1>4, <1>9, <2>2
<1>12. Score(m) > bound => ~(2 * Cardinality(Low) > n)
  <2> SUFFICES ASSUME Score(m) > bound PROVE ~(2 * Cardinality(Low) > n)
    OBVIOUS
  <2>1. Low \subseteq Before
    BY <1>2, <1>7, <1>10
  <2>2. Cardinality(Low) <= k
    BY <1>1, <1>3, <2>1, FS_Subset
  <2> QED BY <1>1, <1>4, <1>9, <2>2
<1>13. Score(m) >= bound => 2 * Cardinality(High) >= n
  <2> SUFFICES ASSUME Score(m) >= bound PROVE 2 * Cardinality(High) >= n
    OBVIOUS
  <2>1. U \ Before \subseteq High
    BY <1>2, <1>6, <1>10
  <2>2. n - k <= Cardinality(High)
    BY <1>3, <1>8, <2>1, FS_Subset
  <2> QED BY <1>1, <1>4, <1>9, <2>2
<1>14. Score(m) < bound => ~(2 * Cardinality(High) >= n)
  <2> SUFFICES ASSUME Score(m) < bound PROVE ~(2 * Cardinality(High) >= n)
    OBVIOUS
  <2>1. High \subseteq U \ (Before \cup {m})
    BY <1>2, <1>6, <1>10
  <2>2. Cardinality(High) <= n - k - 1
    BY <1>8, <2>1, FS_Subset
  <2> QED BY <1>1, <1>4, <1>9, <2>2
<1>15. /\ Score(m) <= bound <=> 2 * Cardinality(Low) > n
       /\ Score(m) >= bound <=> 2 * Cardinality(High) >= n
  BY <1>10, <1>11, <1>12, <1>13, <1>14
<1> QED BY <1>15 DEF U, n, m, Score, Representative

LEMMA SampleTyped ==
  ASSUME order \in Orders, order.command = "bench"
  PROVE  Sample \in Seq(BenchCase) /\ Sweeps \in Nat \ {0}
<1> DEFINE cases == order.cases
           named == {i \in DOMAIN cases : cases[i].id \in order.only \/ cases[i].pair \in order.only}
           R == {p \in named \X named : p[1] < p[2]}
<1>1. cases \in Seq(BenchCase) /\ order.k \in Nat \ {0}
  BY OrdersAssumption
<1>2. Len(cases) \in Nat /\ DOMAIN cases = 1..Len(cases)
  BY <1>1
<1>3. IsFiniteSet(named) /\ \A i \in named : i \in Nat
  <2>1. 1 \in Int /\ Len(cases) \in Int
    BY <1>2
  <2>2. IsFiniteSet(1..Len(cases))
    BY <2>1, FS_Interval
  <2> QED BY <1>2, <2>2, FS_Subset
<1>4. \A x, y \in named : <<x, y>> \in R <=> x < y
  OBVIOUS
<1>5. \A x \in named : {j \in named : <<j, x>> \in R} = {j \in named : j < x}
  OBVIOUS
<1>6. \A i \in named : cases[i] \in BenchCase
  BY <1>1
<1> HIDE DEF named, R
<1>7. StrictOrder(named, R)
  BY <1>3, <1>4 DEF StrictOrder
<1>8. \A x \in named : Behind(named, R, x) = Cardinality({j \in named : j < x})
  BY <1>5 DEF Behind
<1>9. Cardinality(named) \in Nat
  BY <1>3, FS_CardinalityType
<1> DEFINE Nth(n) == CHOOSE i \in named : Cardinality({j \in named : j < i}) = n - 1
<1>10. ASSUME NEW n \in 1..Cardinality(named) PROVE Nth(n) \in named
  <2>1. n - 1 \in Nat /\ n - 1 < Cardinality(named)
    BY <1>9
  <2>2. \E x \in named : Behind(named, R, x) = n - 1
    BY <1>3, <1>7, <2>1, PlacesFilled
  <2>3. \E x \in named : Cardinality({j \in named : j < x}) = n - 1
    BY <1>8, <2>2
  <2> QED BY <2>3
<1>11. [n \in 1..Cardinality(named) |-> cases[Nth(n)]] \in Seq(BenchCase)
  <2> HIDE DEF Nth, cases
  <2> QED BY <1>6, <1>9, <1>10
<1> QED BY <1>1, <1>11 DEF Sample, Selected, Sweeps, named, cases

\* A verdict is given on every case of the sample in every sweep.
Tally == /\ order \in Orders /\ tape \in Seq(Judgments \cup {Errored})
         /\ (order.command = "bench" /\ exit \in {"0", "1"}) =>
              /\ Len(tape) = Sweeps * Len(Sample)
              /\ exit = "0" <=> BenchPassed(Sample, Attempts)

LEMMA TallyCase == Ending /\ Tally /\ JudgeCase => Tally'
<1> SUFFICES ASSUME Ending, Tally, JudgeCase PROVE Tally'
  OBVIOUS
<1>1. order' = order /\ pc = "run" /\ exit = "none"
  BY DEF JudgeCase, Ending
<1>2. PICK reply : \/ Ends("2") /\ tape' = tape
                   \/ exit' = exit /\ tape' = Append(tape, Attempted(reply))
  BY DEF JudgeCase, Dispatched
<1>3. exit' \notin {"0", "1"}
  BY <1>1, <1>2 DEF Ends
<1>4. Attempted(reply) \in Judgments \cup {Errored}
  BY DEF Attempted
<1>5. tape' \in Seq(Judgments \cup {Errored})
  <2> HIDE DEF Attempted
  <2> QED BY <1>2, <1>4 DEF Tally
<1> QED BY <1>1, <1>3, <1>5 DEF Tally

LEMMA TallyOthers ==
  Ending /\ Tally /\ (Main \/ Gate \/ Write \/ CheapGates \/ AnswerPair \/ JudgeAnswer \/ WriteQueue
                      \/ Diagnose \/ PlanStudy) => Tally'
<1> SUFFICES ASSUME Ending, Tally, \/ Main \/ Gate \/ Write \/ CheapGates \/ AnswerPair
                                   \/ JudgeAnswer \/ WriteQueue \/ Diagnose \/ PlanStudy
    PROVE Tally'
  OBVIOUS
<1>1. order' = order /\ tape' = tape /\ pc # "over"
  BY DEF Main, Gate, Write, CheapGates, AnswerPair, JudgeAnswer, WriteQueue, Diagnose, PlanStudy,
     Dispatched, forging
<1>2. exit = "none"
  BY <1>1 DEF Ending
<1>3. order.command # "bench" \/ exit' \notin {"0", "1"}
  <2>1. CASE Main \/ Gate
    BY <1>2, <2>1 DEF Main, Gate, Ends, Goes
  <2>2. CASE Write \/ CheapGates \/ WriteQueue \/ Diagnose \/ PlanStudy
    BY <2>2 DEF Write, CheapGates, WriteQueue, Diagnose, PlanStudy
  <2>3. CASE AnswerPair \/ JudgeAnswer
    BY <1>2, <2>3 DEF AnswerPair, JudgeAnswer, Dispatched, Ends, Goes
  <2> QED BY <2>1, <2>2, <2>3
<1> QED BY <1>1, <1>3 DEF Tally

LEMMA TallyReport == Ending /\ Tally /\ Report => Tally'
<1> SUFFICES ASSUME Ending, Tally, Report PROVE Tally'
  OBVIOUS
<1>1. order' = order /\ tape' = tape /\ Len(tape) = Sweeps * Len(Sample)
  BY DEF Report
<1>2. Sample' = Sample /\ Sweeps' = Sweeps /\ Attempts' = Attempts
  BY <1>1 DEF Sample, Sweeps, Attempts
<1>3. order.command = "bench" => exit' = IF BenchPassed(Sample, Attempts) THEN "0" ELSE "1"
  BY DEF Report, Ends
<1> HIDE DEF BenchPassed
<1>4. BenchPassed(Sample, Attempts)' <=> BenchPassed(Sample, Attempts)
  BY <1>1 DEF BenchPassed, Sample, Sweeps, Attempts
<1> QED BY <1>1, <1>2, <1>3, <1>4 DEF Tally

LEMMA Tallied == Spec => [](Ending /\ Tally)
<1>1. Init => Ending /\ Tally
  BY EndingInit DEF Init, Tally
<1>2. Ending /\ Tally /\ [Next]_vars => (Ending /\ Tally)'
  <2> SUFFICES ASSUME Ending, Tally, [Next]_vars PROVE (Ending /\ Tally)'
    OBVIOUS
  <2>1. Tally'
    <3>1. CASE UNCHANGED vars
      BY <3>1 DEF vars, Tally, Sample, Sweeps, Attempts, BenchPassed
    <3> QED BY <3>1, TallyCase, TallyReport, TallyOthers DEF Next
  <2>2. Ending'
    BY EndingStep
  <2> QED BY <2>1, <2>2
<1> QED BY <1>1, <1>2, PTL DEF Spec

LEMMA LastOfSweeps ==
  ASSUME NEW a \in Nat, NEW b \in Nat, NEW n \in Nat, a < b
  PROVE  a * n \in Nat /\ a * n + n <= b * n
<1>1. PICK c \in Nat : b = a + 1 + c
  <2>1. b - a - 1 \in Nat /\ b = a + 1 + (b - a - 1)
    OBVIOUS
  <2> QED BY <2>1
<1>2. (a + 1 + c) * n = a * n + n + c * n
  OBVIOUS
<1>3. a * n \in Nat /\ c * n \in Nat
  OBVIOUS
<1> QED BY <1>1, <1>2, <1>3

LEMMA CaseJudged ==
  ASSUME Tally, order.command = "bench", Len(tape) = Sweeps * Len(Sample), NEW i \in DOMAIN Sample
  PROVE  /\ DOMAIN Attempts[i] = 1..Sweeps
         /\ \A sweep \in 1..Sweeps : Attempts[i][sweep] \in Judgments \cup {Errored}
         /\ JudgedCase(Attempts[i])
         /\ Sample[i] \in BenchCase
<1> DEFINE L == Len(Sample)
<1>1. Sample \in Seq(BenchCase) /\ Sweeps \in Nat \ {0}
  BY SampleTyped DEF Tally
<1>2. L \in Nat /\ i \in 1..L
  BY <1>1
<1>3. Attempts[i] = [sweep \in 1..Sweeps |-> tape[(sweep - 1) * L + i]]
  BY DEF Attempts
<1>4. ASSUME NEW sweep \in 1..Sweeps PROVE Attempts[i][sweep] \in Judgments \cup {Errored}
  <2>1. sweep - 1 \in Nat /\ sweep - 1 < Sweeps
    BY <1>1
  <2>2. (sweep - 1) * L \in Nat /\ (sweep - 1) * L + L <= Sweeps * L
    BY <1>1, <1>2, <2>1, LastOfSweeps
  <2>3. (sweep - 1) * L + i \in 1..(Sweeps * L)
    <3> DEFINE low == (sweep - 1) * L
               all == Sweeps * L
    <3>1. all \in Nat
      BY <1>1, <1>2
    <3>2. low \in Nat /\ low + L <= all
      BY <2>2
    <3> HIDE DEF low, all
    <3>3. low + i \in 1..all
      BY <1>2, <3>1, <3>2
    <3> QED BY <3>3 DEF low, all
  <2>4. tape \in Seq(Judgments \cup {Errored}) /\ Len(tape) = Sweeps * L
    BY DEF Tally
  <2>5. tape[(sweep - 1) * L + i] \in Judgments \cup {Errored}
    BY <2>3, <2>4
  <2> QED BY <1>3, <2>5
<1>5. DOMAIN Attempts[i] = 1..Sweeps
  BY <1>3
<1>6. JudgedCase(Attempts[i])
  <2>1. 1 \in Int /\ Sweeps \in Int
    BY <1>1
  <2>2. IsFiniteSet(1..Sweeps)
    BY <2>1, FS_Interval
  <2>a. 1..Sweeps \subseteq Nat
    OBVIOUS
  <2>3. \A j \in Successes(Attempts[i]) : Attempts[i][j] \in Judgments
    BY <1>4, <1>5 DEF Successes
  <2>4. \A j \in Successes(Attempts[i]) : Attempts[i][j].score \in Int
    BY <2>3, CommandsAssumption DEF Judgment
  <2> QED BY <1>5, <2>2, <2>a, <2>4 DEF JudgedCase
<1>7. Sample[i] \in BenchCase
  BY <1>1, <1>2
<1> QED BY <1>4, <1>5, <1>6, <1>7

\* What a case passes on, said of its middle run and of all of them.
LEMMA MiddleOfCase ==
  ASSUME Tally, order.command = "bench", Len(tape) = Sweeps * Len(Sample), NEW i \in DOMAIN Sample,
         Successes(Attempts[i]) # {}
  PROVE  LET U == Successes(Attempts[i])
             c == Sample[i]
         IN /\ Middle(Attempts[i]) \in U
            /\ InBand(c, Representative(Attempts[i]).score) <=>
                 /\ 2 * Cardinality({j \in U : Attempts[i][j].score <= c.max}) > Cardinality(U)
                 /\ 2 * Cardinality({j \in U : Attempts[i][j].score >= c.min}) >= Cardinality(U)
<1> DEFINE a == Attempts[i]
           c == Sample[i]
<1>1. JudgedCase(a) /\ c.min \in Int /\ c.max \in Int
  BY CaseJudged DEF BenchCase
<1>2. Middle(a) \in Successes(a) /\ Representative(a).score \in Int
  BY <1>1, SomeMiddle DEF JudgedCase, Representative
<1> HIDE DEF a, c
<1>3. Representative(a).score <= c.max <=>
        2 * Cardinality({j \in Successes(a) : a[j].score <= c.max}) > Cardinality(Successes(a))
  BY <1>1, MiddleIsMajority DEF a
<1>4. Representative(a).score >= c.min <=>
        2 * Cardinality({j \in Successes(a) : a[j].score >= c.min}) >= Cardinality(Successes(a))
  BY <1>1, MiddleIsMajority DEF a
<1>5. Representative(a).score >= c.min <=> c.min <= Representative(a).score
  BY <1>1, <1>2
<1> QED BY <1>2, <1>3, <1>4, <1>5 DEF InBand, a, c

\* For any case file, number of sweeps and judgments: the bench is green exactly on what a
\* majority of every case's surviving runs says, and a red one has a case that most of them
\* condemn or a run that misses its delivery label (bench.py _aggregate, bench_passed).
THEOREM BenchVerdict == Spec => []GateVerdict
<1> DEFINE Runs(i) == Successes(Attempts[i])
           Score(i, j) == Attempts[i][j].score
           Sound(i) == /\ 2 * Cardinality({j \in Runs(i) : Score(i, j) <= Sample[i].max}) > Cardinality(Runs(i))
                       /\ 2 * Cardinality({j \in Runs(i) : Score(i, j) >= Sample[i].min}) >= Cardinality(Runs(i))
           Delivers(i, j) == DeliveryWithin(Sample[i], Attempts[i][j])
<1>1. Tally => GateVerdict
  <2> SUFFICES ASSUME Tally, order.command = "bench", exit \in {"0", "1"}
      PROVE  /\ exit = "0" => /\ Sample # << >>
                              /\ \A i \in DOMAIN Sample :
                                   Sound(i) /\ \E j \in Runs(i) : InBand(Sample[i], Score(i, j)) /\ Delivers(i, j)
             /\ exit = "1" => \/ Sample = << >>
                              \/ \E i \in DOMAIN Sample : ~Sound(i) \/ \E j \in Runs(i) : ~Delivers(i, j)
    BY DEF GateVerdict
  <2>1. Len(tape) = Sweeps * Len(Sample) /\ (exit = "0" <=> BenchPassed(Sample, Attempts))
    BY DEF Tally
  <2>2. ASSUME NEW i \in DOMAIN Sample, Runs(i) # {}
        PROVE  /\ Middle(Attempts[i]) \in Runs(i)
               /\ InBand(Sample[i], Representative(Attempts[i]).score) <=> Sound(i)
    BY <2>1, <2>2, MiddleOfCase
  <2>3. ASSUME NEW i \in DOMAIN Sample, Runs(i) = {} PROVE ~Sound(i)
    <3>1. Cardinality({j \in Runs(i) : Score(i, j) <= Sample[i].max}) = 0 /\ Cardinality(Runs(i)) = 0
      BY <2>3, FS_EmptySet
    <3> QED BY <3>1
  <2>4. ASSUME NEW i \in DOMAIN Sample, CasePasses(Sample[i], Attempts[i])
        PROVE  Sound(i) /\ \E j \in Runs(i) : InBand(Sample[i], Score(i, j)) /\ Delivers(i, j)
    <3>1. /\ Runs(i) # {} /\ InBand(Sample[i], Representative(Attempts[i]).score)
          /\ DeliveryWithin(Sample[i], Representative(Attempts[i]))
      BY <2>4 DEF CasePasses
    <3> HIDE DEF Sound, Runs
    <3>2. Sound(i) /\ Middle(Attempts[i]) \in Runs(i)
      BY <2>2, <3>1
    <3> QED BY <3>1, <3>2 DEF Representative
  <2>5. ASSUME NEW i \in DOMAIN Sample, ~CasePasses(Sample[i], Attempts[i])
        PROVE  ~Sound(i) \/ \E j \in Runs(i) : ~Delivers(i, j)
    <3> SUFFICES ASSUME Sound(i) PROVE \E j \in Runs(i) : ~Delivers(i, j)
      OBVIOUS
    <3> HIDE DEF Sound
    <3>1. Runs(i) # {}
      BY <2>3
    <3>2. InBand(Sample[i], Representative(Attempts[i]).score) /\ Middle(Attempts[i]) \in Runs(i)
      BY <2>2, <3>1
    <3>3. ~DeliveryWithin(Sample[i], Representative(Attempts[i]))
      BY <2>5, <3>1, <3>2 DEF CasePasses
    <3> QED BY <3>2, <3>3 DEF Representative
  <2> HIDE DEF Sound, Runs, Delivers, Score
  <2> QED BY <2>1, <2>4, <2>5 DEF BenchPassed
<1> QED BY <1>1, Tallied, PTL

\* ... and where nothing warns of repeatability every run of every case is in its band.
THEOREM SilentGreen == Spec => []SilentGreenIsUnanimous
<1>1. Tally => SilentGreenIsUnanimous
  <2> SUFFICES ASSUME Tally, order.command = "bench", exit = "0", Warned(Sample, Attempts) = {},
                      NEW i \in DOMAIN Sample, NEW sweep \in 1..Sweeps
      PROVE  Attempts[i][sweep] # Errored /\ InBand(Sample[i], Attempts[i][sweep].score)
    BY DEF SilentGreenIsUnanimous
  <2>1. Len(tape) = Sweeps * Len(Sample) /\ CasePasses(Sample[i], Attempts[i])
    BY DEF Tally, BenchPassed
  <2>2. ~Shaky(Sample[i], Attempts[i])
    BY DEF Warned
  <2>3. /\ Successes(Attempts[i]) # {} /\ Middle(Attempts[i]) \in Successes(Attempts[i])
        /\ InBand(Sample[i], Attempts[i][Middle(Attempts[i])].score)
    BY <2>1, MiddleOfCase DEF CasePasses, Representative
  <2>4. DOMAIN Attempts[i] = 1..Sweeps
    BY <2>1, CaseJudged
  <2>5. Successes(Attempts[i]) = DOMAIN Attempts[i] /\ ~Straddles(Sample[i], Attempts[i])
    BY <2>2, <2>3 DEF Shaky
  <2>6. {j \in Successes(Attempts[i]) : InBand(Sample[i], Attempts[i][j].score)} = Successes(Attempts[i])
    BY <2>3, <2>5 DEF Straddles
  <2>7. sweep \in Successes(Attempts[i])
    BY <2>4, <2>5
  <2> QED BY <2>6, <2>7 DEF Successes
<1> QED BY <1>1, Tallied, PTL
-----------------------------------------------------------------------------
(* The forge's queue.                                                      *)

Sketched == UNION {{batch[i] : i \in DOMAIN batch} : batch \in DraftSets}
Row == [draft : Sketched, rejection : {"contract", "novelty", "admission", "none"},
        strong : Judgments \cup {Errored}, weak : Judgments \cup {Errored}]

\* A row whose draft was paid for.
Paid(o) == o.rejection \in {"none", "admission"}
Clean(draft) == draft.sound /\ draft.seeded /\ draft.prompt \notin Near
Fair(o, known) ==
  /\ Paid(o) => Clean(o.draft) /\ o.draft.prompt \in known
  /\ o.rejection = "none" => o.strong.score >= 35 /\ o.weak.score <= 30

ForgeTyped == /\ order \in Orders
              /\ drafts \in Seq(Sketched) /\ outcomes \in Seq(Row) /\ Len(outcomes) <= Len(drafts)
              /\ drafts # << >> => order.command = "forge" /\ Len(drafts) <= order.n
              /\ filed = "queue" => drafts # << >>
              /\ pc \in {"pair", "strong", "weak"} => Len(outcomes) < Len(drafts)
              /\ pc = "weak" => strong \in Judgments \cup {Errored}
RowsFair == \A i \in DOMAIN outcomes : Fair(outcomes[i], seen)
PromptsApart == \A i, j \in DOMAIN outcomes :
                  Paid(outcomes[i]) /\ Paid(outcomes[j])
                    /\ outcomes[i].draft.prompt = outcomes[j].draft.prompt => i = j
\* The draft that is being answered passed the free gates, and no row has its prompt.
DraftFresh == pc \in {"pair", "strong", "weak"} =>
                /\ Clean(Draft) /\ Draft.prompt \in seen
                /\ \A i \in DOMAIN outcomes :
                     Paid(outcomes[i]) => outcomes[i].draft.prompt # Draft.prompt

ForgeInv == ForgeTyped /\ RowsFair /\ PromptsApart /\ DraftFresh

\* One more row keeps the rows fair and apart, where it is and no row has its prompt.
LEMMA RowEntered ==
  ASSUME ForgeTyped, RowsFair, PromptsApart, seen \subseteq seen',
         NEW o \in Row, outcomes' = Append(outcomes, o), Fair(o, seen'),
         Paid(o) => \A i \in DOMAIN outcomes : Paid(outcomes[i]) => outcomes[i].draft.prompt # o.draft.prompt
  PROVE  /\ outcomes' \in Seq(Row) /\ Len(outcomes') = Len(outcomes) + 1
         /\ RowsFair' /\ PromptsApart'
<1>1. outcomes \in Seq(Row) /\ Len(outcomes) \in Nat
  BY DEF ForgeTyped
<1>2. /\ outcomes' \in Seq(Row) /\ Len(outcomes') = Len(outcomes) + 1
      /\ DOMAIN outcomes' = DOMAIN outcomes \cup {Len(outcomes) + 1}
      /\ outcomes'[Len(outcomes) + 1] = o
      /\ \A i \in DOMAIN outcomes : outcomes'[i] = outcomes[i]
  BY <1>1
<1>3. RowsFair'
  BY <1>2 DEF RowsFair, Fair
<1>4. PromptsApart'
  BY <1>2 DEF PromptsApart
<1> QED BY <1>2, <1>3, <1>4

LEMMA DraftTyped ==
  ASSUME ForgeTyped, Len(outcomes) < Len(drafts)
  PROVE  Draft \in Sketched
<1>1. Len(outcomes) \in Nat /\ Len(drafts) \in Nat /\ drafts \in Seq(Sketched)
  BY DEF ForgeTyped
<1> QED BY <1>1 DEF Draft, ForgeTyped

\* The free gates: a draft they let through is new to the batch and to the bank.
LEMMA CheapKeepsForge == ForgeInv /\ CheapGates => ForgeInv'
<1> SUFFICES ASSUME ForgeInv, CheapGates PROVE ForgeInv'
  OBVIOUS
<1> DEFINE rejection == CheapRejection(Draft, seen)
<1>1. /\ order' = order /\ drafts' = drafts /\ filed' = filed /\ strong' = strong
      /\ pc = "run" /\ order.command = "forge" /\ Len(outcomes) < Len(drafts)
      /\ Len(outcomes) \in Nat /\ Len(drafts) \in Nat
      /\ Draft \in Sketched
  BY DraftTyped DEF CheapGates, ForgeInv, ForgeTyped
<1>2. seen \subseteq seen' /\ (seen' = seen \cup {Draft.prompt} \/ ~Validates(Draft, seen))
  BY DEF CheapGates, SeenAfter
<1>3. CASE rejection = "none"
  <2>1. pc' = "pair" /\ outcomes' = outcomes
    BY <1>3 DEF CheapGates, Goes
  <2>2. Validates(Draft, seen) /\ Clean(Draft)
    BY <1>3 DEF CheapRejection, ContractHolds, IsNovel, Clean, Validates
  <2>3. Draft.prompt \notin seen /\ Draft.prompt \in seen'
    BY <1>2, <2>2 DEF Validates
  <2>4. Draft' = Draft
    BY <1>1, <2>1 DEF Draft
  <2>5. ForgeTyped'
    BY <1>1, <2>1 DEF ForgeInv, ForgeTyped
  <2>6. RowsFair' /\ PromptsApart'
    BY <1>2, <2>1 DEF ForgeInv, RowsFair, Fair, PromptsApart
  <2>7. DraftFresh'
    BY <2>1, <2>2, <2>3, <2>4 DEF ForgeInv, RowsFair, Fair, DraftFresh
  <2> QED BY <2>5, <2>6, <2>7 DEF ForgeInv
<1>4. CASE rejection # "none"
  <2> DEFINE o == Outcome(Draft, rejection, Errored, Errored)
  <2>1. pc' = pc /\ outcomes' = Append(outcomes, o)
    BY <1>4 DEF CheapGates, Enters
  <2>2. rejection \in {"contract", "novelty"}
    BY <1>4 DEF CheapRejection
  <2> HIDE DEF rejection
  <2>a. o.rejection = rejection /\ o \in Row
    BY <1>1, <2>2 DEF Outcome, Row
  <2> HIDE DEF o
  <2>3. o \in Row /\ ~Paid(o) /\ Fair(o, seen')
    BY <2>2, <2>a DEF Paid, Fair
  <2>4. /\ outcomes' \in Seq(Row) /\ Len(outcomes') = Len(outcomes) + 1
        /\ RowsFair' /\ PromptsApart'
    BY <1>2, <2>1, <2>3, RowEntered DEF ForgeInv
  <2>5. ForgeTyped' /\ DraftFresh'
    BY <1>1, <2>1, <2>4 DEF ForgeInv, ForgeTyped, DraftFresh
  <2> QED BY <2>4, <2>5 DEF ForgeInv
<1> QED BY <1>3, <1>4

\* Gate 3: one row for the draft, admitted only where the judge told its answers apart.
LEMMA AdmissionKeepsForge == ForgeInv /\ (AnswerPair \/ JudgeAnswer) => ForgeInv'
<1> SUFFICES ASSUME ForgeInv, AnswerPair \/ JudgeAnswer PROVE ForgeInv'
  OBVIOUS
<1>1. /\ order' = order /\ drafts' = drafts /\ filed' = filed /\ seen' = seen
      /\ pc \in {"pair", "strong", "weak"} /\ Len(outcomes) < Len(drafts)
      /\ Len(outcomes) \in Nat /\ Len(drafts) \in Nat /\ Draft \in Sketched
  BY DraftTyped DEF AnswerPair, JudgeAnswer, Dispatched, forging, ForgeInv, ForgeTyped
<1>2. CASE outcomes' = outcomes /\ (pc' \in {"over", "strong"} \/ (pc' = "weak" /\ strong' \in Judgments \cup {Errored}))
  <2>1. Draft' = Draft
    BY <1>1, <1>2 DEF Draft
  <2>2. ForgeTyped'
    BY <1>1, <1>2 DEF ForgeInv, ForgeTyped
  <2>3. RowsFair' /\ PromptsApart' /\ DraftFresh'
    BY <1>1, <1>2, <2>1 DEF ForgeInv, RowsFair, Fair, PromptsApart, DraftFresh
  <2> QED BY <2>2, <2>3 DEF ForgeInv
<1>3. ASSUME NEW o \in Row, outcomes' = Append(outcomes, o), pc' = "run", o.draft = Draft,
             o.rejection = "none" => o.strong.score >= 35 /\ o.weak.score <= 30
      PROVE  ForgeInv'
  <2>1. Fair(o, seen')
    BY <1>1, <1>3 DEF Fair, ForgeInv, DraftFresh
  <2>2. Paid(o) => \A i \in DOMAIN outcomes : Paid(outcomes[i]) => outcomes[i].draft.prompt # o.draft.prompt
    BY <1>1, <1>3 DEF ForgeInv, DraftFresh
  <2>3. /\ outcomes' \in Seq(Row) /\ Len(outcomes') = Len(outcomes) + 1
        /\ RowsFair' /\ PromptsApart'
    BY <1>1, <1>3, <2>1, <2>2, RowEntered DEF ForgeInv
  <2>4. ForgeTyped' /\ DraftFresh'
    BY <1>1, <1>3, <2>3 DEF ForgeInv, ForgeTyped, DraftFresh
  <2> QED BY <2>3, <2>4 DEF ForgeInv
<1>4. CASE AnswerPair
  <2>1. CASE pc' = "run"
    <3> DEFINE o == Outcome(Draft, "admission", Errored, Errored)
    <3>1. outcomes' = Append(outcomes, o)
      BY <1>4, <2>1 DEF AnswerPair, Dispatched, Ends, Goes, Enters
    <3>2. o \in Row /\ o.draft = Draft /\ o.rejection # "none"
      BY <1>1 DEF Outcome, Row
    <3> HIDE DEF o
    <3> QED BY <1>3, <2>1, <3>1, <3>2
  <2>2. CASE pc' # "run"
    <3>1. outcomes' = outcomes /\ pc' \in {"over", "strong"}
      BY <1>4, <2>2 DEF AnswerPair, Dispatched, Ends, Goes, forging
    <3> QED BY <1>2, <3>1
  <2> QED BY <2>1, <2>2
<1>5. CASE JudgeAnswer
  <2>1. PICK reply : \/ Dispatched
                     \/ /\ pc = "strong" /\ Goes("weak") /\ strong' = Attempted(reply) /\ UNCHANGED outcomes
                     \/ /\ pc = "weak" /\ Goes("run")
                        /\ Enters(Outcome(Draft, IF Admits(strong, Attempted(reply)) THEN "none" ELSE "admission",
                                          strong, Attempted(reply)))
    BY <1>5 DEF JudgeAnswer
  <2>2. Attempted(reply) \in Judgments \cup {Errored}
    BY DEF Attempted
  <2>3. CASE Dispatched
    BY <1>2, <2>3 DEF Dispatched, Ends, forging
  <2>4. CASE pc = "strong" /\ Goes("weak") /\ strong' = Attempted(reply) /\ UNCHANGED outcomes
    BY <1>2, <2>2, <2>4 DEF Goes
  <2>5. CASE /\ pc = "weak" /\ Goes("run")
             /\ Enters(Outcome(Draft, IF Admits(strong, Attempted(reply)) THEN "none" ELSE "admission",
                               strong, Attempted(reply)))
    <3> DEFINE weak == Attempted(reply)
               o == Outcome(Draft, IF Admits(strong, weak) THEN "none" ELSE "admission", strong, weak)
    <3>1. pc' = "run" /\ outcomes' = Append(outcomes, o)
      BY <2>5 DEF Goes, Enters
    <3>2. strong \in Judgments \cup {Errored} /\ weak \in Judgments \cup {Errored}
      BY <2>2, <2>5 DEF ForgeInv, ForgeTyped
    <3> HIDE DEF weak
    <3>3. Admits(strong, weak) => strong.score >= 35 /\ weak.score <= 30
      <4>1. \A j \in Judgments : j.score \in Int
        BY CommandsAssumption DEF Judgment
      <4> QED BY <3>2, <4>1 DEF Admits, HarnessPasses, InBand, StrongBand, WeakBand
    <3> HIDE DEF Admits
    <3>4. o \in Row /\ o.draft = Draft /\ (o.rejection = "none" => o.strong.score >= 35 /\ o.weak.score <= 30)
      BY <1>1, <3>2, <3>3 DEF Outcome, Row
    <3> HIDE DEF o
    <3> QED BY <1>3, <3>1, <3>4
  <2> QED BY <2>1, <2>3, <2>4, <2>5
<1> QED BY <1>4, <1>5

\* The Writer's batch, cut to what was asked for.
LEMMA WriteKeepsForge == ForgeInv /\ Write => ForgeInv'
<1> SUFFICES ASSUME ForgeInv, Write PROVE ForgeInv'
  OBVIOUS
<1>1. /\ order' = order /\ outcomes' = outcomes /\ seen' = seen /\ filed' = filed
      /\ order.command = "forge" /\ drafts = << >> /\ pc = "run" /\ pc' \in {"run", "over"}
  BY DEF Write, Dispatched, Ends, forging
<1>2. PICK reply \in DraftSets \cup {Errored, Stopped} :
        drafts' = drafts \/ (reply \in DraftSets /\ drafts' = Truncated(reply, order.n))
  BY DEF Write, Dispatched, forging
<1>3. order.n \in Nat /\ outcomes \in Seq(Row) /\ Len(outcomes) = 0
  BY <1>1, OrdersAssumption DEF ForgeInv, ForgeTyped
<1>4. drafts' \in Seq(Sketched) /\ Len(drafts') \in Nat /\ (drafts' # << >> => Len(drafts') <= order.n)
  <2>1. CASE drafts' = drafts
    BY <1>1, <2>1 DEF ForgeInv, ForgeTyped
  <2>2. CASE reply \in DraftSets /\ drafts' = Truncated(reply, order.n)
    <3>1. reply \in Seq({reply[i] : i \in DOMAIN reply})
      BY <2>2, DraftsAssumption
    <3>2. {reply[i] : i \in DOMAIN reply} \subseteq Sketched
      BY <2>2 DEF Sketched
    <3>3. reply \in Seq(Sketched) /\ Len(reply) \in Nat
      BY <3>1, <3>2
    <3>4. PICK m \in Nat : m <= Len(reply) /\ m <= order.n /\ Truncated(reply, order.n) = SubSeq(reply, 1, m)
      BY <1>3, <3>3 DEF Truncated
    <3>5. SubSeq(reply, 1, m) \in Seq(Sketched) /\ Len(SubSeq(reply, 1, m)) = m
      BY <3>3, <3>4
    <3> QED BY <1>3, <2>2, <3>4, <3>5
  <2> QED BY <1>2, <2>1, <2>2
<1>5. ForgeTyped'
  BY <1>1, <1>3, <1>4 DEF ForgeInv, ForgeTyped
<1>6. RowsFair' /\ PromptsApart' /\ DraftFresh'
  BY <1>1 DEF ForgeInv, RowsFair, Fair, PromptsApart, DraftFresh
<1> QED BY <1>5, <1>6 DEF ForgeInv

LEMMA OthersKeepForge ==
  ForgeInv /\ (Main \/ Gate \/ JudgeCase \/ Report \/ WriteQueue \/ Diagnose \/ PlanStudy \/ UNCHANGED vars)
    => ForgeInv'
<1> SUFFICES ASSUME ForgeInv, \/ Main \/ Gate \/ JudgeCase \/ Report \/ WriteQueue
                              \/ Diagnose \/ PlanStudy \/ UNCHANGED vars
    PROVE ForgeInv'
  OBVIOUS
<1>1. /\ UNCHANGED <<order, drafts, outcomes, seen, strong>>
      /\ pc' \in {"gate", "run", "over"} \/ UNCHANGED pc
  BY DEF Main, Gate, JudgeCase, Report, WriteQueue, Diagnose, PlanStudy, vars, forging, Dispatched, Ends,
     Goes, Prints
<1>2. filed' = "queue" => filed = "queue" \/ drafts # << >>
  BY DEF Main, Gate, JudgeCase, Report, WriteQueue, Diagnose, PlanStudy, vars, Dispatched
<1>3. ForgeTyped'
  BY <1>1, <1>2 DEF ForgeInv, ForgeTyped
<1>4. RowsFair' /\ PromptsApart' /\ DraftFresh'
  BY <1>1 DEF ForgeInv, RowsFair, Fair, PromptsApart, DraftFresh, Draft
<1> QED BY <1>3, <1>4 DEF ForgeInv

LEMMA UnionCounted ==
  ASSUME NEW S, NEW T, IsFiniteSet(S), IsFiniteSet(T), S \cap T = {}
  PROVE  IsFiniteSet(S \cup T) /\ Cardinality(S \cup T) = Cardinality(S) + Cardinality(T)
<1>1. Cardinality(S \cap T) = 0
  BY FS_EmptySet
<1>2. IsFiniteSet(S \cup T) /\ Cardinality(S \cup T) = Cardinality(S) + Cardinality(T) - Cardinality(S \cap T)
  BY FS_Union
<1>3. Cardinality(S) \in Nat /\ Cardinality(T) \in Nat
  BY FS_CardinalityType
<1> QED BY <1>1, <1>2, <1>3

\* The survivors of the last gate are the rows of the queue.
LEMMA YieldCounted ==
  ASSUME ForgeTyped
  PROVE  GateYield(outcomes).admission = Cardinality(Queue(outcomes))
<1> DEFINE At(gate) == {i \in DOMAIN outcomes : outcomes[i].rejection = gate}
<1>1. outcomes \in Seq(Row) /\ Len(outcomes) \in Nat /\ DOMAIN outcomes = 1..Len(outcomes)
  BY DEF ForgeTyped
<1>2. IsFiniteSet(DOMAIN outcomes) /\ Cardinality(DOMAIN outcomes) = Len(outcomes)
  <2>1. 1 \in Int /\ Len(outcomes) \in Int
    BY <1>1
  <2> QED BY <1>1, <2>1, FS_Interval
<1>3. \A gate : IsFiniteSet(At(gate)) /\ Cardinality(At(gate)) \in Nat
  BY <1>2, FS_Subset, FS_CardinalityType
<1> DEFINE A == At("contract")
           B == At("novelty")
           C == At("admission")
           D == At("none")
<1>4. A \cup B \cup C \cup D = DOMAIN outcomes
  <2>1. \A i \in DOMAIN outcomes : outcomes[i] \in Row
    BY <1>1
  <2>2. \A i \in DOMAIN outcomes :
          outcomes[i].rejection \in {"contract", "novelty", "admission", "none"}
    BY <2>1, Zenon DEF Row
  <2> QED BY <2>2
<1>5. A \cap B = {} /\ (A \cup B) \cap C = {} /\ (A \cup B \cup C) \cap D = {}
  OBVIOUS
<1>6. /\ IsFiniteSet(A) /\ IsFiniteSet(B) /\ IsFiniteSet(C) /\ IsFiniteSet(D)
      /\ Cardinality(A) \in Nat /\ Cardinality(B) \in Nat /\ Cardinality(C) \in Nat /\ Cardinality(D) \in Nat
  BY <1>3
<1>7. GateYield(outcomes).admission = Len(outcomes) - Cardinality(A) - Cardinality(B) - Cardinality(C)
  BY DEF GateYield, RejectedAt
<1>8. Queue(outcomes) = D
  BY DEF Queue
<1> HIDE DEF A, B, C, D
<1>9. IsFiniteSet(A \cup B) /\ Cardinality(A \cup B) = Cardinality(A) + Cardinality(B)
  BY <1>5, <1>6, UnionCounted
<1>10. IsFiniteSet((A \cup B) \cup C) /\ Cardinality((A \cup B) \cup C) = Cardinality(A \cup B) + Cardinality(C)
  BY <1>5, <1>6, <1>9, UnionCounted
<1>11. Cardinality((A \cup B \cup C) \cup D) = Cardinality(A \cup B \cup C) + Cardinality(D)
  BY <1>5, <1>6, <1>10, UnionCounted
<1>12. Len(outcomes) = Cardinality(A) + Cardinality(B) + Cardinality(C) + Cardinality(D)
  <2>1. Cardinality(A \cup B \cup C \cup D) = Len(outcomes)
    BY <1>2, <1>4
  <2> QED BY <1>9, <1>10, <1>11, <2>1
<1> QED BY <1>1, <1>6, <1>7, <1>8, <1>12

\* For any batch and any judge: the queue holds no more than was asked for, no prompt twice,
\* nothing the free gates refuse and nothing the judge did not tell apart, and the report's
\* last line counts it (forge.py run_forge, gate_yield, render_review_queue).
THEOREM QueueOfTheForge == Spec => []QueueIsEarned
<1>1. Init => ForgeInv
  BY DEF Init, ForgeInv, ForgeTyped, RowsFair, PromptsApart, DraftFresh
<1>2. ForgeInv /\ [Next]_vars => ForgeInv'
  BY CheapKeepsForge, AdmissionKeepsForge, WriteKeepsForge, OthersKeepForge DEF Next
<1>3. ForgeInv => QueueIsEarned
  <2> SUFFICES ASSUME ForgeInv, filed = "queue" PROVE QueueIsEarned
    BY DEF QueueIsEarned
  <2>1. Len(outcomes) <= order.n
    <3>1. Len(outcomes) \in Nat /\ Len(drafts) \in Nat /\ Len(outcomes) <= Len(drafts)
          /\ Len(drafts) <= order.n /\ order.n \in Nat
      BY OrdersAssumption DEF ForgeInv, ForgeTyped
    <3> QED BY <3>1
  <2>2. GateYield(outcomes).admission = Cardinality(Queue(outcomes))
    BY YieldCounted DEF ForgeInv
  <2>3. \A i \in Queue(outcomes) : i \in DOMAIN outcomes /\ outcomes[i].rejection = "none"
    BY DEF Queue
  <2>4. \A i, j \in Queue(outcomes) : outcomes[i].draft.prompt = outcomes[j].draft.prompt => i = j
    BY <2>3 DEF ForgeInv, PromptsApart, Paid
  <2>5. \A i \in Queue(outcomes) : outcomes[i].strong.score >= 35 /\ outcomes[i].weak.score <= 30
    BY <2>3 DEF ForgeInv, RowsFair, Fair
  <2>6. \A i \in DOMAIN outcomes : outcomes[i].rejection \in {"none", "admission"} =>
          outcomes[i].draft.sound /\ outcomes[i].draft.seeded /\ outcomes[i].draft.prompt \notin Near
    BY DEF ForgeInv, RowsFair, Fair, Paid, Clean
  <2> QED BY <2>1, <2>2, <2>4, <2>5, <2>6 DEF QueueIsEarned
<1> QED BY <1>1, <1>2, <1>3, PTL DEF Spec
-----------------------------------------------------------------------------
(* The study plan.                                                         *)

LEMMA SkillsPlaced ==
  /\ IsFiniteSet(Skills)
  /\ \A s \in Skills : Place(s) \in Nat
  /\ \A s, t \in Skills : Place(s) = Place(t) => s = t
<1>1. DOMAIN Alphabet = 1..5
  BY DEF Alphabet
<1>2. Skills = {Alphabet[i] : i \in 1..5}
  BY <1>1 DEF Skills, ToSet
<1>3. IsFiniteSet(1..5)
  <2>1. 1 \in Int /\ 5 \in Int
    OBVIOUS
  <2> QED BY <2>1, FS_Interval
<1>4. IsFiniteSet(Skills)
  <2> DEFINE f == [i \in 1..5 |-> Alphabet[i]]
  <2>1. f \in Surjection(1..5, Skills)
    BY <1>2 DEF Surjection
  <2> QED BY <1>3, <2>1, FS_Surjection
<1>5. \A s \in Skills : Place(s) \in 1..5 /\ Alphabet[Place(s)] = s
  BY <1>1, <1>2 DEF Place
<1> QED BY <1>4, <1>5

LEMMA BonusOfRank ==
  CriticalityBonus[MustHave] = 5000 /\ CriticalityBonus[Core] = 2400 /\ CriticalityBonus[Peripheral] = 0
<1>1. (5 * Unit) \div 2 = 5000 /\ (6 * Unit) \div 5 = 2400
  BY DEF Unit
<1> QED BY <1>1 DEF CriticalityBonus, MustHave, Core, Peripheral

LEMMA PriorityTyped ==
  ASSUME NEW x \in SkillState
  PROVE  /\ Priority(x) \in Int /\ x.rank \in {0, 1, 2} /\ x.mastery \in Int /\ x.confidence \in Int
         /\ Priority(x) = 10 * (2000 - x.mastery) + CriticalityBonus[x.rank] + (2000 - x.confidence)
         /\ x.rank = 0 => CriticalityBonus[x.rank] = 5000
         /\ x.rank = 1 => CriticalityBonus[x.rank] = 2400
         /\ x.rank = 2 => CriticalityBonus[x.rank] = 0
<1>1. x.rank \in {0, 1, 2} /\ x.mastery \in Int /\ x.confidence \in Int
  BY DEF SkillState, MustHave, Core, Peripheral
<1>2. /\ x.rank = 0 => CriticalityBonus[x.rank] = 5000
      /\ x.rank = 1 => CriticalityBonus[x.rank] = 2400
      /\ x.rank = 2 => CriticalityBonus[x.rank] = 0
  BY BonusOfRank DEF MustHave, Core, Peripheral
<1>3. Priority(x) = 10 * (2000 - x.mastery) + CriticalityBonus[x.rank] + (2000 - x.confidence)
  BY DEF Priority, Unit
<1>4. CriticalityBonus[x.rank] \in Int
  BY <1>1, <1>2
<1> QED BY <1>1, <1>2, <1>3, <1>4

\* Weaker, needed more and known less surely is a higher priority.
LEMMA WorseComesFirst ==
  ASSUME NEW x \in SkillState, NEW y \in SkillState, Worse(x, y)
  PROVE  Priority(x) > Priority(y)
<1>1. x.rank <= y.rank /\ x.mastery <= y.mastery /\ x.confidence <= y.confidence
  BY DEF Worse
<1>2. x.rank # y.rank \/ x.mastery # y.mastery \/ x.confidence # y.confidence
  <2>1. /\ x = [mastery |-> x.mastery, confidence |-> x.confidence, rank |-> x.rank]
        /\ y = [mastery |-> y.mastery, confidence |-> y.confidence, rank |-> y.rank]
    BY DEF SkillState
  <2> QED BY <2>1 DEF Worse
<1>3. x.rank < y.rank \/ x.rank = y.rank
  BY <1>1, PriorityTyped
<1>4. CriticalityBonus[x.rank] > CriticalityBonus[y.rank] \/ x.rank = y.rank
  BY <1>3, PriorityTyped
<1>5. CriticalityBonus[x.rank] \in Int /\ CriticalityBonus[y.rank] \in Int
  BY PriorityTyped
<1> QED BY <1>1, <1>2, <1>4, <1>5, PriorityTyped

LEMMA StudiedInOrder ==
  ASSUME NEW states, DOMAIN states \subseteq Skills, \A s \in DOMAIN states : states[s] \in SkillState
  PROVE  LET U == DOMAIN states
             R == {p \in U \X U : StudiedBefore(states, p[1], p[2])}
         IN /\ IsFiniteSet(U) /\ StrictOrder(U, R)
            /\ \A s, t \in U : <<s, t>> \in R <=> StudiedBefore(states, s, t)
            /\ \A s \in U : Behind(U, R, s) = Ahead(states, s)
<1> DEFINE U == DOMAIN states
           R == {p \in U \X U : StudiedBefore(states, p[1], p[2])}
<1>1. IsFiniteSet(U)
  BY SkillsPlaced, FS_Subset
<1>2. \A s, t \in U : <<s, t>> \in R <=> StudiedBefore(states, s, t)
  OBVIOUS
<1>3. \A s \in U : Behind(U, R, s) = Ahead(states, s)
  <2> SUFFICES ASSUME NEW s \in U PROVE Behind(U, R, s) = Ahead(states, s)
    OBVIOUS
  <2>1. {t \in U : <<t, s>> \in R} = {t \in U : StudiedBefore(states, t, s)}
    BY <1>2
  <2> QED BY <2>1 DEF Behind, Ahead
<1>4. StrictOrder(U, R)
  <2> DEFINE P(s) == Priority(states[s])
             K(s) == states[s].rank
             M(s) == states[s].mastery
  <2>1. \A s \in U : P(s) \in Int /\ K(s) \in Int /\ M(s) \in Int /\ Place(s) \in Int
    BY PriorityTyped, SkillsPlaced
  <2>2. \A s, t \in U : <<s, t>> \in R <=>
          \/ P(s) > P(t)
          \/ /\ P(s) = P(t)
             /\ \/ K(s) < K(t)
                \/ K(s) = K(t) /\ M(s) < M(t)
                \/ K(s) = K(t) /\ M(s) = M(t) /\ Place(s) < Place(t)
    <3> SUFFICES ASSUME NEW s \in U, NEW t \in U
        PROVE StudiedBefore(states, s, t) <=>
          \/ P(s) > P(t)
          \/ /\ P(s) = P(t)
             /\ \/ K(s) < K(t)
                \/ K(s) = K(t) /\ M(s) < M(t)
                \/ K(s) = K(t) /\ M(s) = M(t) /\ Place(s) < Place(t)
      BY <1>2, Zenon
    <3> QED BY Zenon DEF StudiedBefore
  <2>3. \A s, t \in U : Place(s) = Place(t) => s = t
    BY SkillsPlaced
  <2> HIDE DEF U, R, P, K, M
  <2>4. \A s \in U : <<s, s>> \notin R
    BY <2>1, <2>2
  <2>5. \A s, t \in U : s = t \/ <<s, t>> \in R \/ <<t, s>> \in R
    <3> SUFFICES ASSUME NEW s \in U, NEW t \in U, s # t PROVE <<s, t>> \in R \/ <<t, s>> \in R
      BY Zenon
    <3>1. Place(s) < Place(t) \/ Place(t) < Place(s)
      BY <2>1, <2>3
    <3>2. (P(s) > P(t) \/ P(t) > P(s) \/ P(s) = P(t)) /\ (K(s) < K(t) \/ K(t) < K(s) \/ K(s) = K(t))
             /\ (M(s) < M(t) \/ M(t) < M(s) \/ M(s) = M(t))
      BY <2>1
    <3> QED BY <2>2, <3>1, <3>2
  <2>6. \A s, t, r \in U : <<s, t>> \in R /\ <<t, r>> \in R => <<s, r>> \in R
    <3> SUFFICES ASSUME NEW s \in U, NEW t \in U, NEW r \in U, <<s, t>> \in R, <<t, r>> \in R
        PROVE <<s, r>> \in R
      OBVIOUS
    <3> QED BY <2>1, <2>2
  <2> QED BY <2>4, <2>5, <2>6 DEF StrictOrder
<1> QED BY <1>1, <1>2, <1>3, <1>4

\* Everyone stands at the place the order gives them, and the places are all taken.
LEMMA RankedInOrder ==
  ASSUME NEW states, DOMAIN states \subseteq Skills, \A s \in DOMAIN states : states[s] \in SkillState
  PROVE  LET ranked == RankStudyTargets(states)
         IN /\ ranked \in Seq(DOMAIN states)
            /\ \A i \in DOMAIN ranked : Ahead(states, ranked[i]) = i - 1
            /\ \A s, t \in DOMAIN states :
                 StudiedBefore(states, s, t) => Ahead(states, s) \in Nat /\ Ahead(states, s) < Ahead(states, t)
            /\ \A i \in DOMAIN ranked, s \in DOMAIN states : Ahead(states, s) = i - 1 => s = ranked[i]
<1> DEFINE U == DOMAIN states
           R == {p \in U \X U : StudiedBefore(states, p[1], p[2])}
           At(i) == CHOOSE s \in U : Ahead(states, s) = i - 1
           n == Cardinality(U)
<1>1. /\ IsFiniteSet(U) /\ StrictOrder(U, R)
      /\ \A s, t \in U : <<s, t>> \in R <=> StudiedBefore(states, s, t)
      /\ \A s \in U : Behind(U, R, s) = Ahead(states, s)
  BY StudiedInOrder
<1>2. n \in Nat
  BY <1>1, FS_CardinalityType
<1>3. RankStudyTargets(states) = [i \in 1..n |-> At(i)]
  BY DEF RankStudyTargets
<1> HIDE DEF U, R, n
<1>4. ASSUME NEW i \in 1..n PROVE At(i) \in U /\ Ahead(states, At(i)) = i - 1
  <2>1. i - 1 \in Nat /\ i - 1 < n
    BY <1>2
  <2>2. \E s \in U : Behind(U, R, s) = i - 1
    BY <1>1, <2>1, PlacesFilled DEF n
  <2>3. \E s \in U : Ahead(states, s) = i - 1
    BY <1>1, <2>2
  <2> QED BY <2>3
<1>5. \A s, t \in U : StudiedBefore(states, s, t) => Ahead(states, s) \in Nat /\ Ahead(states, s) < Ahead(states, t)
  <2> SUFFICES ASSUME NEW s \in U, NEW t \in U, <<s, t>> \in R
      PROVE Ahead(states, s) \in Nat /\ Ahead(states, s) < Ahead(states, t)
    BY <1>1
  <2>1. Behind(U, R, s) \in Nat /\ Behind(U, R, t) \in Nat
    BY <1>1, BehindTyped
  <2>2. Behind(U, R, s) + 1 <= Behind(U, R, t)
    BY <1>1, BehindGrows
  <2>3. Behind(U, R, s) = Ahead(states, s) /\ Behind(U, R, t) = Ahead(states, t)
    BY <1>1
  <2> QED BY <2>1, <2>2, <2>3
<1>6. \A s, t \in U : Ahead(states, s) = Ahead(states, t) => s = t
  <2> SUFFICES ASSUME NEW s \in U, NEW t \in U, s # t PROVE Ahead(states, s) # Ahead(states, t)
    OBVIOUS
  <2>1. Ahead(states, s) \in Nat /\ Ahead(states, t) \in Nat
    BY <1>1, BehindTyped
  <2>2. StudiedBefore(states, s, t) \/ StudiedBefore(states, t, s)
    BY <1>1 DEF StrictOrder
  <2> QED BY <1>5, <2>1, <2>2
<1> HIDE DEF At
<1>7. [i \in 1..n |-> At(i)] \in Seq(U)
  BY <1>2, <1>4
<1>8. \A i \in 1..n, s \in U : Ahead(states, s) = i - 1 => s = At(i)
  BY <1>4, <1>6
<1> DEFINE ranked == [i \in 1..n |-> At(i)]
<1>9. /\ DOMAIN ranked = 1..n
      /\ \A i \in 1..n : ranked[i] = At(i)
  OBVIOUS
<1> HIDE DEF ranked
<1>10. /\ ranked \in Seq(U)
       /\ \A i \in DOMAIN ranked : Ahead(states, ranked[i]) = i - 1
       /\ \A i \in DOMAIN ranked, s \in U : Ahead(states, s) = i - 1 => s = ranked[i]
  BY <1>4, <1>7, <1>8, <1>9 DEF ranked
<1> QED BY <1>3, <1>5, <1>10 DEF U, ranked

\* The plan that is printed is a draft that passed the validators, on the targets of the order.
Planned == /\ order \in Orders
           /\ (order.command = "postmortem" /\ product # None) =>
                \E draft : product = Materialize(draft) /\ ValidStudyPlan(draft, order.states, found)

LEMMA PlannedGate == Ending /\ Planned /\ (Main \/ Gate) => Planned'
<1> SUFFICES ASSUME Ending, Planned, Main \/ Gate PROVE Planned'
  OBVIOUS
<1>1. product = None /\ product' = product /\ order' = order
  BY DEF Ending, Main, Gate
<1> QED BY <1>1 DEF Planned

LEMMA PlannedPlan == Ending /\ Planned /\ PlanStudy => Planned'
<1> SUFFICES ASSUME Ending, Planned, PlanStudy PROVE Planned'
  OBVIOUS
<1>1. product = None /\ order' = order /\ found' = found
  BY DEF Ending, PlanStudy
<1>2. \/ product' = product
      \/ \E draft : product' = Materialize(draft) /\ ValidStudyPlan(draft, order.states, found)
  BY DEF PlanStudy, Dispatched, Prints
<1> QED BY <1>1, <1>2 DEF Planned

LEMMA PlannedOthers ==
  Planned /\ (\/ JudgeCase \/ Report \/ Write \/ CheapGates \/ AnswerPair \/ JudgeAnswer \/ WriteQueue
              \/ UNCHANGED vars) => Planned'
<1> SUFFICES ASSUME Planned, \/ JudgeCase \/ Report \/ Write \/ CheapGates \/ AnswerPair \/ JudgeAnswer
                             \/ WriteQueue \/ UNCHANGED vars
    PROVE Planned'
  OBVIOUS
<1>1. product' = product /\ order' = order /\ found' = found
  BY DEF JudgeCase, Report, Write, CheapGates, AnswerPair, JudgeAnswer, WriteQueue, Dispatched, vars
<1> QED BY <1>1 DEF Planned

LEMMA PlannedDiagnosis == Planned /\ Diagnose => Planned'
BY DEF Planned, Diagnose

LEMMA PlansHeld == Spec => [](Ending /\ Planned)
<1>1. Init => Ending /\ Planned
  BY EndingInit DEF Init, Planned
<1>2. Ending /\ Planned /\ [Next]_vars => (Ending /\ Planned)'
  <2> SUFFICES ASSUME Ending, Planned, [Next]_vars PROVE (Ending /\ Planned)'
    OBVIOUS
  <2>1. Planned'
    BY PlannedGate, PlannedPlan, PlannedOthers, PlannedDiagnosis DEF Next
  <2>2. Ending'
    BY EndingStep
  <2> QED BY <2>1, <2>2
<1> QED BY <1>1, <1>2, PTL DEF Spec

\* Whoever is worse off than a target is a target before it.
LEMMA WorseIsEarlier ==
  ASSUME NEW states, DOMAIN states \subseteq Skills, \A s \in DOMAIN states : states[s] \in SkillState,
         NEW i \in DOMAIN Targets(states), NEW s \in DOMAIN states,
         Worse(states[s], states[Targets(states)[i]])
  PROVE  \E j \in 1..(i - 1) : j \in DOMAIN Targets(states) /\ Targets(states)[j] = s
<1> DEFINE ranked == RankStudyTargets(states)
           m == Smaller(TopicCount, Len(ranked))
<1>1. /\ ranked \in Seq(DOMAIN states)
      /\ \A k \in DOMAIN ranked : Ahead(states, ranked[k]) = k - 1
      /\ \A x, y \in DOMAIN states :
           StudiedBefore(states, x, y) => Ahead(states, x) \in Nat /\ Ahead(states, x) < Ahead(states, y)
      /\ \A k \in DOMAIN ranked, x \in DOMAIN states : Ahead(states, x) = k - 1 => x = ranked[k]
  BY RankedInOrder
<1>2. Targets(states) = SubSeq(ranked, 1, m)
  BY DEF Targets
<1> HIDE DEF ranked
<1>3. m \in Nat /\ m <= Len(ranked) /\ Len(ranked) \in Nat /\ DOMAIN ranked = 1..Len(ranked)
  BY <1>1, StudyAssumption DEF Smaller
<1> HIDE DEF m
<1>4. /\ DOMAIN Targets(states) = 1..m
      /\ \A k \in 1..m : Targets(states)[k] = ranked[k]
  BY <1>1, <1>2, <1>3
<1>5. i \in 1..m /\ i \in DOMAIN ranked /\ ranked[i] \in DOMAIN states /\ Targets(states)[i] = ranked[i]
  BY <1>1, <1>3, <1>4
<1>6. StudiedBefore(states, s, ranked[i])
  <2>1. Priority(states[s]) > Priority(states[ranked[i]])
    BY <1>5, WorseComesFirst
  <2> QED BY <2>1 DEF StudiedBefore
<1>7. Ahead(states, s) \in Nat /\ Ahead(states, s) < i - 1
  BY <1>1, <1>5, <1>6
<1>8. Ahead(states, s) + 1 \in 1..(i - 1) /\ Ahead(states, s) + 1 \in 1..m
  BY <1>3, <1>5, <1>7
<1>9. s = ranked[Ahead(states, s) + 1]
  <2>1. Ahead(states, s) + 1 \in DOMAIN ranked
    BY <1>3, <1>8
  <2>2. Ahead(states, s) = (Ahead(states, s) + 1) - 1
    BY <1>7
  <2> QED BY <1>1, <2>1, <2>2
<1> QED BY <1>4, <1>8, <1>9

\* A study plan passes nobody over: whoever is needed no less, known no better and no more surely
\* than one of its Skills is in it, and earlier; and every topic cites a resource of its own Skill.
THEOREM NobodyPassedOver == Spec => []NobodyWeakerPassedOver
<1>1. Planned => NobodyWeakerPassedOver
  <2> SUFFICES ASSUME Planned, order.command = "postmortem", product # None
      PROVE  /\ \A i \in DOMAIN product.topics, s \in DOMAIN order.states :
                  Worse(order.states[s], order.states[product.topics[i].skill]) =>
                     \E j \in 1..(i - 1) : product.topics[j].skill = s
             /\ \A i \in DOMAIN product.topics :
                  \E id \in product.topics[i].cites : Catalog[id] = product.topics[i].skill
    BY DEF NobodyWeakerPassedOver
  <2>1. DOMAIN order.states \subseteq Skills /\ \A s \in DOMAIN order.states : order.states[s] \in SkillState
    BY OrdersAssumption DEF Planned
  <2>2. PICK draft : product = Materialize(draft) /\ ValidStudyPlan(draft, order.states, found)
    BY DEF Planned
  <2>3. product.topics = draft.topics
    BY <2>2 DEF Materialize
  <2>4. [i \in DOMAIN product.topics |-> product.topics[i].skill] = Targets(order.states)
    BY <2>2, <2>3 DEF ValidStudyPlan
  <2>5. /\ DOMAIN product.topics = DOMAIN Targets(order.states)
        /\ \A i \in DOMAIN product.topics : product.topics[i].skill = Targets(order.states)[i]
    BY <2>4
  <2>6. \A i \in DOMAIN product.topics, s \in DOMAIN order.states :
          Worse(order.states[s], order.states[product.topics[i].skill]) =>
             \E j \in 1..(i - 1) : product.topics[j].skill = s
    BY <2>1, <2>5, WorseIsEarlier
  <2>7. \A i \in DOMAIN product.topics :
          \E id \in product.topics[i].cites : Catalog[id] = product.topics[i].skill
    BY <2>2, <2>3 DEF ValidStudyPlan, CitesItsOwn
  <2> QED BY <2>6, <2>7
<1> QED BY <1>1, PlansHeld, PTL
-----------------------------------------------------------------------------
(* The Diagnostic's prior means. The correlation table has six rows: what  *)
(* the walk over it, and the sum of its first-hand hints, leave at each.   *)

LEMMA SkillNames ==
  /\ DOMAIN Alphabet = 1..5
  /\ Skills = {"deep_learning", "ml_fundamentals", "mlops", "system_design", "vietnamese_nlp"}
<1>1. DOMAIN Alphabet = 1..5
  BY DEF Alphabet
<1>2. Skills = {Alphabet[i] : i \in 1..5}
  BY <1>1 DEF Skills, ToSet
<1>3. 1..5 = {1, 2, 3, 4, 5}
  OBVIOUS
<1>4. /\ Alphabet[1] = "deep_learning" /\ Alphabet[2] = "ml_fundamentals" /\ Alphabet[3] = "mlops"
      /\ Alphabet[4] = "system_design" /\ Alphabet[5] = "vietnamese_nlp"
  BY DEF Alphabet
<1>5. Skills = {Alphabet[i] : i \in {1, 2, 3, 4, 5}}
  BY <1>2, <1>3
<1> HIDE DEF Alphabet
<1> QED BY <1>1, <1>4, <1>5

LEMMA CorrelationRows ==
  /\ Len(Correlations) = 6
  /\ Correlations[1].from = "ml_fundamentals" /\ Correlations[1].to = "deep_learning"
  /\ Correlations[1].percent = 16
  /\ Correlations[2].from = "deep_learning" /\ Correlations[2].to = "ml_fundamentals"
  /\ Correlations[2].percent = 12
  /\ Correlations[3].from = "system_design" /\ Correlations[3].to = "mlops"
  /\ Correlations[3].percent = 10
  /\ Correlations[4].from = "mlops" /\ Correlations[4].to = "system_design"
  /\ Correlations[4].percent = 10
  /\ Correlations[5].from = "vietnamese_nlp" /\ Correlations[5].to = "ml_fundamentals"
  /\ Correlations[5].percent = 5
  /\ Correlations[6].from = "vietnamese_nlp" /\ Correlations[6].to = "deep_learning"
  /\ Correlations[6].percent = 5
BY DEF Correlations, Correlation

\* f holds the means after each row.
WalkOf(f, p) == f = [n \in 0..Len(Correlations) |->
                       IF n = 0 THEN Told(p) ELSE Nudge(p, f[n - 1], Correlations[n])]

LEMMA MeansWalked ==
  ASSUME NEW p
  PROVE  \E f : /\ f[0] = Told(p) /\ InitialMeans(p) = f[6]
                /\ \A n \in 1..6 : f[n] = Nudge(p, f[n - 1], Correlations[n])
<1> DEFINE m1 == Nudge(p, Told(p), Correlations[1])
           m2 == Nudge(p, m1, Correlations[2])
           m3 == Nudge(p, m2, Correlations[3])
           m4 == Nudge(p, m3, Correlations[4])
           m5 == Nudge(p, m4, Correlations[5])
           m6 == Nudge(p, m5, Correlations[6])
           g == [n \in 0..Len(Correlations) |->
                   IF n = 0 THEN Told(p) ELSE IF n = 1 THEN m1 ELSE IF n = 2 THEN m2 ELSE
                   IF n = 3 THEN m3 ELSE IF n = 4 THEN m4 ELSE IF n = 5 THEN m5 ELSE m6]
<1>1. Len(Correlations) = 6
  BY CorrelationRows
<1>2. /\ g[0] = Told(p) /\ g[1] = m1 /\ g[2] = m2 /\ g[3] = m3 /\ g[4] = m4 /\ g[5] = m5 /\ g[6] = m6
      /\ g = [n \in 0..Len(Correlations) |-> g[n]]
  <2> HIDE DEF m1, m2, m3, m4, m5, m6
  <2> QED BY <1>1
<1> HIDE DEF g
<1>3. ASSUME NEW n \in 0..Len(Correlations)
      PROVE  g[n] = IF n = 0 THEN Told(p) ELSE Nudge(p, g[n - 1], Correlations[n])
  <2>1. n \in {0, 1, 2, 3, 4, 5, 6}
    BY <1>1
  <2> HIDE DEF m1, m2, m3, m4, m5, m6
  <2>2. n = 1 => n - 1 = 0
    OBVIOUS
  <2>3. n = 2 => n - 1 = 1
    OBVIOUS
  <2>4. n = 3 => n - 1 = 2
    OBVIOUS
  <2>5. n = 4 => n - 1 = 3
    OBVIOUS
  <2>6. n = 5 => n - 1 = 4
    OBVIOUS
  <2>7. n = 6 => n - 1 = 5
    OBVIOUS
  <2> QED BY <1>2, <2>1, <2>2, <2>3, <2>4, <2>5, <2>6, <2>7 DEF m1, m2, m3, m4, m5, m6
<1>4. WalkOf(g, p)
  <2>1. [n \in 0..Len(Correlations) |-> g[n]] =
          [n \in 0..Len(Correlations) |-> IF n = 0 THEN Told(p) ELSE Nudge(p, g[n - 1], Correlations[n])]
    BY <1>3, Zenon
  <2> QED BY <1>2, <2>1, Zenon DEF WalkOf
<1>5. WalkOf(CHOOSE f : WalkOf(f, p), p)
  BY <1>4, Zenon
<1> DEFINE f == CHOOSE f : WalkOf(f, p)
<1>6. InitialMeans(p) = f[Len(Correlations)]
  BY Zenon DEF InitialMeans, WalkOf
<1> HIDE DEF f
<1>7. WalkOf(f, p)
  BY <1>5 DEF f
<1>8. \A n \in 0..Len(Correlations) :
        f[n] = IF n = 0 THEN Told(p) ELSE Nudge(p, f[n - 1], Correlations[n])
  BY <1>7, Zenon DEF WalkOf
<1>9. f[0] = Told(p) /\ \A n \in 1..6 : f[n] = Nudge(p, f[n - 1], Correlations[n])
  <2>1. 0 \in 0..6 /\ \A n \in 1..6 : n \in 0..6 /\ n # 0
    OBVIOUS
  <2> QED BY <1>1, <1>8, <2>1, Zenon
<1> QED BY <1>1, <1>6, <1>9

\* f holds the sum of the hints after each row.
HintsOf(f, p, s) == f = [n \in 0..Len(Correlations) |->
                           IF n = 0 THEN Neutral ELSE f[n - 1] + Hint(p, s, Correlations[n])]

LEMMA HintsSummed ==
  ASSUME NEW p, NEW s, s \notin Informed(p)
  PROVE  \E f : /\ f[0] = Neutral /\ FirstHand(p, s) = f[6]
                /\ \A n \in 1..6 : f[n] = f[n - 1] + Hint(p, s, Correlations[n])
<1> DEFINE h(n) == Hint(p, s, Correlations[n])
           m1 == Neutral + h(1)
           m2 == m1 + h(2)
           m3 == m2 + h(3)
           m4 == m3 + h(4)
           m5 == m4 + h(5)
           m6 == m5 + h(6)
           g == [n \in 0..Len(Correlations) |->
                   IF n = 0 THEN Neutral ELSE IF n = 1 THEN m1 ELSE IF n = 2 THEN m2 ELSE
                   IF n = 3 THEN m3 ELSE IF n = 4 THEN m4 ELSE IF n = 5 THEN m5 ELSE m6]
<1>1. Len(Correlations) = 6
  BY CorrelationRows
<1> HIDE DEF h
<1>2. /\ g[0] = Neutral /\ g[1] = m1 /\ g[2] = m2 /\ g[3] = m3 /\ g[4] = m4 /\ g[5] = m5 /\ g[6] = m6
      /\ g = [n \in 0..Len(Correlations) |-> g[n]]
  <2> HIDE DEF m1, m2, m3, m4, m5, m6
  <2> QED BY <1>1
<1> HIDE DEF g
<1>3. ASSUME NEW n \in 0..Len(Correlations)
      PROVE  g[n] = IF n = 0 THEN Neutral ELSE g[n - 1] + h(n)
  <2>1. n \in {0, 1, 2, 3, 4, 5, 6}
    BY <1>1
  <2> HIDE DEF m1, m2, m3, m4, m5, m6
  <2>2. n = 1 => n - 1 = 0
    OBVIOUS
  <2>3. n = 2 => n - 1 = 1
    OBVIOUS
  <2>4. n = 3 => n - 1 = 2
    OBVIOUS
  <2>5. n = 4 => n - 1 = 3
    OBVIOUS
  <2>6. n = 5 => n - 1 = 4
    OBVIOUS
  <2>7. n = 6 => n - 1 = 5
    OBVIOUS
  <2> QED BY <1>2, <2>1, <2>2, <2>3, <2>4, <2>5, <2>6, <2>7 DEF m1, m2, m3, m4, m5, m6
<1>4. HintsOf(g, p, s)
  <2>1. [n \in 0..Len(Correlations) |-> g[n]] =
          [n \in 0..Len(Correlations) |-> IF n = 0 THEN Neutral ELSE g[n - 1] + h(n)]
    BY <1>3, Zenon
  <2> QED BY <1>2, <2>1, Zenon DEF HintsOf, h
<1>5. HintsOf(CHOOSE f : HintsOf(f, p, s), p, s)
  BY <1>4, Zenon
<1> DEFINE f == CHOOSE f : HintsOf(f, p, s)
<1>6. FirstHand(p, s) = f[Len(Correlations)]
  BY Zenon DEF FirstHand, HintsOf
<1> HIDE DEF f
<1>7. HintsOf(f, p, s)
  BY <1>5 DEF f
<1>8. \A n \in 0..Len(Correlations) :
        f[n] = IF n = 0 THEN Neutral ELSE f[n - 1] + Hint(p, s, Correlations[n])
  BY <1>7, Zenon DEF HintsOf
<1>9. f[0] = Neutral /\ \A n \in 1..6 : f[n] = f[n - 1] + Hint(p, s, Correlations[n])
  <2>1. 0 \in 0..6 /\ \A n \in 1..6 : n \in 0..6 /\ n # 0
    OBVIOUS
  <2> QED BY <1>1, <1>8, <2>1, Zenon
<1> QED BY <1>1, <1>6, <1>9

\* Away from both ends, where no clamp bites.
Moderate == 100..1900
\* Neither end itself, where a Beta has no room.
Inner == 1..1999
Within(x, n) == x \in Int /\ -n <= x /\ x <= n

LEMMA ClampTyped == ASSUME NEW m \in Int PROVE ClampMean(m) \in Moderate
BY DEF ClampMean, Larger, Smaller, Unit, Moderate

\* What the profile says itself stays away from both ends, and is neutral where it says nothing.
LEMMA ToldTyped ==
  ASSUME NEW p, ProfileOK(p)
  PROVE  /\ Told(p) = [s \in Skills |-> Told(p)[s]]
         /\ \A s \in Skills : Told(p)[s] \in Moderate
         /\ \A s \in Skills : s \notin Informed(p) => Told(p)[s] = 1000
<1>1. ASSUME NEW s \in Skills
      PROVE  Told(p)[s] \in Moderate /\ (s \notin Informed(p) => Told(p)[s] = 1000)
  <2>1. Told(p)[s] = IF s \in DOMAIN p.carried THEN ClampMean(p.carried[s])
                     ELSE IF s \in DOMAIN p.claims THEN SelfAssessmentToMean(p.claims[s])
                     ELSE Neutral
    BY DEF Told
  <2>2. ASSUME NEW c \in 1..5 PROVE SelfAssessmentToMean(c) \in Moderate
    BY DEF SelfAssessmentToMean, Unit, Moderate
  <2>4. Neutral = 1000
    BY DEF Neutral, Unit
  <2>5. /\ s \in DOMAIN p.carried => p.carried[s] \in Int
        /\ s \in DOMAIN p.claims => p.claims[s] \in 1..5
    <3>1. \A x \in DOMAIN p.carried : p.carried[x] \in Int
      BY DEF ProfileOK
    <3>2. \A x \in DOMAIN p.claims : p.claims[x] \in 1..5
      BY DEF ProfileOK
    <3> QED BY <3>1, <3>2, Zenon
  <2>6. CASE s \in DOMAIN p.carried
    <3>1. p.carried[s] \in Int
      BY <2>5, <2>6, Zenon
    <3>2. Told(p)[s] = ClampMean(p.carried[s])
      BY <2>1, <2>6
    <3>3. s \in Informed(p)
      <4> DEFINE C == DOMAIN p.carried
      <4>1. s \in C
        BY <2>6
      <4> HIDE DEF C
      <4>2. Informed(p) = DOMAIN p.claims \cup C
        BY DEF Informed, C
      <4> QED BY <4>1, <4>2
    <3>4. ClampMean(p.carried[s]) \in Moderate
      BY <3>1, ClampTyped, Zenon
    <3> QED BY <3>2, <3>3, <3>4
  <2>7. CASE s \notin DOMAIN p.carried /\ s \in DOMAIN p.claims
    BY <2>1, <2>2, <2>5, <2>7 DEF Informed
  <2>8. CASE s \notin DOMAIN p.carried /\ s \notin DOMAIN p.claims
    BY <2>1, <2>4, <2>8 DEF Informed, Moderate
  <2> QED BY <2>6, <2>7, <2>8
<1>2. Told(p) = [s \in Skills |-> Told(p)[s]]
  BY DEF Told
<1> QED BY <1>1, <1>2

\* A row moves one mean, and only of a Skill nobody spoke of.
LEMMA NudgeMoves ==
  ASSUME NEW p, NEW m, NEW c, c.from \in Skills, c.to \in Skills,
         m = [s \in Skills |-> m[s]],
         NEW n, n = Nudge(p, m, c)
  PROVE  /\ n = [s \in Skills |-> n[s]]
         /\ \A s \in Skills : s # c.to => n[s] = m[s]
         /\ c.to \in Informed(p) => n[c.to] = m[c.to]
         /\ c.to \notin Informed(p) =>
              n[c.to] = ClampMean(m[c.to] + (((m[c.from] - Neutral) * c.percent) \div 100))
<1>1. CASE c.to \in Informed(p)
  BY <1>1 DEF Nudge, MayNudge
<1>2. CASE c.to \notin Informed(p)
  <2> DEFINE v == ClampMean(m[c.to] + (((m[c.from] - Neutral) * c.percent) \div 100))
  <2>1. n = [m EXCEPT ![c.to] = v]
    BY <1>2 DEF Nudge, MayNudge
  <2> HIDE DEF v
  <2>2. DOMAIN m = Skills
    OBVIOUS
  <2>3. n = [s \in Skills |-> n[s]] /\ n[c.to] = v /\ \A s \in Skills : s # c.to => n[s] = m[s]
    BY <2>1, <2>2
  <2> QED BY <1>2, <2>3 DEF v
<1> QED BY <1>1, <1>2

LEMMA NeutralMean == Neutral = 1000
BY DEF Unit, Neutral

\* What a row of k percent makes of a mean.
HintOf(m, k) == ((m - 1000) * k) \div 100

LEMMA HintBounds ==
  ASSUME NEW m \in Moderate
  PROVE  /\ Within(HintOf(m, 16), 144) /\ Within(HintOf(m, 12), 108)
         /\ Within(HintOf(m, 10), 90) /\ Within(HintOf(m, 5), 45)
BY DEF HintOf, Moderate, Within

LEMMA HintNeutral == /\ HintOf(1000, 16) = 0 /\ HintOf(1000, 12) = 0
                     /\ HintOf(1000, 10) = 0 /\ HintOf(1000, 5) = 0
BY DEF HintOf

\* A row says nothing of a Skill but its own, nor for a source that stands where it began.
LEMMA HintValue ==
  ASSUME NEW p, ProfileOK(p), NEW s \in Skills, NEW c,
         c.from \in Skills, c.to \in Skills, c.percent \in {5, 10, 12, 16}
  PROVE  Hint(p, s, c) = IF c.to = s THEN HintOf(Told(p)[c.from], c.percent) ELSE 0
<1>1. c.from \notin Informed(p) => HintOf(Told(p)[c.from], c.percent) = 0
  <2>1. c.from \notin Informed(p) => Told(p)[c.from] = 1000
    BY ToldTyped
  <2>2. HintOf(1000, c.percent) = 0
    BY DEF HintOf
  <2> QED BY <2>1, <2>2
<1> QED BY <1>1, NeutralMean DEF Hint, HintOf

LEMMA FirstHandValues ==
  ASSUME NEW p, ProfileOK(p), NEW s \in Skills
  PROVE  LET told == Told(p)
             hint(x, k) == HintOf(told[x], k)
         IN /\ s \in Informed(p) => FirstHand(p, s) = told[s]
            /\ s \notin Informed(p) =>
                 FirstHand(p, s) = 1000
                   + (IF "deep_learning" = s THEN hint("ml_fundamentals", 16) ELSE 0)
                   + (IF "ml_fundamentals" = s THEN hint("deep_learning", 12) ELSE 0)
                   + (IF "mlops" = s THEN hint("system_design", 10) ELSE 0)
                   + (IF "system_design" = s THEN hint("mlops", 10) ELSE 0)
                   + (IF "ml_fundamentals" = s THEN hint("vietnamese_nlp", 5) ELSE 0)
                   + (IF "deep_learning" = s THEN hint("vietnamese_nlp", 5) ELSE 0)
<1>1. s \in Informed(p) => FirstHand(p, s) = Told(p)[s]
  BY DEF FirstHand
<1>2. CASE s \notin Informed(p)
  <2>1. PICK f : /\ f[0] = Neutral /\ FirstHand(p, s) = f[6]
                 /\ \A n \in 1..6 : f[n] = f[n - 1] + Hint(p, s, Correlations[n])
    BY <1>2, HintsSummed
  <2>2. /\ f[1] = f[0] + Hint(p, s, Correlations[1]) /\ f[2] = f[1] + Hint(p, s, Correlations[2])
        /\ f[3] = f[2] + Hint(p, s, Correlations[3]) /\ f[4] = f[3] + Hint(p, s, Correlations[4])
        /\ f[5] = f[4] + Hint(p, s, Correlations[5]) /\ f[6] = f[5] + Hint(p, s, Correlations[6])
    BY <2>1
  <2> DEFINE hint(x, k) == HintOf(Told(p)[x], k)
  <2>3. /\ "deep_learning" \in Skills /\ "ml_fundamentals" \in Skills /\ "mlops" \in Skills
        /\ "system_design" \in Skills /\ "vietnamese_nlp" \in Skills
    BY SkillNames
  <2> HIDE DEF hint
  <2>4. /\ Hint(p, s, Correlations[1]) = IF "deep_learning" = s THEN hint("ml_fundamentals", 16) ELSE 0
        /\ Hint(p, s, Correlations[2]) = IF "ml_fundamentals" = s THEN hint("deep_learning", 12) ELSE 0
        /\ Hint(p, s, Correlations[3]) = IF "mlops" = s THEN hint("system_design", 10) ELSE 0
        /\ Hint(p, s, Correlations[4]) = IF "system_design" = s THEN hint("mlops", 10) ELSE 0
        /\ Hint(p, s, Correlations[5]) = IF "ml_fundamentals" = s THEN hint("vietnamese_nlp", 5) ELSE 0
        /\ Hint(p, s, Correlations[6]) = IF "deep_learning" = s THEN hint("vietnamese_nlp", 5) ELSE 0
    <3>1. Hint(p, s, Correlations[1]) = IF "deep_learning" = s THEN hint("ml_fundamentals", 16) ELSE 0
      BY <2>3, HintValue, CorrelationRows DEF hint
    <3>2. Hint(p, s, Correlations[2]) = IF "ml_fundamentals" = s THEN hint("deep_learning", 12) ELSE 0
      BY <2>3, HintValue, CorrelationRows DEF hint
    <3>3. Hint(p, s, Correlations[3]) = IF "mlops" = s THEN hint("system_design", 10) ELSE 0
      BY <2>3, HintValue, CorrelationRows DEF hint
    <3>4. Hint(p, s, Correlations[4]) = IF "system_design" = s THEN hint("mlops", 10) ELSE 0
      BY <2>3, HintValue, CorrelationRows DEF hint
    <3>5. Hint(p, s, Correlations[5]) = IF "ml_fundamentals" = s THEN hint("vietnamese_nlp", 5) ELSE 0
      BY <2>3, HintValue, CorrelationRows DEF hint
    <3>6. Hint(p, s, Correlations[6]) = IF "deep_learning" = s THEN hint("vietnamese_nlp", 5) ELSE 0
      BY <2>3, HintValue, CorrelationRows DEF hint
    <3> QED BY <3>1, <3>2, <3>3, <3>4, <3>5, <3>6
  <2>5. Neutral = 1000
    BY NeutralMean
  <2> QED BY <1>2, <2>1, <2>2, <2>4, <2>5 DEF hint
<1> QED BY <1>1, <1>2

\* A Skill that was spoken of, and one that no row nudges, keeps its mean to the end; the others
\* take the first-hand hints of their rows. A row whose source nobody spoke of is read while that
\* source is still neutral: nothing second-hand is ever passed on.
LEMMA MeansAreFirstHand ==
  ASSUME NEW p, ProfileOK(p), NEW s \in Skills
  PROVE  InitialMeans(p)[s] = FirstHand(p, s) /\ FirstHand(p, s) \in Inner
<1> DEFINE told == Told(p)
<1>1. /\ told = [x \in Skills |-> told[x]]
      /\ \A x \in Skills : told[x] \in Moderate
      /\ \A x \in Skills : x \notin Informed(p) => told[x] = 1000
  BY ToldTyped
<1> HIDE DEF told
<1>2. PICK f : /\ f[0] = told /\ InitialMeans(p) = f[6]
               /\ \A n \in 1..6 : f[n] = Nudge(p, f[n - 1], Correlations[n])
  BY MeansWalked DEF told
<1>3. /\ "deep_learning" \in Skills /\ "ml_fundamentals" \in Skills /\ "mlops" \in Skills
      /\ "system_design" \in Skills /\ "vietnamese_nlp" \in Skills
  BY SkillNames
<1> DEFINE dl(n) == f[n]["deep_learning"]
           mf(n) == f[n]["ml_fundamentals"]
           mo(n) == f[n]["mlops"]
           sd(n) == f[n]["system_design"]
           vn(n) == f[n]["vietnamese_nlp"]
<1>r. ASSUME NEW n \in 1..6, NEW m, m = f[n - 1], m = [x \in Skills |-> m[x]]
      PROVE  LET c == Correlations[n]
             IN /\ f[n] = [x \in Skills |-> f[n][x]]
                /\ \A x \in Skills : x # c.to => f[n][x] = m[x]
                /\ c.to \in Informed(p) => f[n][c.to] = m[c.to]
                /\ c.to \notin Informed(p) =>
                     f[n][c.to] = ClampMean(m[c.to] + (((m[c.from] - Neutral) * c.percent) \div 100))
  <2> DEFINE c == Correlations[n]
  <2>1. c.from \in Skills /\ c.to \in Skills
    <3>1. n \in {1, 2, 3, 4, 5, 6}
      OBVIOUS
    <3> QED BY <1>3, <3>1, CorrelationRows
  <2>2. f[n] = Nudge(p, m, c)
    BY <1>2, <1>r
  <2> HIDE DEF c
  <2>3. /\ f[n] = [x \in Skills |-> f[n][x]]
        /\ \A x \in Skills : x # c.to => f[n][x] = m[x]
        /\ c.to \in Informed(p) => f[n][c.to] = m[c.to]
        /\ c.to \notin Informed(p) =>
             f[n][c.to] = ClampMean(m[c.to] + (((m[c.from] - Neutral) * c.percent) \div 100))
    BY <1>r, <2>1, <2>2, NudgeMoves
  <2> QED BY <2>3 DEF c
<1>d. f[0] = [x \in Skills |-> f[0][x]]
  BY <1>1, <1>2
<1>4. /\ f[1] = [x \in Skills |-> f[1][x]]
      /\ mf(1) = mf(0) /\ mo(1) = mo(0) /\ sd(1) = sd(0) /\ vn(1) = vn(0)
      /\ "deep_learning" \in Informed(p) => dl(1) = dl(0)
      /\ "deep_learning" \notin Informed(p) =>
           dl(1) = ClampMean(dl(0) + HintOf(mf(0), 16))
  <2>1. 1 \in 1..6 /\ 1 - 1 = 0
    OBVIOUS
  <2> QED BY <1>3, <1>d, <1>r, <2>1, CorrelationRows, NeutralMean DEF HintOf
<1>5. /\ f[2] = [x \in Skills |-> f[2][x]]
      /\ dl(2) = dl(1) /\ mo(2) = mo(1) /\ sd(2) = sd(1) /\ vn(2) = vn(1)
      /\ "ml_fundamentals" \in Informed(p) => mf(2) = mf(1)
      /\ "ml_fundamentals" \notin Informed(p) =>
           mf(2) = ClampMean(mf(1) + HintOf(dl(1), 12))
  <2>1. 2 \in 1..6 /\ 2 - 1 = 1
    OBVIOUS
  <2> QED BY <1>3, <1>4, <1>r, <2>1, CorrelationRows, NeutralMean DEF HintOf
<1>6. /\ f[3] = [x \in Skills |-> f[3][x]]
      /\ dl(3) = dl(2) /\ mf(3) = mf(2) /\ sd(3) = sd(2) /\ vn(3) = vn(2)
      /\ "mlops" \in Informed(p) => mo(3) = mo(2)
      /\ "mlops" \notin Informed(p) =>
           mo(3) = ClampMean(mo(2) + HintOf(sd(2), 10))
  <2>1. 3 \in 1..6 /\ 3 - 1 = 2
    OBVIOUS
  <2> QED BY <1>3, <1>5, <1>r, <2>1, CorrelationRows, NeutralMean DEF HintOf
<1>7. /\ f[4] = [x \in Skills |-> f[4][x]]
      /\ dl(4) = dl(3) /\ mf(4) = mf(3) /\ mo(4) = mo(3) /\ vn(4) = vn(3)
      /\ "system_design" \in Informed(p) => sd(4) = sd(3)
      /\ "system_design" \notin Informed(p) =>
           sd(4) = ClampMean(sd(3) + HintOf(mo(3), 10))
  <2>1. 4 \in 1..6 /\ 4 - 1 = 3
    OBVIOUS
  <2> QED BY <1>3, <1>6, <1>r, <2>1, CorrelationRows, NeutralMean DEF HintOf
<1>8. /\ f[5] = [x \in Skills |-> f[5][x]]
      /\ dl(5) = dl(4) /\ mo(5) = mo(4) /\ sd(5) = sd(4) /\ vn(5) = vn(4)
      /\ "ml_fundamentals" \in Informed(p) => mf(5) = mf(4)
      /\ "ml_fundamentals" \notin Informed(p) =>
           mf(5) = ClampMean(mf(4) + HintOf(vn(4), 5))
  <2>1. 5 \in 1..6 /\ 5 - 1 = 4
    OBVIOUS
  <2> QED BY <1>3, <1>7, <1>r, <2>1, CorrelationRows, NeutralMean DEF HintOf
<1>9. /\ mf(6) = mf(5) /\ mo(6) = mo(5) /\ sd(6) = sd(5) /\ vn(6) = vn(5)
      /\ "deep_learning" \in Informed(p) => dl(6) = dl(5)
      /\ "deep_learning" \notin Informed(p) =>
           dl(6) = ClampMean(dl(5) + HintOf(vn(5), 5))
  <2>1. 6 \in 1..6 /\ 6 - 1 = 5
    OBVIOUS
  <2>2. Correlations[6].from = "vietnamese_nlp" /\ Correlations[6].to = "deep_learning"
        /\ Correlations[6].percent = 5
    BY CorrelationRows
  <2>3. f[5] = [x \in Skills |-> f[5][x]]
    BY <1>8
  <2>4. /\ \A x \in Skills : x # "deep_learning" => f[6][x] = f[5][x]
        /\ "deep_learning" \in Informed(p) => f[6]["deep_learning"] = f[5]["deep_learning"]
        /\ "deep_learning" \notin Informed(p) =>
             f[6]["deep_learning"] = ClampMean(f[5]["deep_learning"]
                                               + (((f[5]["vietnamese_nlp"] - Neutral) * 5) \div 100))
    <3> DEFINE c == Correlations[6]
    <3>1. f[6] = Nudge(p, f[5], c)
      BY <1>2, <2>1
    <3> HIDE DEF c
    <3>2. /\ \A x \in Skills : x # c.to => f[6][x] = f[5][x]
          /\ c.to \in Informed(p) => f[6][c.to] = f[5][c.to]
          /\ c.to \notin Informed(p) =>
               f[6][c.to] = ClampMean(f[5][c.to] + (((f[5][c.from] - Neutral) * c.percent) \div 100))
      <4>1. c.from \in Skills /\ c.to \in Skills
        BY <1>3, <2>2 DEF c
      <4> QED BY <2>3, <3>1, <4>1, NudgeMoves
    <3>3. c.from = "vietnamese_nlp" /\ c.to = "deep_learning" /\ c.percent = 5
      BY <2>2 DEF c
    <3> QED BY <3>2, <3>3
  <2> QED BY <1>3, <2>4, NeutralMean DEF HintOf
<1>10. /\ dl(0) \in Moderate /\ mf(0) \in Moderate /\ mo(0) \in Moderate
       /\ sd(0) \in Moderate /\ vn(0) \in Moderate
       /\ "deep_learning" \notin Informed(p) => dl(0) = 1000
       /\ "ml_fundamentals" \notin Informed(p) => mf(0) = 1000
       /\ "mlops" \notin Informed(p) => mo(0) = 1000
       /\ "system_design" \notin Informed(p) => sd(0) = 1000
       /\ "vietnamese_nlp" \notin Informed(p) => vn(0) = 1000
  BY <1>1, <1>2, <1>3
<1> HIDE DEF dl, mf, mo, sd, vn
<1>13. vn(4) = vn(0) /\ vn(5) = vn(0) /\ vn(6) = vn(0)
  BY <1>4, <1>5, <1>6, <1>7, <1>8, <1>9
<1>14. /\ "deep_learning" \in Informed(p) => dl(6) = dl(0)
       /\ "deep_learning" \notin Informed(p) => dl(6) = 1000 + HintOf(mf(0), 16) + HintOf(vn(0), 5)
  <2>1. dl(5) = dl(1)
    BY <1>5, <1>6, <1>7, <1>8
  <2>2. CASE "deep_learning" \in Informed(p)
    BY <1>4, <1>9, <2>1, <2>2
  <2>3. CASE "deep_learning" \notin Informed(p)
    <3>1. /\ Within(HintOf(mf(0), 16), 144) /\ Within(HintOf(vn(0), 5), 45)
      BY <1>10, HintBounds
    <3>2. dl(1) = ClampMean(1000 + HintOf(mf(0), 16)) /\ dl(6) = ClampMean(dl(1) + HintOf(vn(0), 5))
      BY <1>4, <1>9, <1>10, <1>13, <2>1, <2>3
    <3>3. 1000 + HintOf(mf(0), 16) \in Moderate
      BY <3>1 DEF Moderate, Within
    <3>4. dl(1) = 1000 + HintOf(mf(0), 16)
      BY <3>2, <3>3 DEF ClampMean, Larger, Smaller, Unit, Moderate
    <3>5. dl(1) + HintOf(vn(0), 5) \in Moderate
      BY <3>1, <3>4 DEF Moderate, Within
    <3>6. dl(6) = dl(1) + HintOf(vn(0), 5)
      BY <3>2, <3>5 DEF ClampMean, Larger, Smaller, Unit, Moderate
    <3> QED BY <2>3, <3>4, <3>6
  <2> QED BY <2>2, <2>3
<1>15. /\ "ml_fundamentals" \in Informed(p) => mf(6) = mf(0)
       /\ "ml_fundamentals" \notin Informed(p) => mf(6) = 1000 + HintOf(dl(0), 12) + HintOf(vn(0), 5)
  <2>1. mf(1) = mf(0) /\ mf(4) = mf(2) /\ mf(6) = mf(5)
    BY <1>4, <1>6, <1>7, <1>9
  <2>2. CASE "ml_fundamentals" \in Informed(p)
    BY <1>5, <1>8, <2>1, <2>2
  <2>3. CASE "ml_fundamentals" \notin Informed(p)
    <3>1. mf(0) = 1000
      BY <1>10, <2>3
    <3>2. dl(1) = dl(0)
      <4>1. CASE "deep_learning" \in Informed(p)
        BY <1>4, <4>1
      <4>2. CASE "deep_learning" \notin Informed(p)
        <5>1. dl(1) = ClampMean(1000 + HintOf(1000, 16)) /\ dl(0) = 1000
          BY <1>4, <1>10, <3>1, <4>2
        <5>2. 1000 + HintOf(1000, 16) = 1000 /\ 1000 \in Moderate
          BY HintNeutral DEF Moderate
        <5> QED BY <5>1, <5>2 DEF ClampMean, Larger, Smaller, Unit, Moderate
      <4> QED BY <4>1, <4>2
    <3>3. /\ Within(HintOf(dl(0), 12), 108) /\ Within(HintOf(vn(0), 5), 45)
      BY <1>10, HintBounds
    <3>4. mf(2) = ClampMean(1000 + HintOf(dl(0), 12)) /\ mf(5) = ClampMean(mf(2) + HintOf(vn(0), 5))
      BY <1>5, <1>8, <1>13, <2>1, <2>3, <3>1, <3>2
    <3>5. 1000 + HintOf(dl(0), 12) \in Moderate
      BY <3>3 DEF Moderate, Within
    <3>6. mf(2) = 1000 + HintOf(dl(0), 12)
      BY <3>4, <3>5 DEF ClampMean, Larger, Smaller, Unit, Moderate
    <3>7. mf(2) + HintOf(vn(0), 5) \in Moderate
      BY <3>3, <3>6 DEF Moderate, Within
    <3>8. mf(5) = mf(2) + HintOf(vn(0), 5)
      BY <3>4, <3>7 DEF ClampMean, Larger, Smaller, Unit, Moderate
    <3> QED BY <2>1, <2>3, <3>6, <3>8
  <2> QED BY <2>2, <2>3
<1>16. /\ "mlops" \in Informed(p) => mo(6) = mo(0)
       /\ "mlops" \notin Informed(p) => mo(6) = 1000 + HintOf(sd(0), 10)
  <2>1. mo(2) = mo(0) /\ mo(6) = mo(3) /\ sd(2) = sd(0)
    BY <1>4, <1>5, <1>7, <1>8, <1>9
  <2>2. CASE "mlops" \in Informed(p)
    BY <1>6, <2>1, <2>2
  <2>3. CASE "mlops" \notin Informed(p)
    <3>1. Within(HintOf(sd(0), 10), 90)
      BY <1>10, HintBounds
    <3>2. mo(3) = ClampMean(1000 + HintOf(sd(0), 10))
      BY <1>6, <1>10, <2>1, <2>3
    <3>3. 1000 + HintOf(sd(0), 10) \in Moderate
      BY <3>1 DEF Moderate, Within
    <3>4. mo(3) = 1000 + HintOf(sd(0), 10)
      BY <3>2, <3>3 DEF ClampMean, Larger, Smaller, Unit, Moderate
    <3> QED BY <2>1, <2>3, <3>4
  <2> QED BY <2>2, <2>3
<1>17. /\ "system_design" \in Informed(p) => sd(6) = sd(0)
       /\ "system_design" \notin Informed(p) => sd(6) = 1000 + HintOf(mo(0), 10)
  <2>1. sd(3) = sd(0) /\ sd(2) = sd(0) /\ sd(6) = sd(4) /\ mo(2) = mo(0)
    BY <1>4, <1>5, <1>6, <1>8, <1>9
  <2>2. CASE "system_design" \in Informed(p)
    BY <1>7, <2>1, <2>2
  <2>3. CASE "system_design" \notin Informed(p)
    <3>1. sd(0) = 1000
      BY <1>10, <2>3
    <3>2. mo(3) = mo(0)
      <4>1. CASE "mlops" \in Informed(p)
        BY <1>6, <2>1, <4>1
      <4>2. CASE "mlops" \notin Informed(p)
        <5>1. mo(3) = ClampMean(1000 + HintOf(1000, 10)) /\ mo(0) = 1000
          BY <1>6, <1>10, <2>1, <3>1, <4>2
        <5>2. 1000 + HintOf(1000, 10) = 1000 /\ 1000 \in Moderate
          BY HintNeutral DEF Moderate
        <5> QED BY <5>1, <5>2 DEF ClampMean, Larger, Smaller, Unit, Moderate
      <4> QED BY <4>1, <4>2
    <3>3. Within(HintOf(mo(0), 10), 90)
      BY <1>10, HintBounds
    <3>4. sd(4) = ClampMean(1000 + HintOf(mo(0), 10))
      BY <1>7, <2>1, <2>3, <3>1, <3>2
    <3>5. 1000 + HintOf(mo(0), 10) \in Moderate
      BY <3>3 DEF Moderate, Within
    <3>6. sd(4) = 1000 + HintOf(mo(0), 10)
      BY <3>4, <3>5 DEF ClampMean, Larger, Smaller, Unit, Moderate
    <3> QED BY <2>1, <2>3, <3>6
  <2> QED BY <2>2, <2>3
<1>18. InitialMeans(p)[s] = FirstHand(p, s)
  <2>1. /\ s \in Informed(p) => FirstHand(p, s) = f[0][s]
        /\ s \notin Informed(p) =>
             FirstHand(p, s) = 1000
               + (IF "deep_learning" = s THEN HintOf(mf(0), 16) ELSE 0)
               + (IF "ml_fundamentals" = s THEN HintOf(dl(0), 12) ELSE 0)
               + (IF "mlops" = s THEN HintOf(sd(0), 10) ELSE 0)
               + (IF "system_design" = s THEN HintOf(mo(0), 10) ELSE 0)
               + (IF "ml_fundamentals" = s THEN HintOf(vn(0), 5) ELSE 0)
               + (IF "deep_learning" = s THEN HintOf(vn(0), 5) ELSE 0)
    BY <1>2, FirstHandValues DEF told, dl, mf, mo, sd, vn
  <2>2. /\ HintOf(mf(0), 16) \in Int /\ HintOf(dl(0), 12) \in Int /\ HintOf(sd(0), 10) \in Int
        /\ HintOf(mo(0), 10) \in Int /\ HintOf(vn(0), 5) \in Int
    BY <1>10, HintBounds DEF Within
  <2>3. CASE s = "deep_learning"
    BY <1>2, <1>14, <2>1, <2>2, <2>3 DEF dl
  <2>4. CASE s = "ml_fundamentals"
    BY <1>2, <1>15, <2>1, <2>2, <2>4 DEF mf
  <2>5. CASE s = "mlops"
    BY <1>2, <1>16, <2>1, <2>2, <2>5 DEF mo
  <2>6. CASE s = "system_design"
    BY <1>2, <1>17, <2>1, <2>2, <2>6 DEF sd
  <2>7. CASE s = "vietnamese_nlp"
    <3>1. f[6][s] = f[0][s]
      BY <1>13, <2>7 DEF vn
    <3>2. s \notin Informed(p) => f[0][s] = 1000
      BY <1>1, <1>2
    <3>3. s \notin Informed(p) => FirstHand(p, s) = 1000
      BY <2>1, <2>7
    <3> QED BY <1>2, <2>1, <3>1, <3>2, <3>3
  <2> QED BY <2>3, <2>4, <2>5, <2>6, <2>7, SkillNames
<1>19. InitialMeans(p)[s] \in Inner
  <2>1. /\ Within(HintOf(mf(0), 16), 144) /\ Within(HintOf(dl(0), 12), 108) /\ Within(HintOf(sd(0), 10), 90)
        /\ Within(HintOf(mo(0), 10), 90) /\ Within(HintOf(vn(0), 5), 45)
    BY <1>10, HintBounds
  <2>2. dl(6) \in Inner
    BY <1>10, <1>14, <2>1 DEF Moderate, Within, Inner
  <2>3. mf(6) \in Inner
    BY <1>10, <1>15, <2>1 DEF Moderate, Within, Inner
  <2>4. mo(6) \in Inner
    BY <1>10, <1>16, <2>1 DEF Moderate, Within, Inner
  <2>5. sd(6) \in Inner
    BY <1>10, <1>17, <2>1 DEF Moderate, Within, Inner
  <2>6. vn(6) \in Inner
    BY <1>10, <1>13 DEF Moderate, Within, Inner
  <2> QED BY <1>2, <2>2, <2>3, <2>4, <2>5, <2>6, SkillNames DEF dl, mf, mo, sd, vn
<1> QED BY <1>18, <1>19
-----------------------------------------------------------------------------
(* The seeded priors, and the order of the deterministic plan.             *)

\* However many companies are named, a Skill keeps one of the three ranks.
LEMMA RanksTyped ==
  ASSUME NEW p, ProfileOK(p), NEW s \in Skills
  PROVE  RoleCriticality(p.role, p.companies)[s] \in {0, 1, 2}
<1> DEFINE asking == {c \in ToSet(p.companies) : s \in DOMAIN CompanyTable[c]}
           asked == {RoleTable[p.role][s]} \cup {CompanyTable[c][s] : c \in asking}
<1>1. RoleTable[p.role][s] \in {0, 1, 2}
  <2>1. p.role \in {"engineer", "scientist", "other"}
    BY DEF ProfileOK, RoleTable
  <2>2. s \in {"deep_learning", "ml_fundamentals", "mlops", "system_design", "vietnamese_nlp"}
    BY SkillNames
  <2>3. RoleTable["engineer"][s] \in {0, 1, 2}
    BY <2>2 DEF RoleTable, MustHave, Core, Peripheral
  <2>4. RoleTable["scientist"][s] \in {0, 1, 2}
    BY <2>2 DEF RoleTable, MustHave, Core, Peripheral
  <2>5. RoleTable["other"][s] \in {0, 1, 2}
    BY DEF RoleTable, MustHave, Core, Peripheral
  <2> QED BY <2>1, <2>3, <2>4, <2>5
<1>2. \A c \in DOMAIN CompanyTable : s \in DOMAIN CompanyTable[c] => CompanyTable[c][s] \in {0, 1, 2}
  <2>1. DOMAIN CompanyTable = {"zalo", "viettel", "other"}
    BY DEF CompanyTable
  <2>2. s \in DOMAIN CompanyTable["zalo"] => CompanyTable["zalo"][s] \in {0, 1, 2}
    BY DEF CompanyTable, Core
  <2>3. s \in DOMAIN CompanyTable["viettel"] => CompanyTable["viettel"][s] \in {0, 1, 2}
    BY DEF CompanyTable, Core
  <2>4. s \notin DOMAIN CompanyTable["other"]
    BY SkillNames DEF CompanyTable
  <2> QED BY <2>1, <2>2, <2>3, <2>4
<1>3. ToSet(p.companies) \subseteq DOMAIN CompanyTable
  <2>1. p.companies \in Seq(DOMAIN CompanyTable)
    BY DEF ProfileOK
  <2> QED BY <2>1 DEF ToSet
<1>4. asked \subseteq {0, 1, 2} /\ asked # {}
  BY <1>1, <1>2, <1>3
<1> HIDE DEF asked
<1>5. \E x \in asked : \A y \in asked : x <= y
  <2>1. CASE 0 \in asked
    BY <1>4, <2>1
  <2>2. CASE 0 \notin asked /\ 1 \in asked
    BY <1>4, <2>2
  <2>3. CASE 0 \notin asked /\ 1 \notin asked
    <3>1. \A y \in asked : y = 2
      BY <1>4, <2>3
    <3>2. PICK x \in asked : TRUE
      BY <1>4
    <3>3. x = 2 /\ 2 <= 2
      BY <3>1
    <3> QED BY <3>1, <3>3
  <2> QED BY <2>1, <2>2, <2>3
<1>6. Min(asked) \in {0, 1, 2}
  BY <1>4, <1>5 DEF Min
<1> QED BY <1>6 DEF RoleCriticality, asked

LEMMA DivExact ==
  ASSUME NEW a \in Int, NEW b \in Nat \ {0}
  PROVE  (a * b) \div b = a
OBVIOUS

\* Whatever the criticality asks, the floor keeps the strength, and with it both halves of the
\* Beta, above zero; and the strength never moves the mean.
LEMMA SeedIsLegal ==
  ASSUME NEW mean \in Inner, NEW rank \in {0, 1, 2}
  PROVE  LET prior == SeedPrior(mean, rank)
         IN prior.alpha > 0 /\ prior.beta > 0 /\ prior.rank = rank /\ Mastery(prior) = mean
<1> DEFINE strength == Larger(MinStrength, TargetStrength(mean, rank))
<1>0. mean \in 1..1999
  BY DEF Inner
<1>1. TargetStrength(mean, rank) \in Int
  <2>1. VariancePercent[rank] \in {70, 85, 100}
    BY DEF VariancePercent, MustHave, Core, Peripheral
  <2> DEFINE whole == ((Unit * Unit) \div 100) * VariancePercent[rank]
             part == 1200 * mean * (Unit - mean)
  <2>2. whole \in Nat \ {0}
    BY <2>1 DEF Unit
  <2>3. part \in Int
    BY <1>0 DEF Unit
  <2>4. TargetStrength(mean, rank) = (part \div whole) - 100
    BY DEF TargetStrength
  <2> HIDE DEF part, whole
  <2> QED BY <2>2, <2>3, <2>4
<1>2. strength \in Nat /\ strength >= 50
  BY <1>1 DEF Larger, MinStrength
<1>3. SeedPrior(mean, rank) = [alpha |-> mean * strength, beta |-> (2000 - mean) * strength, rank |-> rank]
  BY DEF SeedPrior, Beta, Unit
<1> HIDE DEF strength
<1>4. mean * strength > 0 /\ (2000 - mean) * strength > 0
  <2>1. \A a, b \in Nat : a > 0 /\ b > 0 => a * b > 0
    OBVIOUS
  <2>2. mean \in Nat /\ mean > 0 /\ 2000 - mean \in Nat /\ 2000 - mean > 0 /\ strength > 0
    BY <1>0, <1>2
  <2> QED BY <1>2, <2>1, <2>2
<1>5. Mastery(SeedPrior(mean, rank)) = mean
  <2> DEFINE b == 2000 * strength
  <2>1. mean * strength + (2000 - mean) * strength = b
    BY <1>0, <1>2
  <2>2. (mean * strength) * 2000 = mean * b
    BY <1>0, <1>2
  <2>3. b \in Nat \ {0} /\ mean \in Int
    BY <1>0, <1>2
  <2>4. Mastery(SeedPrior(mean, rank)) = ((mean * strength) * 2000) \div (mean * strength + (2000 - mean) * strength)
    BY <1>3 DEF Mastery, Unit
  <2> HIDE DEF b
  <2>5. Mastery(SeedPrior(mean, rank)) = (mean * b) \div b
    BY <2>1, <2>2, <2>4
  <2> QED BY <2>3, <2>5, DivExact
<1> QED BY <1>3, <1>4, <1>5

LEMMA PriorsTyped ==
  ASSUME NEW p, ProfileOK(p), NEW s \in Skills
  PROVE  LET prior == Priors(p)[s]
         IN /\ prior.alpha > 0 /\ prior.beta > 0 /\ prior.rank \in {0, 1, 2}
            /\ Mastery(prior) = FirstHand(p, s) /\ Mastery(prior) \in Int
<1> DEFINE mean == InitialMeans(p)[s]
           rank == RoleCriticality(p.role, p.companies)[s]
<1>1. mean = FirstHand(p, s) /\ FirstHand(p, s) \in Inner
  BY MeansAreFirstHand
<1>2. rank \in {0, 1, 2}
  BY RanksTyped
<1>3. Priors(p)[s] = SeedPrior(mean, rank)
  BY DEF Priors
<1> HIDE DEF mean, rank
<1>4. mean \in Inner /\ mean \in Int
  BY <1>1 DEF Inner
<1>5. LET prior == SeedPrior(mean, rank)
      IN prior.alpha > 0 /\ prior.beta > 0 /\ prior.rank = rank /\ Mastery(prior) = mean
  BY <1>2, <1>4, SeedIsLegal
<1> QED BY <1>1, <1>2, <1>3, <1>4, <1>5

\* Comparing three numbers in turn, of which the last tells everyone apart, is a strict order.
ByThreeKeys(U, R, k, d, n) ==
  /\ \A s \in U : k[s] \in Int /\ d[s] \in Int /\ n[s] \in Int
  /\ \A s, t \in U : n[s] = n[t] => s = t
  /\ \A s, t \in U : <<s, t>> \in R <=> \/ k[s] < k[t]
                                        \/ k[s] = k[t] /\ d[s] > d[t]
                                        \/ k[s] = k[t] /\ d[s] = d[t] /\ n[s] < n[t]

LEMMA ThreeKeysOrder ==
  ASSUME NEW U, NEW R, NEW k, NEW d, NEW n, ByThreeKeys(U, R, k, d, n)
  PROVE  StrictOrder(U, R)
<1> USE DEF ByThreeKeys
<1>1. \A s \in U : <<s, s>> \notin R
  OBVIOUS
<1>2. \A s, t \in U : s = t \/ <<s, t>> \in R \/ <<t, s>> \in R
  <2> SUFFICES ASSUME NEW s \in U, NEW t \in U, s # t PROVE <<s, t>> \in R \/ <<t, s>> \in R
    BY Zenon
  <2>1. n[s] < n[t] \/ n[t] < n[s]
    OBVIOUS
  <2>2. (k[s] < k[t] \/ k[t] < k[s] \/ k[s] = k[t]) /\ (d[s] < d[t] \/ d[t] < d[s] \/ d[s] = d[t])
    OBVIOUS
  <2> QED BY <2>1, <2>2
<1>3. \A s, t, r \in U : <<s, t>> \in R /\ <<t, r>> \in R => <<s, r>> \in R
  <2> SUFFICES ASSUME NEW s \in U, NEW t \in U, NEW r \in U, <<s, t>> \in R, <<t, r>> \in R
      PROVE <<s, r>> \in R
    OBVIOUS
  <2> QED OBVIOUS
<1> QED BY <1>1, <1>2, <1>3 DEF StrictOrder

\* The order of the deterministic plan is total: by rank, by distance from neutral, by name.
LEMMA AskedInOrder ==
  ASSUME NEW p, ProfileOK(p)
  PROVE  LET priors == Priors(p)
             R == {q \in Skills \X Skills : AskedBefore(priors, q[1], q[2])}
         IN /\ IsFiniteSet(Skills) /\ StrictOrder(Skills, R)
            /\ \A s \in Skills : Behind(Skills, R, s) = Preceding(priors, s)
<1> DEFINE priors == Priors(p)
           R == {q \in Skills \X Skills : AskedBefore(priors, q[1], q[2])}
           k == [s \in Skills |-> priors[s].rank]
           d == [s \in Skills |-> Distance(Mastery(priors[s]))]
           n == [s \in Skills |-> Place(s)]
<1>1. \A s \in Skills : priors[s].rank \in {0, 1, 2} /\ Mastery(priors[s]) \in Int
  BY PriorsTyped
<1> HIDE DEF priors
<1>2. \A s, t \in Skills : <<s, t>> \in R <=> AskedBefore(priors, s, t)
  OBVIOUS
<1>3. \A s \in Skills : Behind(Skills, R, s) = Preceding(priors, s)
  <2> SUFFICES ASSUME NEW s \in Skills PROVE Behind(Skills, R, s) = Preceding(priors, s)
    OBVIOUS
  <2>1. {t \in Skills : <<t, s>> \in R} = {t \in Skills : AskedBefore(priors, t, s)}
    BY <1>2
  <2> QED BY <2>1 DEF Behind, Preceding
<1>4. \A s \in Skills : k[s] \in Int /\ d[s] \in Int /\ n[s] \in Int
  <2>1. \A m \in Int : Distance(m) \in Int
    BY NeutralMean DEF Distance, Larger
  <2> QED BY <1>1, <2>1, SkillsPlaced
<1>5. \A s, t \in Skills : n[s] = n[t] => s = t
  BY SkillsPlaced
<1>6. \A s, t \in Skills : <<s, t>> \in R <=> \/ k[s] < k[t]
                                              \/ k[s] = k[t] /\ d[s] > d[t]
                                              \/ k[s] = k[t] /\ d[s] = d[t] /\ n[s] < n[t]
  <2>1. ASSUME NEW s \in Skills, NEW t \in Skills
        PROVE  <<s, t>> \in R <=> \/ k[s] < k[t]
                                  \/ k[s] = k[t] /\ d[s] > d[t]
                                  \/ k[s] = k[t] /\ d[s] = d[t] /\ n[s] < n[t]
    <3>1. /\ k[s] = priors[s].rank /\ d[s] = Distance(Mastery(priors[s])) /\ n[s] = Place(s)
          /\ k[t] = priors[t].rank /\ d[t] = Distance(Mastery(priors[t])) /\ n[t] = Place(t)
      OBVIOUS
    <3> HIDE DEF R, k, d, n
    <3>2. <<s, t>> \in R <=> AskedBefore(priors, s, t)
      BY <1>2
    <3>3. AskedBefore(priors, s, t) <=>
            \/ priors[s].rank < priors[t].rank
            \/ /\ priors[s].rank = priors[t].rank
               /\ Distance(Mastery(priors[s])) > Distance(Mastery(priors[t]))
            \/ /\ priors[s].rank = priors[t].rank
               /\ Distance(Mastery(priors[s])) = Distance(Mastery(priors[t]))
               /\ Place(s) < Place(t)
      BY Zenon DEF AskedBefore
    <3>4. AskedBefore(priors, s, t) <=> \/ k[s] < k[t]
                                        \/ k[s] = k[t] /\ d[s] > d[t]
                                        \/ k[s] = k[t] /\ d[s] = d[t] /\ n[s] < n[t]
      BY <3>1, <3>3, Zenon
    <3> QED BY <3>2, <3>4, Zenon
  <2> QED BY <2>1, Zenon
<1> HIDE DEF R, k, d, n
<1>7. StrictOrder(Skills, R)
  <2>1. ByThreeKeys(Skills, R, k, d, n)
    BY <1>4, <1>5, <1>6, Zenon DEF ByThreeKeys
  <2> QED BY <2>1, ThreeKeysOrder
<1> QED BY <1>3, <1>7, SkillsPlaced DEF priors, R

\* A sequence of the Skills, each at its own place, names each of them once.
NamesEachOnce(plan) == \A s \in Skills : Cardinality({i \in DOMAIN plan : plan[i].skill = s}) = 1

LEMMA FivePlaces == IsFiniteSet(1..5) /\ Cardinality(1..5) = 5
<1>1. PICK n \in Nat : n = 5
  OBVIOUS
<1>2. 1 \in Int /\ n \in Int /\ n >= 1
  BY <1>1
<1>3. IsFiniteSet(1..n)
  BY <1>2, FS_Interval
<1>4. Cardinality(1..n) = n
  BY <1>2, FS_Interval
<1> QED BY <1>1, <1>3, <1>4, Zenon

LEMMA SkillsCounted == Cardinality(Skills) = 5
<1>1. DOMAIN Alphabet = 1..5 /\ Skills = {Alphabet[i] : i \in 1..5}
  BY SkillNames DEF Skills, ToSet
<1>2. IsFiniteSet(1..5) /\ Cardinality(1..5) = 5
  BY FivePlaces
<1>3. \A i, j \in 1..5 : Alphabet[i] = Alphabet[j] => i = j
  <2>1. \A i \in 1..5 : i \in {1, 2, 3, 4, 5}
    OBVIOUS
  <2>2. /\ Alphabet[1] = "deep_learning" /\ Alphabet[2] = "ml_fundamentals" /\ Alphabet[3] = "mlops"
        /\ Alphabet[4] = "system_design" /\ Alphabet[5] = "vietnamese_nlp"
    BY DEF Alphabet
  <2> HIDE DEF Alphabet
  <2> QED BY <2>1, <2>2
<1> DEFINE f == [i \in 1..5 |-> Alphabet[i]]
<1>4. f \in Bijection(1..5, Skills)
  BY <1>1, <1>3 DEF Bijection, Injection, Surjection, IsInjective
<1> HIDE DEF f
<1>5. Cardinality(Skills) = Cardinality(1..5)
  BY <1>2, <1>4, FS_Bijection, SkillsPlaced DEF ExistsBijection
<1> QED BY <1>2, <1>5

LEMMA DeterministicNamesEachOnce ==
  ASSUME ProfileOK(order.profile)
  PROVE  NamesEachOnce(Deterministic)
<1> DEFINE priors == Priors(order.profile)
           R == {q \in Skills \X Skills : AskedBefore(priors, q[1], q[2])}
           ranked == OrderedSkills(priors)
<1>1. /\ IsFiniteSet(Skills) /\ StrictOrder(Skills, R)
      /\ \A s \in Skills : Behind(Skills, R, s) = Preceding(priors, s)
  BY AskedInOrder
<1>2. DOMAIN Alphabet = 1..5
  BY SkillNames
<1> HIDE DEF priors, R
<1>3. ASSUME NEW i \in 1..5
      PROVE  ranked[i] \in Skills /\ Preceding(priors, ranked[i]) = i - 1
  <2>1. i - 1 \in Nat /\ i - 1 < Cardinality(Skills)
    BY SkillsCounted
  <2>2. \E s \in Skills : Behind(Skills, R, s) = i - 1
    BY <1>1, <2>1, PlacesFilled
  <2>3. \E s \in Skills : Preceding(priors, s) = i - 1
    BY <1>1, <2>2
  <2>4. ranked[i] = CHOOSE s \in Skills : Preceding(priors, s) = i - 1
    BY <1>2 DEF OrderedSkills
  <2> HIDE DEF ranked
  <2> QED BY <2>3, <2>4
<1>4. /\ DOMAIN Deterministic = 1..5
      /\ \A i \in 1..5 : Deterministic[i].skill = ranked[i]
  BY <1>2 DEF Deterministic, priors
<1> HIDE DEF ranked
<1>5. \A s, t \in Skills : Preceding(priors, s) = Preceding(priors, t) => s = t
  <2> SUFFICES ASSUME NEW s \in Skills, NEW t \in Skills, s # t
      PROVE Preceding(priors, s) # Preceding(priors, t)
    OBVIOUS
  <2>1. Behind(Skills, R, s) \in Nat /\ Behind(Skills, R, t) \in Nat
    BY <1>1, BehindTyped
  <2>2. <<s, t>> \in R \/ <<t, s>> \in R
    BY <1>1 DEF StrictOrder
  <2>3. Behind(Skills, R, s) # Behind(Skills, R, t)
    BY <1>1, <2>1, <2>2, BehindGrows
  <2> QED BY <1>1, <2>3
<1>6. ASSUME NEW s \in Skills
      PROVE  Cardinality({i \in DOMAIN Deterministic : Deterministic[i].skill = s}) = 1
  <2> DEFINE k == Preceding(priors, s) + 1
  <2>1. k \in 1..5 /\ k - 1 = Preceding(priors, s)
    <3>1. Behind(Skills, R, s) \in Nat /\ Behind(Skills, R, s) + 1 <= Cardinality(Skills)
      BY <1>1, BehindTyped
    <3> QED BY <1>1, <3>1, SkillsCounted
  <2> HIDE DEF k
  <2>2. \A i \in 1..5 : ranked[i] = s <=> i = k
    <3> SUFFICES ASSUME NEW i \in 1..5 PROVE ranked[i] = s <=> i = k
      OBVIOUS
    <3>1. ranked[i] = s => i - 1 = k - 1
      BY <1>3, <2>1
    <3>2. i = k => ranked[i] = s
      BY <1>3, <1>5, <2>1
    <3> QED BY <2>1, <3>1, <3>2
  <2>3. {i \in DOMAIN Deterministic : Deterministic[i].skill = s} = {k}
    BY <1>4, <2>1, <2>2
  <2>4. Cardinality({k}) = 1
    BY FS_Singleton, Zenon
  <2> QED BY <2>3, <2>4
<1> QED BY <1>6 DEF NamesEachOnce

\* Five items that name all five Skills name none twice.
LEMMA ValidNamesEachOnce ==
  ASSUME NEW plan \in PlanReplies, ValidPlan(SkillsOf(plan))
  PROVE  NamesEachOnce(plan)
<1> DEFINE f == SkillsOf(plan)
<1>1. DOMAIN plan = 1..Len(plan) /\ Len(plan) \in Nat
  BY PlansAssumption
<1>2. DOMAIN f = 1..Len(plan) /\ \A i \in 1..Len(plan) : f[i] = plan[i].skill
  BY <1>1 DEF SkillsOf
<1>3. Len(f) = 5 /\ {f[i] : i \in DOMAIN f} = Skills
  <2>1. Len(Alphabet) = 5
    BY DEF Alphabet
  <2> QED BY <2>1 DEF ValidPlan, ToSet
<1>4. f = [i \in 1..Len(plan) |-> f[i]]
  BY <1>1 DEF SkillsOf
<1> HIDE DEF f
<1>5. Len(plan) = 5
  <2>1. Len(f) = Len(plan)
    BY <1>1, <1>2, <1>4
  <2> QED BY <1>3, <2>1
<1>6. f \in Surjection(1..5, Skills)
  BY <1>2, <1>3, <1>4, <1>5 DEF Surjection
<1>7. IsFiniteSet(1..5) /\ Cardinality(1..5) = 5
  BY FivePlaces
<1>8. f \in Injection(1..5, Skills)
  BY <1>6, <1>7, SkillsCounted, FS_Surjection
<1>9. \A i, j \in 1..5 : f[i] = f[j] => i = j
  BY <1>8 DEF Injection, IsInjective
<1>10. ASSUME NEW s \in Skills
       PROVE  Cardinality({i \in DOMAIN plan : plan[i].skill = s}) = 1
  <2>1. PICK k \in 1..5 : f[k] = s
    BY <1>6 DEF Surjection
  <2>2. {i \in DOMAIN plan : plan[i].skill = s} = {k}
    BY <1>1, <1>2, <1>5, <1>9, <2>1
  <2>3. Cardinality({k}) = 1
    BY FS_Singleton, Zenon
  <2> QED BY <2>2, <2>3
<1> QED BY <1>10 DEF NamesEachOnce

\* What is printed is the priors of the profile that was ordered, with the deterministic plan or
\* with a reply of the agent that passed check_plan.
Diagnosed ==
  /\ order \in Orders
  /\ (order.command = "diagnose" /\ product # None) =>
       \E plan : /\ product = Diagnosis(plan)
                 /\ plan = Deterministic \/ (plan \in PlanReplies /\ ValidPlan(SkillsOf(plan)))

LEMMA DiagnosedStep ==
  Ending /\ Diagnosed /\ Diagnose => Diagnosed'
<1> SUFFICES ASSUME Ending, Diagnosed, Diagnose PROVE Diagnosed'
  OBVIOUS
<1>1. product = None /\ order' = order
  BY DEF Ending, Diagnose
<1>2. \/ product' = product
      \/ \E plan : /\ product' = Diagnosis(plan)
                   /\ plan = Deterministic \/ (plan \in PlanReplies /\ ValidPlan(SkillsOf(plan)))
  BY DEF Diagnose, Dispatched, Prints
<1>3. \A plan : Diagnosis(plan)' = Diagnosis(plan)
  BY <1>1 DEF Diagnosis
<1>4. Deterministic' = Deterministic
  BY <1>1 DEF Deterministic
<1> QED BY <1>1, <1>2, <1>3, <1>4 DEF Diagnosed

\* No other command's product is read: the order never changes.
LEMMA DiagnosedOthers ==
  Ending /\ Diagnosed /\ (\/ Main \/ Gate \/ JudgeCase \/ Report \/ Write \/ CheapGates \/ AnswerPair
                          \/ JudgeAnswer \/ WriteQueue \/ PlanStudy \/ UNCHANGED vars) => Diagnosed'
<1> SUFFICES ASSUME Ending, Diagnosed,
                    \/ Main \/ Gate \/ JudgeCase \/ Report \/ Write \/ CheapGates \/ AnswerPair
                    \/ JudgeAnswer \/ WriteQueue \/ PlanStudy \/ UNCHANGED vars
    PROVE Diagnosed'
  OBVIOUS
<1>1. order' = order /\ (product' = product \/ order.command = "postmortem")
  BY DEF Main, Gate, JudgeCase, Report, Write, CheapGates, AnswerPair, JudgeAnswer, WriteQueue, PlanStudy,
         Dispatched, vars
<1>2. \A plan : Diagnosis(plan)' = Diagnosis(plan)
  BY <1>1 DEF Diagnosis
<1>3. Deterministic' = Deterministic
  BY <1>1 DEF Deterministic
<1> QED BY <1>1, <1>2, <1>3 DEF Diagnosed

\* The prior means are what the Candidate brought and nothing else, legal for a Beta whatever the
\* criticality asks, and the plan names each Skill once, whichever path made it: for every profile,
\* every list of companies, every carried mean and every reply of the agent.
THEOREM SeedsFromTheCandidate == Spec => []SeedsComeFromTheCandidate
<1>1. Init => Ending /\ Diagnosed
  BY EndingInit DEF Init, Diagnosed
<1>2. Ending /\ Diagnosed /\ [Next]_vars => (Ending /\ Diagnosed)'
  <2> SUFFICES ASSUME Ending, Diagnosed, [Next]_vars PROVE (Ending /\ Diagnosed)'
    OBVIOUS
  <2>1. Diagnosed'
    BY DiagnosedStep, DiagnosedOthers DEF Next
  <2>2. Ending'
    BY EndingStep
  <2> QED BY <2>1, <2>2
<1>3. Diagnosed => SeedsComeFromTheCandidate
  <2> SUFFICES ASSUME Diagnosed, order.command = "diagnose", product # None
      PROVE  /\ \A s \in Skills : LET prior == product.priors[s]
                                  IN /\ prior.alpha > 0 /\ prior.beta > 0
                                     /\ Mastery(prior) = FirstHand(order.profile, s)
             /\ NamesEachOnce(product.plan)
    BY DEF SeedsComeFromTheCandidate, NamesEachOnce
  <2>1. ProfileOK(order.profile)
    BY OrdersAssumption DEF Diagnosed
  <2>2. PICK plan : /\ product = Diagnosis(plan)
                    /\ plan = Deterministic \/ (plan \in PlanReplies /\ ValidPlan(SkillsOf(plan)))
    BY DEF Diagnosed
  <2>3. product.priors = Priors(order.profile) /\ product.plan = plan
    BY <2>2 DEF Diagnosis
  <2>4. NamesEachOnce(plan)
    BY <2>1, <2>2, DeterministicNamesEachOnce, ValidNamesEachOnce
  <2> QED BY <2>1, <2>3, <2>4, PriorsTyped
<1> QED BY <1>1, <1>2, <1>3, PTL DEF Spec
=============================================================================
