------------------------------ MODULE RunRails ------------------------------
(***************************************************************************)
(* The rails a Session's drive meets in the usage ledger (usage.py): the   *)
(* insufficient_quota latch, the per-run ceiling and the daily budget, and *)
(* what a resume clears. Every rail is a scan of the rows in write order;  *)
(* the drivers ask at each node boundary, first at stream event 0. One     *)
(* provider; a call bills one token.                                       *)
(***************************************************************************)
EXTENDS Naturals, Sequences, FiniteSets, SequencesExt

CONSTANTS Session,      \* Session ids
          Questions,    \* max_questions of every Session
          NodeCalls,    \* metered calls one node makes at most
          RunBudget,    \* session_token_budget
          DailyBudget,  \* LLM_DAILY_TOKEN_BUDGET
          Estimate,     \* tokens estimated for a question, and for the setup
          MaxDay,       \* bound: UTC days the model runs for
          MaxRows       \* bound: ledger rows

ASSUME RailsAssumption == /\ {Questions, NodeCalls, RunBudget, MaxDay} \subseteq Nat \ {0}
                          /\ {DailyBudget, Estimate, MaxRows} \subseteq Nat

VARIABLES day,
          rows,         \* the ledger, in write order
          accountAlive, \* whether the provider still honours the account
          run,          \* off, setup (the Diagnostic), boundary, node
          node,         \* the graph's next node: question, supervisor, plan (the Study
                        \* Plan), end; the status is COMPLETE from plan on
          calls,        \* calls the current node has billed
          left,         \* questions not resolved yet
          checkpointed, \* whether the Session can be resumed
          stopped,      \* the rail that suspended it last
          owed,         \* history: rails this drive's resume cleared, until a node runs
          spent         \* history: tokens since the last start or granted run

session == <<run, node, calls, left, checkpointed, stopped, owed, spent>>
railsVars == <<day, rows, accountAlive, session>>

Nobody == "nobody"
Row(kind, s, n) == [kind |-> kind, session |-> s, day |-> day, baseline |-> n]

Rows == [kind : {"tokens", "run", "exhausted", "retry"}, session : Session \cup {Nobody},
         day : 1..MaxDay, baseline : 0..MaxRows]

RailsTypeOK ==
  /\ day \in 1..MaxDay /\ accountAlive \in BOOLEAN
  /\ rows \in Seq(Rows) /\ Len(rows) <= MaxRows
  /\ run \in [Session -> {"off", "setup", "boundary", "node"}]
  /\ node \in [Session -> {"question", "supervisor", "plan", "end"}]
  /\ calls \in [Session -> 0..NodeCalls]
  /\ \A s \in Session : run[s] \in {"off", "boundary"} => calls[s] = 0
  /\ left \in [Session -> 0..Questions]
  /\ checkpointed \in [Session -> BOOLEAN] /\ owed \in [Session -> SUBSET {"quota", "runaway"}]
  /\ stopped \in [Session -> {"none", "quota", "runaway", "daily"}]
  /\ spent \in [Session -> 0..MaxRows]

RailsInit == /\ day = 1 /\ rows = <<>> /\ accountAlive = TRUE
             /\ run = [s \in Session |-> "off"] /\ node = [s \in Session |-> "question"]
             /\ calls = [s \in Session |-> 0] /\ left = [s \in Session |-> Questions]
             /\ checkpointed = [s \in Session |-> FALSE] /\ owed = [s \in Session |-> {}]
             /\ stopped = [s \in Session |-> "none"] /\ spent = [s \in Session |-> 0]
-----------------------------------------------------------------------------
(* The ledger's scans.                                                     *)

CountRows(Test(_)) == Cardinality({i \in DOMAIN rows : Test(rows[i])})

\* Across UTC days: a run over midnight is one run.
LifetimeSpend(s) == CountRows(LAMBDA r : r.kind = "tokens" /\ r.session = s)
TodaysSpendOf(s) == CountRows(LAMBDA r : r.kind = "tokens" /\ r.session = s /\ r.day = day)
TodaysSpend == CountRows(LAMBDA r : r.kind = "tokens" /\ r.day = day)

\* The run rows of a Session; the last one says where its run began.
RunRows(s) == {i \in DOMAIN rows : rows[i].kind = "run" /\ rows[i].session = s}
Baseline(s) == IF RunRows(s) = {} THEN 0 ELSE rows[Max(RunRows(s))].baseline

RunSpend(s) == LET total == LifetimeSpend(s) IN
               IF total > Baseline(s) THEN total - Baseline(s) ELSE 0

\* A retry answers the latch for its own Session only.
RetryAnswersAnyone(r, s) == TRUE
RetryAnswers(r, s) == r.session = s

\* A billed call is the account itself, alive for everyone.
SignOfLife(r, s) == r.kind = "tokens" \/ (r.kind = "retry" /\ RetryAnswers(r, s))

\* What the scan has concluded after the first n rows.
QuotaScan(s) == LET dead[n \in 0..Len(rows)] ==
                      /\ n > 0
                      /\ \/ rows[n].day = day /\ rows[n].kind = "exhausted"
                         \/ dead[n - 1] /\ ~(rows[n].day = day /\ SignOfLife(rows[n], s))
                IN dead
QuotaExhausted(s) == QuotaScan(s)[Len(rows)]

RemainingToday == IF TodaysSpend < DailyBudget THEN DailyBudget - TodaysSpend ELSE 0
DayCannotFund(questions) == questions * Estimate > RemainingToday

RoomFor(n) == Len(rows) + n <= MaxRows
-----------------------------------------------------------------------------
(* A Session.                                                              *)

Suspend(s, rail) == /\ run' = [run EXCEPT ![s] = "off"]
                    /\ stopped' = [stopped EXCEPT ![s] = rail]
                    /\ calls' = [calls EXCEPT ![s] = 0]

\* start_refusal_reason, then begin_session_run before the Diagnostic spends.
Start(s) == /\ run[s] = "off" /\ ~checkpointed[s]
            /\ ~QuotaExhausted(Nobody) /\ ~DayCannotFund(Questions + 1)
            /\ RoomFor(1)
            /\ rows' = Append(rows, Row("run", s, LifetimeSpend(s)))
            /\ run' = [run EXCEPT ![s] = "setup"]
            /\ owed' = [owed EXCEPT ![s] = {}]
            /\ spent' = [spent EXCEPT ![s] = 0]
            /\ stopped' = [stopped EXCEPT ![s] = "none"]
            /\ UNCHANGED <<day, accountAlive, node, calls, left, checkpointed>>

\* A metered call: it bills, or latches the quota and unwinds the drive.
Call(s) == /\ run[s] \in {"setup", "node"} /\ calls[s] < NodeCalls /\ RoomFor(1)
           /\ \/ /\ accountAlive
                 /\ rows' = Append(rows, Row("tokens", s, 0))
                 /\ calls' = [calls EXCEPT ![s] = @ + 1]
                 /\ spent' = [spent EXCEPT ![s] = @ + 1]
                 /\ UNCHANGED <<run, stopped>>
              \/ /\ ~accountAlive
                 /\ rows' = Append(rows, Row("exhausted", Nobody, 0))
                 /\ Suspend(s, "quota")
                 /\ UNCHANGED spent
           /\ UNCHANGED <<day, accountAlive, node, left, checkpointed, owed>>

Completed(s) == node[s] \in {"plan", "end"}

\* The Supervisor may end early, and must where no question is left.
After(s) == CASE node[s] = "question" -> {"supervisor"}
              [] node[s] = "supervisor" -> {n \in {"question", "plan"} : n = "plan" \/ left[s] > 0}
              [] OTHER -> {"end"}

FinishNode(s) ==
  /\ \/ /\ run[s] = "setup"
        /\ checkpointed' = [checkpointed EXCEPT ![s] = TRUE]
        /\ UNCHANGED <<node, left>>
     \/ /\ run[s] = "node"
        /\ \E n \in After(s) : node' = [node EXCEPT ![s] = n]
        /\ left' = [left EXCEPT ![s] = IF node[s] = "question" THEN @ - 1 ELSE @]
        /\ UNCHANGED checkpointed
  /\ run' = [run EXCEPT ![s] = "boundary"]
  /\ calls' = [calls EXCEPT ![s] = 0]
  /\ UNCHANGED <<day, rows, accountAlive, stopped, owed, spent>>

RunCeilingToday(s) == TodaysSpendOf(s) - Baseline(s) >= RunBudget
RunCeiling(s) == RunSpend(s) >= RunBudget

\* budget_stop_reason, in its order: a COMPLETE Session passes.
StopRail(s) == IF Completed(s) THEN "none"
               ELSE IF QuotaExhausted(s) THEN "quota"
               ELSE IF RunCeiling(s) THEN "runaway"
               ELSE IF DayCannotFund(left[s]) THEN "daily" ELSE "none"

Boundary(s) ==
  /\ run[s] = "boundary"
  /\ \/ /\ StopRail(s) # "none" \/ node[s] = "end"
        /\ Suspend(s, StopRail(s))
        /\ UNCHANGED owed
     \/ /\ StopRail(s) = "none" /\ node[s] # "end"
        /\ run' = [run EXCEPT ![s] = "node"]
        /\ owed' = [owed EXCEPT ![s] = {}]
        /\ UNCHANGED <<stopped, calls>>
  /\ UNCHANGED <<day, rows, accountAlive, node, left, checkpointed, spent>>

NewRunNever(s) == <<>>
NewRun(s) == IF RunCeiling(s) THEN <<Row("run", s, LifetimeSpend(s))>> ELSE <<>>
Retry(s) == IF QuotaExhausted(s) THEN <<Row("retry", s, 0)>> ELSE <<>>

Cleared(s) == {rail \in {"quota", "runaway"} :
                 IF rail = "quota" THEN QuotaExhausted(s) ELSE RunCeiling(s)}

\* clear_run_rails_for_resume, then the stream's event 0. The web resumes a COMPLETE
\* Session too.
Resume(s) == /\ run[s] = "off" /\ checkpointed[s] /\ RoomFor(2)
             /\ rows' = rows \o NewRun(s) \o Retry(s)
             /\ spent' = [spent EXCEPT ![s] = IF @ >= RunBudget THEN 0 ELSE @]
             /\ run' = [run EXCEPT ![s] = "boundary"]
             /\ owed' = [owed EXCEPT ![s] = Cleared(s)]
             /\ stopped' = [stopped EXCEPT ![s] = "none"]
             /\ UNCHANGED <<day, accountAlive, node, calls, left, checkpointed>>

\* A cancel, an accounting fault (UsageLedger), or the death of the process.
Abandon(s) == /\ run[s] # "off" /\ Suspend(s, "none")
              /\ UNCHANGED <<day, rows, accountAlive, node, left, checkpointed, owed, spent>>

Midnight == /\ day < MaxDay /\ day' = day + 1
            /\ UNCHANGED <<rows, accountAlive, session>>

\* The provider's side: the allowance is used up, or comes back.
Account == accountAlive' = ~accountAlive /\ UNCHANGED <<day, rows, session>>
-----------------------------------------------------------------------------
SessionStep(s) == \/ Start(s) \/ Call(s) \/ FinishNode(s) \/ Boundary(s)
                  \/ Resume(s) \/ Abandon(s)

RailsNext == Midnight \/ Account \/ \E s \in Session : SessionStep(s)

RailsSpec == RailsInit /\ [][RailsNext]_railsVars
-----------------------------------------------------------------------------
(* Properties.                                                             *)

\* The write-order scan decides what it says it decides: the provider is dead for
\* an asker iff a refusal of today is followed by no billed call of anyone and no
\* retry granted to that asker (usage.py:1070-1077).
LatchIsLatestEvidence ==
  \A s \in Session \cup {Nobody} :
    QuotaExhausted(s) <=>
      \E i \in DOMAIN rows :
        /\ rows[i].kind = "exhausted" /\ rows[i].day = day
        /\ \A j \in DOMAIN rows : j > i /\ rows[j].day = day =>
             ~(rows[j].kind = "tokens" \/ (rows[j].kind = "retry" /\ rows[j].session = s))

\* An unattended run outspends its ceiling by no more than the node that crossed it
\* and, where that node completed the Session, the Study Plan that still follows
\* (usage.py:1262-1267), over midnights and resumes too: only a human's resume of a
\* run that reached the ceiling opens another budget (usage.py:1012-1023, 1352-1360).
RunawayBounded ==
  \A s \in Session : spent[s] < RunBudget + (IF Completed(s) THEN 2 ELSE 1) * NodeCalls

\* A resume that had the per-run ceiling cleared is not suspended on it again before
\* it ran a node (usage.py:1352-1356).
RunawayResumeProgresses == \A s \in Session : stopped[s] = "runaway" => "runaway" \notin owed[s]

\* ... and one that was granted a retry of a dead quota gets its one attempt
\* (usage.py:429-432).
QuotaResumeProgresses == \A s \in Session : stopped[s] = "quota" => "quota" \notin owed[s]

\* What it needs: no refusal is recorded between a granted retry and its drive's first
\* node boundary (usage.py:1388).
RefusalsWait ==
  (\E s \in Session : run[s] = "boundary" /\ "quota" \in owed[s]) =>
    \A i \in DOMAIN rows' : i > Len(rows) => rows'[i].kind # "exhausted"
=============================================================================
