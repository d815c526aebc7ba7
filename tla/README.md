# A TLA+ verification of Interview Coach

This directory holds TLA+ specifications of the Interview Coach in `../src`, the TLC
configurations that check them, and proofs that TLAPS checks. Every definition is translated
from the Python source; `PROJECT.json` maps each one to the lines it stands for.

Interview Coach conducts mock technical interviews. A *Session* is a LangGraph graph that asks
questions about the Skills of a Topic Plan, has each answer judged by an LLM, lets an LLM
Supervisor choose the next Skill, and ends with a Study Plan. Sessions run from a CLI or in
threads of a FastAPI server, one thread per Session, and share three files: the LangGraph
checkpoints, the usage ledger (JSONL) and the Skill ledger (JSON).

## 1. Inventory

Paths are relative to `src/src/interview_coach/`.

| Part | State it keeps | Operations | What is hard |
|---|---|---|---|
| Web session registry: `web_runtime.py`, `web_api.py`, `web_session_driver.py` | which socket owns a Session id, which thread drives its checkpoint, who waits for a stale run | claim an id, reconnect, start, cancel, disconnect, unwind | coroutines and threads; a `finally` on each side of a lock; a bounded pool of joins; runs that never end |
| Turn binding: `web_runtime.py`, `web_api.py` | pending turn, answer queue, cancel event of one socket | question, answer frame, cancel frame, new run | two threads without a lock; duplicated and late frames; a queue that survives a run |
| Session graph: `supervisor.py`, `session_serde.py`, both drivers | position in the plan, transcript, status, checkpoint | question, Supervisor, Study Plan, save, resume | an LLM chooses the move; a stop at any node; two drivers with different resumes |
| Micro-loop, Evaluator, Interviewer: `microloop.py`, `evaluator.py`, `interviewer.py`, `skill.py`, `telemetry.py` | the exchange of one question, panel budget, noise counters, belief | render, judge, committee, follow up | every call may be invalid, fail or stop the Session; retries inside retries; Sessions in parallel |
| Usage accounting: `usage.py`, `llm.py` | ledger rows, latched faults, their sidecar | gate, record, latch, park, reconcile | two files, several processes; crashes between writes; replays |
| Run rails: `usage.py`, `web_session_driver.py` | rows of runs, refusals and retries | daily budget, per-run ceiling, quota latch, resume | decisions taken by the order of rows; midnight; two Sessions |
| Daily question cap: `usage.py`, `web_session_driver.py` | reservations and releases of a day | reserve, release, resume | check-then-record over processes; releases after a crash or a midnight |
| LLM router and breaker: `llm.py` | failures and opening time of each provider, process wide | call, fail over, probe | threads share breakers; time; a fallback that cannot serve the call |
| LLM transport: `llm.py` | the attempts, replies and tool rounds of one request | gate, send, retry, repair, count | three layers of retries inside each other; a fault of another thread in the middle |
| Skill ledger: `ledger.py`, `filelock.py` | one record of beliefs per Candidate | load with decay, carry, merge, publish | a thread lock, a flock and a whole-file rewrite; writers that die; decay charged once |
| Post-mortem: `postmortem.py`, `cli.py` | the transcript and stage of one command | debrief, reconstruct, fuse, plan | a command that fails or is abandoned half way shares the ledger with Sessions |
| Web client: `src/web/src` | view of the Session, socket, last turn | reduce frames, reconnect, send | frames of an old run, reconnects |
| Diagnostic: `diagnostic.py` | first beliefs and the Topic Plan | place a Candidate | claims, carried beliefs and correlations meet at the clamp of a mean; an agent's plan that is wrong twice |
| Study planner: `study_planner.py`, `resources.py` | none | rank gaps, choose resources, validate a draft | three scales in one priority; what a draft may cite |
| Judge's seat: `config.py`, `llm.py` | role overrides, the pinned triple | build the role clients, seat, refuse | the override checked is not the model called; failover of a pinned judge |
| Offline tools: `bench.py`, `eval_harness.py`, `forge.py` | files of one process | sweep a judge, compare with bands, admit drafts | a stop half way through a sweep; medians of the survivors; sets that grow while they are checked |
| Checkpoint threads: `cli_session.py`, `filelock.py`, `web_session_driver.py`, `web_ops.py` | the newest checkpoint of an id, the flock on it, its age | claim, look, stream, sweep | two surfaces, one of which takes no claim; a sweep that deletes what it listed earlier |
| Serde: `session_serde.py` | versioned state | load, migrate, refuse | old versions |
| CLI: `cli.py`, `cli_session.py`, `cli_parser.py`, `ui.py` | the order given and its settings | one process per command | exit codes that mean a verdict, a stop or a failure |
| Data: `bank.py`, `seeds.py`, `rubric.py`, `language.py`, `concepts.py` | none after loading | select, retrieve, detect | — |
| Other tools: `judge_lock.py`, `replay.py`, `retrieval_eval.py` | files of one process | decide the lock, replay | — |
| Reports and I/O: `exporter.py`, `web_ops.py`, `web_protocol.py`, `demo_llm.py` | none | format, validate, read the environment | — |

How they interact. A socket claims an id in the registry and starts a run thread. The thread
reserves questions (question cap), clears what a resume may clear (run rails), and streams the
Session graph, asking the rails at every node boundary. A question node runs the micro-loop,
which waits for the Candidate through the turn binding and calls the Evaluator and the
Interviewer; each call passes the accounting gate, the router, the breakers and the transport's
retries, and leaves a row in the usage ledger. At the end the driver saves the beliefs in the
Skill ledger and gives unused questions back. The commands of the operator make the same calls
under the same gate: a diagnosis places a Candidate before a Session, a post-mortem writes what a
real interview showed into the same Skill ledger, bench and harness measure the judge that the
configuration then seats, and the forge proposes questions for the bank.

What makes each part correct, in a sentence: one owner and one graph for an id, and an id that
comes free (registry); an answer scored on the question it was given to (turns); bounded
questions, no Skill dropped silently, a finished interview saved (graph); a judgment that moves
the belief once, by no more than its evidence is worth, in bounded calls (micro-loop); spend
counted once and never forgotten (accounting); a bounded unattended run that a human can resume
(rails); a cap that abandoned and resumed Sessions cannot exceed (cap); failover on outages
only, and recovery (breaker); retries that do not multiply, and nothing billed past a fault
(transport); no lost update and no rejuvenated evidence (Skill ledger); evidence from whole
debriefs only (post-mortem); a stop that never becomes evidence, exit codes that are the verdict,
and one measured judge (commands); one writer of a checkpoint (threads). Section 5 lists what the code
does not keep of this.

`PROJECT.json` lists the hazards of the code at the lines where they bite.

## 2. Modules

| Module | Models | A step is |
|---|---|---|
| `SessionLease` | abstract: what the registry promises an id | a grant, begin, end or close |
| `SessionRegistry`, `MCSessionRegistry` | claims, stale joins, sockets, run threads | a section of a coroutine between awaits, or a step of a thread |
| `TurnBinding` | frame loop, queue, cancel, `QueueCandidate` | one read or write of shared state |
| `UsageLedger`, `MCUsageLedger` | gate, rows, faults, sidecar, reconcile | one file access, or a section under a lock |
| `ProviderBreaker` | abstract for the transport: router and breakers | one provider call with its accounting |
| `LlmTransport`, `MCLlmTransport` | one request below the router's interface: gate, attempts, repairs, tool rounds | one attempt with what the code does on it, or one of the gate's two reads; refines `ProviderBreaker` |
| `QuestionCap`, `MCQuestionCap` | reservations and releases | a section of the driver; check and record are separate steps under the ledger's lock |
| `RunRails`, `MCRunRails` | the scans of the ledger's rows, the rails between the graph's three nodes, the resumes | one call, the end of a node, or one node boundary |
| `SkillLedger` | save, carry, merge, decay, locks, death; abstract for the command | one lock operation or file access |
| `PostMortem`, `MCPostMortem` | the post-mortem command beside the Sessions' saves | one call of the model, or a step of `SkillLedger`, which it refines |
| `SessionGraph`, `MCSessionGraph` | the three nodes and both drivers | one node with its checkpoint |
| `MicroLoop`, `MCMicroLoop` | one question, from rendering to the belief | one provider call and what the code does on its reply |
| `Diagnostic` | priors, correlations, criticality, the Topic Plan and its validators | operators, no state |
| `StudyPlanner` | ranking, resources, validators of a draft | operators |
| `JudgeBench` | who may judge; sweeps, medians, bands, exit codes | operators |
| `QuestionForge` | the gates of a draft, what is queued | operators |
| `OperatorCommands`, `MCOperatorCommands` | diagnose, bench, eval-harness, forge and the study plan, composed of the four modules above | one structured call with what the command does on its reply |
| `CheckpointClaim` | shells, the server's run and the sweep on one checkpoint thread | one look, claim, write or delete |
| `SessionRegistry_proofs`, `TurnBinding_proofs`, `MicroLoop_proofs`, `OperatorCommands_proofs` | theorems about the module of that name | |
| `LlmTransport_proofs`, `PostMortem_proofs` | theorems about a module and the abstract one it refines (`ProviderBreaker`, `SkillLedger`) | |
| `Usage_proofs` | theorems about `UsageLedger` and `QuestionCap` | |
| `SessionBounds_proofs` | theorems about `SessionGraph`, `RunRails` and `CheckpointClaim` | |

State and actions carry the source's names. Where a module abstracts data it says so in its
header: a judgment keeps its confidence, its blanked citations and its noise, not its scores;
a posterior is the set of evidence in it with the age decay has charged; a ledger is the sums
that are read from it, except in `RunRails`, where the order of rows matters. Variables marked
`history` are read by properties only. Where two modules are proved about side by side, the second
one's specification has a name of its own: `CapSpec` in `QuestionCap`, `RailsSpec` in `RunRails`,
`ClaimSpec` in `CheckpointClaim`.

Sorts, selections and sums are said by counting, which is what can be reasoned about for every
value: the middle run of the bench is the one that half of the runs sort before, the ranking of the
study plan puts each Skill behind as many as are studied before it, and a sum over Sessions is the
size of a set of pairs.

Some definitions stand directly before another and are used by no specification: `TakenMeanwhile`
has `TakenByAnOpenSocket` before it. They are the plausible mistakes each property is tried against
(`mutants` in `PROJECT.json`): put in the place of the definition, the property must fail.

## 3. What the runs check

| Run | Bounds | Shows |
|---|---|---|
| `registry` | 4 connections, 2 ids, pool of 1, one run that hangs; three clients know the first id, two the second | no interleaving gives an id two holders or leaks a waiter; a closed socket's id comes free; every claim is answered; `SessionRegistry` implements `SessionLease` |
| `turns` | 4 questions on one socket over any number of runs | answers are scored on their own question, late ones never; cancels end the run they were sent to |
| `turns_window` | same | refuted, see 5 |
| `accounting` | 2 threads, 2 reconciles, 2 crashes, 1 failed read of the ledger, any write failing and recovering at any step | spend is counted once, and once more at most for a reconcile that could not read the ledger; none that a reconcile read is forgotten |
| `accounting_park_race` | 2 threads, 1 reconcile | refuted, see 5 |
| `breaker` | one Session thread call by call and one attempt by attempt; threshold 2, cooldown 1; 2 attempts, 2 replies, either provider down or up at any step, a fault latched, parked or reconciled at any step | open exactly within a cooldown of the last of enough consecutive outages; a request sends no more than its replies times its attempts per provider; while a fault is held a thread completes only the call it had under way, but for gates that a fault was parked behind; recovery noticed; `LlmTransport` implements `ProviderBreaker` |
| `question_cap` | 3 Sessions of 1, 2, 2 questions under a cap of 4, crashes, one midnight | the cap holds until the first midnight, the books cover what Sessions may still ask |
| `run_rails` | 2 Sessions of 2 questions, nodes of up to 2 calls, a ceiling of 2, 2 days, 5 rows | the latch is the latest evidence, an unattended run stays within its ceiling plus the node that crossed it and the Study Plan that may follow, a resume gets its node |
| `skill_ledger` | 2 Sessions in one process, a post-mortem of 1 or 2 answers in another, 2 Candidates, 2 Skills, 2 days | evidence is dropped only by a writer that measured it anew, ages never shrink, second-hand evidence comes from whole debriefs, an aborted command leaves none, saves end |
| `session` | a plan of 3, a spare seed, a Skill to switch to, 4 questions, both drivers | bounds, seeds for deviations, plan coverage, and completion reaches the ledger |
| `question` | 3 answers, the real retry limits, 2 confidences, 2 splits, 4 texts, 2 Sessions | follow-ups never repeat, noise is exact, the guards bind the weight and an unscored question has none |
| `commands` | two bench cases, one with a delivery label, swept once or three times; batches of up to 2 from a Writer that may send 3; all combinations of three claims at both ends with a carried mean at the clamp; two Skills compared over every rank, two masteries, two confidences; nine settings; one retry | a stop is never evidence; the bench's exit code is what its bands say; only what passed every gate is queued; a diagnosis says what the Candidate brought; one measured judge; no weaker Skill is studied first |

The type invariant of a module with proofs is in no run: it is proved (`TypeCorrect`,
`GraphTypeCorrect`, `RailsTypeCorrect`, `TransportTypeCorrect`, `CommandTypeCorrect`, and the first
part of `CapKept`), and so are `QueueHasRoom` of `TurnBinding` (`AlwaysRoom`) and `TurnCost` of `MicroLoop` (`BoundedTurns`).

Why the bounds are enough. Three connections let a third party take an id while a claim waits,
the fourth makes the pool full for another id. Four turns cover a question, its follow-up and a
run after a cancel. Two reconciles and two crashes give a replay cut short and repeated, with a
call in between; one failed read of the ledger is the least that replays a row again. Three
Sessions under a cap of four are the least for which any two fit and all do not. Five rows hold a refusal, a retry, a run and what follows; or a run, a question just under
the ceiling, a Supervisor that crosses it and completes the Session, and the Study
Plan. Two days are the least with decay and a midnight. Three answers are the least with two follow-ups that may be equal; the
code's own limit is four and decides the same way. Confidences 30 and 95 lie on the two sides of
every ceiling (40, 50, 85). A threshold of two is the least at which a success in between matters,
and a cooldown of one tick opens and elapses; two attempts and two replies are the least at which
retries at one layer could be spent again at the next. A debrief of one or two answers can be cut
short, ended early by the model, or run to its end. One sweep, or three of which some fail, gives a
median of one, of two and of three, and a spread that is missing, small or large; three drafts for
a batch of two are one too many. Means are in 1/2000, fine enough for every nudge of the
correlation table to be exact. Unbounded counters (days, rows, calls, crashes, turns) are capped by
the constants named after them; `SYMMETRY` is used in `accounting` only, which has no liveness, and
a `VIEW` in `question` only, which leaves out a count that nothing there reads.
Deadlock is checked where the system has no end; the other configurations say
`CHECK_DEADLOCK FALSE` because the bound or the end of the interview stops the model.

### Fairness

- Registry: an event loop runs what is ready; a join returns within its timeout; a *cancelled*
  run that is not hung unwinds, as it polls the flag between calls that time out. Nothing makes a
  client act or a run that is not cancelled end.
- Turns: both threads keep running. The poll of the queue has a timeout.
- Breaker: time passes and calls return. `RecoveryNoticed` also assumes a workload: Sessions keep
  calling, and not every call fails by itself.
- Transport: the same workload for the Session thread followed call by call. A request may begin or
  not, and stay under way for ever.
- Skill ledger: threads inside a save run, and a lock that is freed again and again is got at
  last (strong fairness). A killed process frees its flock. Nothing makes a Session start or a
  command go on with its debrief.
- Session graph: the Candidate resumes a Session that stopped, and no node is stopped for ever.

## 4. What is proved

The theorems hold for every value of the constants. Each follows the same argument: an invariant
that implies the property is shown to hold initially and to be kept by every action, one step per
action.

`SessionRegistry_proofs` — `TypeCorrect`, `OneOwner`, `JoinsClosed`, `RegistryRefinesLease`,
`WaitersCounted`, for any set of connections and ids and any pool, from `NoneAssumption` and
`MaxStaleJoinsAssumption`. `OneOwnerPerId` alone is not inductive: it says nothing of the
registry. `IInv` adds that whoever drives or is served holds the registration
(`HoldersRegistered`), that a registered runtime has that id and a socket that was open
(`RegisteredServe`), that only such runtimes run, and that a claim joins a closed runtime which
can start no thread (`ClaimsJoinClosedRuns`). Two holders of an id would then both be
`runtimes[id]`. For the refinement each action is shown to be a step of the lease or a stutter.
The count of waiters is inductive once `Accounted` says that the ids waited for and the claims
that wait correspond one to one: an id enters the pool with its claim and leaves it with it.

`TurnBinding_proofs` — `TypeCorrect`, `OwnQuestion`, `LateNeverScored`, `OwnCancel`, `AlwaysRoom`,
for any number of turns, from `BoundsAssumption` (a queue of at least three items) and
`SentinelAssumption` (an answer is not the sentinel). The code has no lock here; what saves it is
an argument about order that `BindingInv` states: the queue holds at most one answer and it is to
the current turn; once an answer is queued nothing is pending, but for the step between
`put_nowait` and the assignment after it; a thread past its look at the flag finds no answer
accepted after the cancel. `RoomInv` adds that it holds at most one sentinel besides.

`Usage_proofs`, on `UsageLedger` — `CountedOnce`, `TypeCorrect`, `NothingForgiven`, for any threads,
reconciles, calls and crashes, from `BoundsAssumption` and `LockAssumption`. `SpendCountedOnce` says
nothing of the calls that are not recorded yet nor of what a reconcile holds in its hands.
`AccountingInv` adds that no file and no list knows of a call before it is billed
(`UnrecordedUnknown`), that a reconcile works under the lock (`ReconcilesLocked`), that a fault in
memory was never on disk (`MemoryNotParked`), that what a reconcile read is still parked while it
replays and a row it may still append is in the ledger no more often than reconciles failed to read
it (`HeldStayParked`), that a held row which is in the ledger carries its fault id there
(`HeldRowsMarked`), and the bound on the rows itself (`RowsBounded`). `NothingForgiven` has the hypothesis `~MayTear`, that an append which fails leaves
no part of a line: without it the code does forget (section 5). `ToldInv` follows each row a
reconcile has read through its three lists.

`Usage_proofs`, on `QuestionCap` — `BooksCover`, `CapHoldsOnTheFirstDay`, for any finite set of
Sessions of any sizes, any cap, days and crashes, from `SizeAssumption` and `CapAssumption` and the
hypothesis `~MayMisread`, that a checkpoint which is there is read (section 5 has what happens
otherwise). The property compares what Sessions may still ask with the books; what the proof needs is what they may
still ask *or give back*, the `Charge` of `CapInv`: an open checkpoint is charged in full, whether its
run lives or not, as a resume may come without a reservation. `ChargesCovered` says that charges and
releases stay within the reservations of all days, because no step that raises a Session's charge
does so by more than it reserves, and a release lowers the charge by what it gives back.
`FirstDayCapped` adds that what a start has counted under the lock is still so when it records.

`SessionBounds_proofs`, on `SessionGraph` — `SlotsBounded`, `DeviationsServed`, `PlanAsked`, `GraphTypeCorrect`, for any
plan, seeds and cap, from `PlanAssumption`, `SeedsAssumption` and `SurfaceAssumption`. `GraphInv` says
that a question is only ahead while the cap has room (`RoomForQuestion`), and that until a switch the
plan is walked from its head (`PlanWalked`): every Skill before the index was asked, and the one at
the index was or is next, through skips, failed questions and stops between any two nodes.

`SessionBounds_proofs`, on `RunRails` — `NoRunaway`, `ResumeRunsANode`, `LatchDecides`, `RailsTypeCorrect`, for any
Sessions, budgets and rows, from `RailsAssumption`. `RailsInv` ties the spend of a run to the ledger
(`SpendIsBooked`: the tokens after the latest run row of the Session, whatever rows of others lie
between), bounds what a node may begin with (`NodesBounded`: below the ceiling, or, for the Study Plan of a
completed Session, which no rail stops, up to a node above it), and keeps what a resume cleared clear
until a node ran (`ClearedStaysClear`). `LatchDecides` compares a scan in write order with a
statement about the rows. Induction over them is out of reach, so the proof takes the least row after
which the two would disagree (`LeastNumber`, from the well-foundedness of the naturals).

`PostMortem_proofs`, on `SkillLedger` — `TypeCorrect`, `CarriedAges`, `NothingLost`, for any writers,
processes, Candidates, Skills and days, from `WriterAssumption` and `LedgerBoundAssumption`.
`LedgerInv` adds to the types that a writer in the critical section holds the flock, that what it
read is still what the file says, that clocks are never ahead of the day, and the ages without the
day, which cancels out.

`PostMortem_proofs`, on the command — `CommandImplementsLedger`, `CommandLosesNothing`,
`WholeDebriefs`, `AbortsAreClean`, `CommandTypeCorrect`, for any limits of a debrief and any commands and Sessions, from
`DebriefAssumption` and `CommandAssumption` (each command is a process of its own) besides those of
`SkillLedger`. Each step of a command is shown to be a step of `SkillLedger` or a stutter, so that
its invariant is inherited and only what the stages add is proved anew.

`LlmTransport_proofs`, on `ProviderBreaker` — `TypeCorrect`, `OpenAfterOutages`, for any threads,
threshold and cooldown, from `ParametersAssumption`. `BreakerInv` adds that the count is the number
of outages since the last success and that a tripped breaker's age runs from the last of them.

`LlmTransport_proofs`, on the transport — `TransportImplementsBreaker`, `TransportTripsOnOutages`,
`NothingPastAFault`, `BoundedRetries`, `TransportTypeCorrect`, for any threads, attempts and replies, from
`RequestAssumption` besides those of `ProviderBreaker`. A request's attempts stutter until the one
that decides the outcome of the call, which is the breaker's step. `FaultInv` says how far a thread may have
come while a fault is held: a thread that completed a call since is before its next gate, at it, or
past one that the fault slipped behind while it was being parked. `CostInv` is a potential argument: what a request has
spent and what it may still owe at its stage, reply and provider never exceed the limit, because
every step that spends lowers what is owed by as much, and no repair or failover raises it.

`MicroLoop_proofs` — `TypeCorrect`, `NoReask`, `ExactNoise`, `GuardedWeight`, `BoundedTurns`, for
any retry limits, turns, budget, scales and texts, from the module's four assumptions. `LoopInv`
says at each stage how many questions were put and scored (`Counted`), where the noise of the
judgment under way is remembered (`NoiseTracked`: in the counters during a first pass, in the first
pass while the committee speaks, in both during the verdict), that the belief moves only at the end
(`MovedAtTheEnd`), and that the judgments at hand are lowered as the guards demand (`Sound`,
`Guarded`). Arithmetic of the percentages is in lemmas about single judgments. The cost of a turn
is bounded stage by stage by what the stages before it may have cost; a tool round-trip may be run
once more on the fallback, which a garbled name ends (`Trips`, `Primarys`).

`OperatorCommands_proofs` — `StopsAreNoEvidence`, `MeasuredJudge`, `BenchVerdict`, `SilentGreen`,
`QueueOfTheForge`, `NobodyPassedOver`, for every case file, number of sweeps, reply, setting and final
Skill state, from the assumptions of the modules it composes and `OrdersAssumption` and
`DraftsAssumption` (the types of a command line and of what the Writer sends). `Ending` adds that a
command that is not over has filed and printed nothing and was not stopped; `Seated` that a command
past its start has a judge that the settings may seat, and that every score on its tape is that
judge's. `Tally` says that a verdict is given on a whole tape and is what `bench_passed` makes of it.
That its median is the voice of a majority is a fact about finite sets with a strict order: each
element stands behind as many as precede it, no two behind equally many, so every place is taken
(`PlacesFilled`), and at most half of the surviving runs lie on either side of the middle one
(`MiddleIsMajority`). `ForgeInv` relates the rows of the forge to the prompts seen and to the draft
whose answers are being judged (`DraftFresh`); the survivors that `gate_yield` finds by subtraction
are then the rows of the queue because the rejections partition the rest (`YieldCounted`). `Planned`
keeps the draft a printed plan was made from; whoever is worse off than one of its targets has the
higher priority (`WorseComesFirst`), so stands earlier (`RankedInOrder`), and cutting the ranking to
the first targets drops nobody before the last (`WorseIsEarlier`).

`OperatorCommands_proofs`, on the Diagnostic — `SeedsFromTheCandidate`, for every profile, role,
companies and carried means, from `OrdersAssumption` (with `ProfileOK`, what
`CandidateProfile` accepts) and `PlansAssumption`. The loop over the correlation table moves the means
it reads from, so the proof walks its six rows one by one: a Skill that only an earlier row has moved
is neutral still when its own row is read, so no hint is second-hand; the clamps never bite, because a
hint is smaller than its source's distance from neutral; the floor on the strength keeps both
parameters of the Beta positive and never moves the mean. That the fallback asks of each Skill once is
the counting argument of the study plan again: each Skill's place is the number of those before it.

**What the refuted properties need.** Section 5 lists properties the code breaks. Where the cause can be
stated as a condition on steps, it is proved that nothing else breaks them, so that the trace there is
not one of many:

- `OnlyTheRaceLoses` (`Usage_proofs`, if no append tears): `SpendAccounted` holds of every behaviour in
  which nobody parks a fault between a reconcile's read and its rewrite (`NoneParkedMeanwhile`). The
  invariant says that what a reconcile holds is the whole sidecar (`HeldIsAll`) and that every billed
  call is in a row, a file, a list or a call under way.
- `OnlyParkingSlipsPast` (same module): `LatchBlocks`, if no fault is parked while a gate is between its
  reads (`NoneParkedInGate`).
- `OvershootBounded` (same module, for any `MayMisread`): `OvershootIsGivenBack` — what the Sessions
  started on a day may ask exceeds the cap by no more than was released on that day, late, doubled or
  on a misread checkpoint. `StartsBooked` ties the Sessions of a day to its reservations, `DaysCapped`
  the reservations to cap and releases. TLC checks it with the configuration of `CapHolds`.
- `RetryGetsItsAttempt` (`SessionBounds_proofs`): `QuotaResumeProgresses`, if no other Session's refusal
  lands between the retry row and the first node boundary (`RefusalsWait`).
- `GuardsHold`, `AnswersAreKept`, `OneSurfaceOneWriter` (same module, on `CheckpointClaim`), for any
  shells, answers, sweeps and ends, from `Surfaces`: a process is on one surface, and the server has one
  run of an id at most, which is what the registry grants. `ClaimInv` says that a shell at work holds the
  flock, that the server's run begins after the sweep, and that as long as the surfaces did not cross
  (`crossed`) a driver drives alone (`DrivesAlone`), so that what it has in memory is the thread
  (`MemoryIsTheThread`). TLC found `ClaimInv` inductive from all 2,036,736 typed states of a small
  instance before it was proved.
- `OnlyResumesRejuvenate` (`PostMortem_proofs`, on `SkillLedger`): `EvidenceNeverUndecays`, if COMPLETE
  Sessions are resumed on their own day only (`ResavedOnItsDay`). It adds to `LedgerInv` that the clock
  a writer stamps with is the day of its measurement, which a post-mortem's long elicitation and the
  death of a process leave alone.
- `EnglishAsksOnce` (`MicroLoop_proofs`): `AskedOnce` of every English Session.

TLC has checked each of them on a small instance whose steps are so constrained. These conditions are no
promise of the code: nothing there sees to them.

Left to TLC: liveness (fairness and `ENABLED` are out of the prover's reach), so that `ClaimAnswered`
and its like are checked on small instances only; and `CancelClosesTurn`, `PendingTurnAnswerable`,
`OneProbePerWindow`, `CompletedPayForWhatTheyAsked`, `ReportedIsSaved` and `ScoredTurnKept`, which are
refuted and have no such counterpart. Every safety invariant and action property of a passing run has
its theorem. Of `SessionRegistry`, `JoinsAClosedRun` is proved (`JoinsClosed`) and in no run: it is a
part of the invariant.

## 5. Known divergences

Runs that TLC refutes, with the trace as the evidence:

- `turns_window`, `PendingTurnAnswerable`: the frame loop clears `awaiting_turn_id` after
  `put_nowait` (`web_api.py:217-221`); the graph thread may have armed the next turn in between,
  and its answer is then refused.
- `accounting_park_race`, `SpendAccounted`: a fault that another process parks while a reconcile
  runs is deleted by the rewrite of the sidecar (`usage.py:858`); proved to be the only way
  (`OnlyTheRaceLoses`).

Further properties the code does not keep; the configuration named refutes each (with
`-continue`, where it names several):

| Property | Module, configuration | Why |
|---|---|---|
| `CancelClosesTurn` | `TurnBinding`, `TurnBindingCancel.cfg` | a turn armed while `cancel()` runs stays pending; its answer is accepted and, as proved, never scored |
| `LatchBlocks` | `MCUsageLedger`, `UsageLedgerDivergences.cfg` | the gate reads the sidecar before memory; a fault parked in between is seen in neither; nothing else gets past (`OnlyParkingSlipsPast`) |
| `BilledOnce` | same | a replay "cannot bill the same call a second time" (`usage.py:837`), but a ledger that cannot be read tells of no replayed row (`usage.py:915-923`), so that a retry after a failed rewrite appends it again; nothing else does (`CountedOnce`) |
| `ReplayedNotForgiven` | same | a replayed row glued to a torn line does not parse |
| `OneProbePerWindow` | `MCLlmTransport`, `ProviderBreakerProbes.cfg` | a probe that fails on an error of its own leaves the window open for another |
| `NoCallAfterTheUnrecorded` | same | "the call after the unrecorded one does not happen" (`llm.py:488-489`), but for a gate that a fault was parked behind between its two reads; nothing else lets one through (`NothingPastAFault`) |
| `CapHolds` | `MCQuestionCap`, `QuestionCapDivergences.cfg` | a release after midnight is booked on the new day; a checkpoint that cannot be read releases questions the resume will ask; the excess of a day is bounded (`OvershootBounded`) |
| `CompletedPayForWhatTheyAsked` | same | a resumed Session has no reservation to give back |
| `QuotaResumeProgresses` | `MCRunRails`, `RunRailsTwoResumes.cfg` | another Session's refusal lands after this one's retry row; nothing else does it (`RetryGetsItsAttempt`) |
| `EvidenceNeverUndecays` | `MCPostMortem`, `PostMortemDivergences.cfg` | the resume of a COMPLETE Session saves its old beliefs as of today; nothing else does it (`OnlyResumesRejuvenate`) |
| `ReportedIsSaved` | same | a write that fails is only logged, and the report shows the fused beliefs all the same (`ledger.py:319`) |
| `CompleteIsSaved` | `MCSessionGraph`, `SessionGraphCli.cfg` | on the CLI alone: it refuses to resume a COMPLETE checkpoint whose beliefs were never saved (`cli_session.py:355`) |
| `ScoredTurnKept` | `MCMicroLoop`, `MicroLoopDivergences.cfg` | tool arguments that are no JSON escape as a `ValueError` and fail a question that was already scored; `microloop.py:125-127` promises a degrade |
| `AskedOnce` | same | follow-ups are compared with the bank's text, so a rendered seed question may be asked again word for word; in English none is (`EnglishAsksOnce`) |
| `OneWriterPerThread` | `CheckpointClaim`, `CheckpointClaimServer.cfg` | "One checkpoint thread takes one writer" (`cli_session.py:231`), but the server's run takes no flock (`web_session_driver.py:209`): it and a shell drive one thread, and the later write hides the other's answers; it takes both (`OneSurfaceOneWriter`) |
| `CondemnedIsStale` | `CheckpointClaim`, `CheckpointClaimSweep.cfg` | the sweep deletes by the stamps it listed first (`web_ops.py:168-183`): a shell may have resumed the thread since; it takes a shell (`OneSurfaceOneWriter`) |

`CheckpointClaim.cfg` is the other half of the last two: with the surfaces one after the other, what
a driver was told about the thread is still so when its stream begins (`GuardStillHolds`), and no
answer in a checkpoint is written over (`AnswersKept`), through stops and deaths at every step. Both
are proved as well (section 4).

What the models follow although a reader of the documents might not expect it:

- a web resume keeps `started_at`, the CLI resets it (`docs/issues/0019`; `late` is cleared by
  `ResumeOnCli` only); `switch_skill` may move the plan back to Skills without seeds
  (`docs/issues/0032`; `DeviationsFindASeed` is about deviations);
- the judge's temperature is no part of the triple that is seated, though `config.py:8-10` says that
  a change of it is gated by `coach bench`;
- a judge that was not measured ends the command with a traceback and exit code 1, the code of a
  red bench;
- the median of an even number of surviving scores is the upper one of the two in the middle;
- a draft rejected for having no follow-up seeds still occupies its prompt for the batch;
- `--out` may put the report of a screen beside those of full runs; only its header tells them apart;
- with an empty catalog no study plan passes the validators;
- the sweep drops threads of unfinished Sessions too, where `config.py:132` speaks of finished ones.

## 6. What is not modelled

- Prompts, wording, JSON repair, HTML, exports, logging, and the arithmetic of scores: they
  decide no control flow beyond the choices the models take nondeterministically.
- Real-valued Beta updates: out of TLC's reach. What is kept is the weight (`MicroLoop`) and the
  decay (`SkillLedger`).
- `SessionGraph` has one driver at a time; two of them on one thread are `CheckpointClaim`'s, which
  keeps of a graph the answers and the status only.
- `SkillLedger` and `CheckpointClaim` leave out a file system that refuses flock, `SkillLedger` a
  corrupt file; `UsageLedger` a torn sidecar row; `SessionRegistry` the
  failure to start a thread and the shutdown of the server.
- What a backoff sleeps, and what a reply costs in tokens: `LlmTransport` counts attempts.
- The bias, language, cost and agreement tables of a bench report; the lock's fingerprint; replays.
- `Diagnostic` chooses which keywords of a role match; the discounts of second-hand evidence in
  `PostMortem` are real arithmetic.
- Deployment and pure data modules; `PROJECT.json` gives the reason part by part.

## 7. Plan

Done, in this order of importance: the registry and its refinement of the lease, turns,
accounting, breaker, cap and rails, Skill ledger, graph, micro-loop; then the transport and the
post-mortem as refinements of breaker and ledger, the commands of the operator over the Diagnostic,
the Study planner, the judge's seat, the bench and the forge, and the two surfaces on one
checkpoint thread.

Next, modelling:

1. `WebClient`: the session reducer and the reconnecting socket with `web_protocol.py`, composed
   with `TurnBinding` over a channel that loses frames when it closes. The `turns` run then
   checks the composition.
2. `CheckpointClaim` composed with `SessionRegistry`, and its answers with those of `SessionGraph`.
3. Server shutdown and failed thread starts in `SessionRegistry`; serde versions; the judge lock
   and the replay.

Next, proving: the invariants of the composition in 1, and the registry's grant as a theorem about
`SessionRegistry` that discharges `Surfaces` in 2; a condition under which `OneProbePerWindow` holds.

## 8. Running it

    tlc -workers 2 -config SessionRegistry.cfg MCSessionRegistry
    tlapm SessionRegistry_proofs.tla

The configuration of each run is named in `PROJECT.json`; the longest takes about two minutes.
