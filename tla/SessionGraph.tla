---------------------------- MODULE SessionGraph ----------------------------
(***************************************************************************)
(* One Session's graph: question, Supervisor, Study Plan (supervisor.py),  *)
(* and the drivers of the web and the CLI around it (web_session_driver.py,*)
(* cli_session.py). A node's result is checkpointed with the step that     *)
(* produced it; a drive that stops loses the node it was in, and a resume  *)
(* continues with that node. An item is weak when its question stopped at  *)
(* the safety cap below the evidence bar; other stops count as resolved.   *)
(***************************************************************************)
EXTENDS Naturals, Sequences, FiniteSets, SequencesExt

CONSTANTS Skill,
          None,          \* no Skill
          Plan,          \* the Topic Plan's Skills
          Seeds,         \* seed_count of each Skill
          MaxQuestions,  \* max_questions
          Surface        \* the drivers in use: web, cli

ASSUME PlanAssumption == Plan \in Seq(Skill) /\ Plan # <<>> /\ None \notin Skill
ASSUME SeedsAssumption == Seeds \in [Skill -> Nat \ {0}] /\ MaxQuestions \in Nat \ {0}
ASSUME SurfaceAssumption == Surface \subseteq {"web", "cli"}

VARIABLES next,        \* the checkpoint's next node: question, supervisor, plan, end
          index,       \* current_plan_index, from 1
          nextSkill,   \* next_skill
          transcript,  \* a sequence of [skill, stop]
          late,        \* whether max_elapsed_seconds have passed since started_at
          last,        \* the last decision: [action, target]
          reason,      \* stop_reason, "none" while ACTIVE
          drive,       \* off, or the surface that drives the graph
          saved,       \* whether the posteriors reached the Skill ledger
          switched     \* history: whether a switch_skill was applied

graph == <<next, index, nextSkill, transcript, last, reason, switched>>
vars == <<graph, late, drive, saved>>

Stop == {"resolved", "weak", "failed"}
Reason == {"none", "max_questions", "max_elapsed_seconds", "topic_plan_complete", "supervisor_end_early"}

TypeOK == /\ next \in {"question", "supervisor", "plan", "end"}
          /\ index \in 1..(Len(Plan) + 1) /\ nextSkill \in Skill \cup {None}
          /\ transcript \in Seq([skill : Skill, stop : Stop])
          /\ last.action \in {"none", "advance", "extra", "skip", "switch", "end"}
          /\ reason \in Reason /\ drive \in Surface \cup {"off"}
          /\ {late, saved, switched} \subseteq BOOLEAN

Init == /\ next = "question" /\ index = 1 /\ nextSkill = Plan[1]
        /\ transcript = <<>> /\ late = FALSE
        /\ last = [action |-> "none"] /\ reason = "none"
        /\ drive \in Surface
        /\ saved = FALSE /\ switched = FALSE
-----------------------------------------------------------------------------
(* What the Supervisor's rails compute.                                    *)

Complete == reason # "none"
Attempts(k) == Cardinality({i \in DOMAIN transcript : transcript[i].skill = k})
HasUnusedSeed(k) == Attempts(k) < Seeds[k]
Answered == {item.skill : item \in {i \in ToSet(transcript) : i.stop # "failed"}}
AnyAsked == {item.skill : item \in ToSet(transcript)}
LastSkill == Last(transcript).skill
Current == IF nextSkill # None THEN nextSkill
           ELSE Plan[IF index <= Len(Plan) THEN index ELSE Len(Plan)]

ExtraProbeOnAnyWeak == Last(transcript).stop = "weak"
ExtraProbeRequired == Last(transcript).stop = "weak" /\ HasUnusedSeed(LastSkill)

HardCapOfAnswered ==
  Len(SelectSeq(transcript, LAMBDA item : item.stop # "failed")) >= MaxQuestions
HardCap == Len(transcript) >= MaxQuestions

PlanIndexOf(k) == IF k \in ToSet(Plan) THEN SelectInSeq(Plan, LAMBDA e : e = k) ELSE index

Advance == [action |-> "advance"]
Extra == [action |-> "extra"]
SkipAhead(i) == [action |-> "skip", target |-> i]
SwitchSkill(k) == [action |-> "switch", target |-> k]
EndEarly == [action |-> "end"]

SkipForwardOnly(i) == i > index + 1 /\ HasUnusedSeed(Plan[i])
SkipAllowed(i) == /\ i > index + 1
                  /\ \A j \in (index + 1)..(i - 1) : Plan[j] \in Answered
                  /\ HasUnusedSeed(Plan[i])

\* The decisions the validators let through.
Valid == {d \in {Advance} : ~ExtraProbeRequired}
           \cup {d \in {Extra} : HasUnusedSeed(LastSkill)}
           \cup {SkipAhead(i) : i \in {j \in DOMAIN Plan : SkipAllowed(j)}}
           \cup {SwitchSkill(k) : k \in {l \in Skill : HasUnusedSeed(l)}}
           \cup {EndEarly}

\* After a second invalid answer, or a transport error.
Fallback == IF ExtraProbeRequired THEN Extra
            ELSE IF index + 1 > Len(Plan) THEN EndEarly ELSE Advance
-----------------------------------------------------------------------------
(* The nodes.                                                              *)

Driven == drive # "off"

\* A failure inside the question, a Skill out of seeds included, is an item too.
AskQuestion ==
  /\ Driven /\ next = "question"
  /\ \E stop \in IF HasUnusedSeed(Current) THEN Stop ELSE {"failed"} :
       transcript' = Append(transcript, [skill |-> Current, stop |-> stop])
  /\ next' = "supervisor"
  /\ UNCHANGED <<index, nextSkill, late, last, reason, drive, saved, switched>>

\* _apply_supervisor_decision.
GoTo(i) == /\ index' = i
           /\ IF i <= Len(Plan)
              THEN nextSkill' = Plan[i] /\ reason' = "none"
              ELSE nextSkill' = None /\ reason' = "topic_plan_complete"

EndReason == IF HardCap THEN "max_questions"
             ELSE IF late THEN "max_elapsed_seconds" ELSE "supervisor_end_early"

Apply(d) == CASE d.action = "advance" -> GoTo(index + 1)
              [] d.action = "skip" -> GoTo(d.target)
              [] d.action = "extra" -> /\ nextSkill' = LastSkill /\ reason' = "none"
                                       /\ UNCHANGED index
              [] d.action = "switch" -> /\ nextSkill' = d.target /\ reason' = "none"
                                        /\ index' = PlanIndexOf(d.target)
              [] d.action = "end" -> /\ nextSkill' = None /\ reason' = EndReason
                                     /\ UNCHANGED index

Supervise ==
  /\ Driven /\ next = "supervisor"
  /\ \E d \in IF HardCap \/ late THEN {EndEarly} ELSE Valid \cup {Fallback} :
       /\ Apply(d)
       /\ last' = d
       /\ switched' = (switched \/ d.action = "switch")
  /\ next' = IF reason' = "none" THEN "question" ELSE "plan"
  /\ UNCHANGED <<transcript, late, drive, saved>>

\* A plan, or a study_plan_error: either way the graph ends.
PlanStudy == /\ Driven /\ next = "plan"
             /\ next' = "end"
             /\ UNCHANGED <<index, nextSkill, transcript, late, last, reason, drive, saved, switched>>
-----------------------------------------------------------------------------
(* The drivers.                                                            *)

\* The stream ended: export, save the posteriors, remember, announce.
SaveSession == /\ Driven /\ next = "end"
               /\ saved' = TRUE /\ drive' = "off"
               /\ UNCHANGED <<graph, late>>

\* A cancel, an operator stop, a budget rail or the death of the process.
StopDrive == /\ Driven /\ drive' = "off" /\ UNCHANGED <<graph, late, saved>>

ResumeOnWebIfActive == /\ drive = "off" /\ "web" \in Surface /\ ~Complete
                       /\ drive' = "web"
                       /\ UNCHANGED <<graph, late, saved>>

\* Any checkpoint; of a COMPLETE Session the stream has only the rest to do.
ResumeOnWeb == /\ drive = "off" /\ "web" \in Surface
               /\ drive' = "web"
               /\ UNCHANGED <<graph, late, saved>>

\* Refuses a COMPLETE Session, and starts the sitting's clock anew.
ResumeOnCli == /\ drive = "off" /\ "cli" \in Surface /\ ~Complete
               /\ drive' = "cli" /\ late' = FALSE
               /\ UNCHANGED <<graph, saved>>

TimePasses == /\ ~late /\ late' = TRUE /\ UNCHANGED <<graph, drive, saved>>
-----------------------------------------------------------------------------
Next == \/ AskQuestion \/ Supervise \/ PlanStudy \/ SaveSession
        \/ StopDrive \/ ResumeOnWeb \/ ResumeOnCli \/ TimePasses

Spec == Init /\ [][Next]_vars

\* The Candidate comes back to a Session that stopped, and no node is stopped for
\* ever.
Fairness == /\ WF_vars(ResumeOnWeb) /\ WF_vars(ResumeOnCli)
            /\ SF_vars(AskQuestion) /\ SF_vars(Supervise)
            /\ SF_vars(PlanStudy) /\ SF_vars(SaveSession)

FairSpec == Spec /\ Fairness
-----------------------------------------------------------------------------
(* Properties.                                                             *)

\* max_questions binds every path: failed questions, deviations, resumes
\* (supervisor.py:414-418).
QuestionsBounded == Len(transcript) <= MaxQuestions

\* A deviation never burns a question slot on a Skill the bank cannot serve, the
\* fallback's extra_question included (supervisor.py:542-544, 630-647).
DeviationsFindASeed ==
  next = "question" /\ last.action \in {"extra", "skip", "switch"} => HasUnusedSeed(Current)

\* A Session that reports its Topic Plan complete dropped no planned Skill: each was
\* asked, unless a switch_skill moved past it (supervisor.py:659-664).
PlanCovered ==
  reason = "topic_plan_complete" /\ ~switched => ToSet(Plan) \subseteq AnyAsked

\* A completed interview's evidence reaches the ledger: a drive that stopped between
\* COMPLETE and the save is resumed to it (supervisor.py:358-360, cli_session.py:466-470).
CompleteIsSaved == Complete ~> saved
=============================================================================
