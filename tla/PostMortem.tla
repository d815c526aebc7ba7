----------------------------- MODULE PostMortem -----------------------------
(***************************************************************************)
(* The post-mortem command (cli.py _cmd_postmortem, postmortem.py) on the  *)
(* Skill ledger it shares with the server's Sessions: a debrief of several *)
(* questions, a reconstructed scorecard, the fusion, a plan made with what *)
(* was fused. It refines SkillLedger: what that module calls driving is    *)
(* the debrief here, and leaving it early is the death of the process.     *)
(*                                                                         *)
(* A call of the model is what chat_json makes of it: a valid reply or an  *)
(* error. Exit 1, exit 2 and a traceback are one way of failing here: they *)
(* differ in what is printed.                                              *)
(***************************************************************************)
EXTENDS SkillLedger

CONSTANTS MinAnswers, MaxAnswers    \* MIN_ and MAX_ELICITATION_QUESTIONS

ASSUME DebriefAssumption == /\ MinAnswers \in Nat /\ MaxAnswers \in Nat
                            /\ 0 < MinAnswers /\ MinAnswers <= MaxAnswers
\* Each invocation of the command is a process of its own.
ASSUME CommandAssumption ==
  \A w \in PostMortem, v \in Writer : ProcessOf[v] = ProcessOf[w] => v = w

Session == Writer \ PostMortem

VARIABLES stage,      \* where each command stands
          answers,    \* len(transcript)
          exit        \* how it ended, "none" before

debrief == <<stage, answers, exit>>
commandVars == <<vars, debrief>>

Stage == {"gate", "elicit", "reconstruct", "fuse", "plan", "over"}
Exit == {"none", "failed", "aborted", "reported"}

CommandTypeOK == /\ TypeOK
                 /\ stage \in [PostMortem -> Stage]
                 /\ answers \in [PostMortem -> 0..MaxAnswers]
                 /\ exit \in [PostMortem -> Exit]

CommandInit == /\ Init
               /\ stage = [w \in PostMortem |-> "gate"]
               /\ answers = [w \in PostMortem |-> 0]
               /\ exit = [w \in PostMortem |-> "none"]
-----------------------------------------------------------------------------
(* Leaving the command.                                                    *)

Ends(w, how) == /\ stage' = [stage EXCEPT ![w] = "over"]
                /\ exit' = [exit EXCEPT ![w] = how]

\* Out of the debrief, with nothing written: the recollection dies with the command.
LeavesDebrief(w, how) == /\ Kill(ProcessOf[w]) /\ Ends(w, how)
                         /\ answers' = [answers EXCEPT ![w] = 0]

Onward(w, to) == stage' = [stage EXCEPT ![w] = to] /\ UNCHANGED exit
-----------------------------------------------------------------------------
(* The command.                                                            *)

\* The metered-start gate refuses, or the id is one the ledger would silently not write.
Refuse(w) == /\ stage[w] = "gate" /\ Ends(w, "failed")
             /\ UNCHANGED <<vars, answers>>

OpenReadsCarried(w) ==
  /\ stage[w] = "gate" /\ measuredAt[w] = 0 /\ Move(w, "off", "driving")
  /\ now' = [now EXCEPT ![w] = day]
  /\ carried' = [carried EXCEPT ![w] = file[CandidateOf[w]].evidence]
  /\ Onward(w, "elicit")
  /\ UNCHANGED <<day, file, saveLock, fileLock, data, measuredAt, answers>>
Open(w) == /\ stage[w] = "gate" /\ Start(w)
           /\ Onward(w, "elicit") /\ UNCHANGED answers

ModelDecides(w) == TRUE
MayStopAsking(w) == answers[w] >= MinAnswers

\* A step of the elicitor: done, which counts only when enough was answered, or the next
\* question, to which candidate.answer returns an answer or raises CandidateIntent.
Elicit(w) ==
  /\ stage[w] = "elicit" /\ answers[w] < MaxAnswers
  /\ \/ LeavesDebrief(w, "failed")
     \/ /\ MayStopAsking(w) /\ Onward(w, "reconstruct")
        /\ UNCHANGED <<vars, answers>>
     \/ /\ answers' = [answers EXCEPT ![w] = @ + 1]
        /\ UNCHANGED <<vars, stage, exit>>
     \/ LeavesDebrief(w, "aborted")

\* The budget is spent: the model is not consulted again.
Exhausted(w) == /\ stage[w] = "elicit" /\ answers[w] = MaxAnswers
                /\ Onward(w, "reconstruct")
                /\ UNCHANGED <<vars, answers>>

\* A scorecard that passes the validators is fused; update_posteriors takes the locks.
Reconstruct(w) ==
  /\ stage[w] = "reconstruct"
  /\ \/ LeavesDebrief(w, "failed")
     \/ Finish(w) /\ Onward(w, "fuse") /\ UNCHANGED answers

Fuse(w) == /\ stage[w] = "fuse" /\ SaveStep(w) /\ UNCHANGED answers
           /\ IF pc'[w] = "off" THEN Onward(w, "plan") ELSE UNCHANGED <<stage, exit>>

\* plan_study on the fused states: an operator stop is raised again, whatever else goes
\* wrong is a line of the report.
PlanAborts(w) == /\ stage[w] = "plan" /\ UNCHANGED <<vars, answers>>
                 /\ \E how \in {"reported", "aborted"} : Ends(w, how)
Plan(w) == /\ stage[w] = "plan" /\ UNCHANGED <<vars, answers>>
           /\ \E how \in {"reported", "failed"} : Ends(w, how)
-----------------------------------------------------------------------------
(* The Sessions, the machine and time.                                     *)

SessionStep(w) == /\ Start(w) \/ Finish(w) \/ ResumeComplete(w) \/ SaveStep(w)
                  /\ UNCHANGED debrief

\* A process dies; a command that had not ended failed.
Dies(p) == /\ Kill(p)
           /\ stage' = [w \in PostMortem |-> IF ProcessOf[w] = p THEN "over" ELSE stage[w]]
           /\ exit' = [w \in PostMortem |-> IF ProcessOf[w] = p THEN "failed" ELSE exit[w]]
           /\ answers' = [w \in PostMortem |-> IF ProcessOf[w] = p /\ pc[w] = "driving"
                                               THEN 0 ELSE answers[w]]

Elapse == Tick /\ UNCHANGED debrief

CommandStep(w) == \/ Refuse(w) \/ Open(w) \/ Elicit(w) \/ Exhausted(w)
                  \/ Reconstruct(w) \/ Fuse(w) \/ Plan(w)

CommandNext == \/ \E w \in PostMortem : CommandStep(w)
               \/ \E w \in Session : SessionStep(w)
               \/ \E p \in Process : Dies(p)
               \/ Elapse

CommandSpec == CommandInit /\ [][CommandNext]_commandVars

\* As in SkillLedger: only what is inside a save is sure to be scheduled.
Detailed(w, A) == IF w \in PostMortem THEN A /\ Fuse(w) ELSE A /\ UNCHANGED debrief

LockedStep(w) == ReadCarried(w) \/ ReadData(w) \/ Publish(w) \/ Release(w)

CommandFairness ==
  /\ \A w \in Writer : /\ SF_commandVars(Detailed(w, TakeSaveLock(w)))
                       /\ SF_commandVars(Detailed(w, TakeFileLock(w)))
  /\ WF_commandVars(\E w \in Writer : Detailed(w, LockedStep(w)))

FairCommandSpec == CommandSpec /\ CommandFairness
-----------------------------------------------------------------------------
(* Properties.                                                             *)

\* Second-hand evidence is in the ledger only from a debrief that reached its minimum,
\* whatever the model decided, whoever died and whoever else saved (postmortem.py:158-160,
\* 262-271).
EvidenceFromWholeDebriefs ==
  \A c \in Candidate : \A e \in file[c].evidence :
    e.by \in PostMortem => answers[e.by] >= MinAnswers

\* A command that tells the Candidate it was aborted wrote nothing: no evidence of it is
\* in the ledger, and none is on its way there (cli.py:255-264).
AbortLeavesNoTrace ==
  \A w \in PostMortem : exit[w] = "aborted" =>
    /\ measuredAt[w] = 0
    /\ \A c \in Candidate : \A e \in file[c].evidence : e.by # w

\* To the ledger the command is a writer like any other (ledger.py:280-320).
ImplementsLedger == Spec

\* "after fusion -- exactly what was saved back" (postmortem.py:111): the evidence a
\* report shows is in the ledger. Refuted by a write that fails, which update_posteriors
\* only logs.
ReportedIsSaved ==
  \A w \in PostMortem : exit[w] = "reported" =>
    \A k \in Measured[w] : \E e \in file[CandidateOf[w]].evidence : e.skill = k /\ e.by = w
=============================================================================
