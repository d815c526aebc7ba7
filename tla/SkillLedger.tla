---------------------------- MODULE SkillLedger ----------------------------
(***************************************************************************)
(* The Skill ledger: one JSON file of Candidate records that Session       *)
(* threads of the server and commands in other processes rewrite whole     *)
(* (ledger.py, filelock.py). A posterior is abstracted to the evidence in  *)
(* it, each piece with the age decay has charged it for; decay composes,   *)
(* so ages add. Readers take no lock and see one published file.           *)
(***************************************************************************)
EXTENDS Naturals, FiniteSets

CONSTANTS Writer,        \* Sessions and post-mortems that update the ledger
          PostMortem,    \* the writers that fuse evidence instead of replacing it
          ProcessOf,     \* the OS process of a writer
          Candidate, CandidateOf,
          Skill, Measured,   \* the Skills a writer has evidence for
          None,          \* nobody
          MaxDay         \* bound: days the model runs for

Process == {ProcessOf[w] : w \in Writer}

ASSUME WriterAssumption == /\ None \notin Writer /\ PostMortem \subseteq Writer
                           /\ CandidateOf \in [Writer -> Candidate]
                           /\ Measured \in [Writer -> SUBSET Skill]
                           /\ ProcessOf \in [Writer -> Process]
ASSUME LedgerBoundAssumption == MaxDay \in Nat \ {0}

VARIABLES day,
          file,        \* the published ledger
          saveLock,    \* _SAVE_LOCK of each process
          fileLock,    \* the flock on the sidecar
          pc,          \* where each writer stands
          carried,     \* load_states' result, decayed
          data,        \* the file as _save_locked read it
          now,         \* the day a writer stamps its record with, 0 before
          measuredAt   \* history: the day of a writer's evidence, 0 before

vars == <<day, file, saveLock, fileLock, pc, carried, data, now, measuredAt>>

Evidence == [skill : Skill, by : Writer, age : Nat]
Record == [completed_at : 1..MaxDay, evidence : SUBSET Evidence]
Ledger == [Candidate -> Record]

Section == {"carry", "merge", "publish", "release"}
Saving == {"thread", "flock"} \cup Section

TypeOK == /\ day \in 1..MaxDay /\ file \in Ledger
          /\ saveLock \in [Process -> Writer \cup {None}] /\ fileLock \in Writer \cup {None}
          /\ pc \in [Writer -> {"off", "driving"} \cup Saving]
          /\ carried \in [Writer -> SUBSET Evidence] /\ data \in [Writer -> Ledger]
          /\ now \in [Writer -> 0..MaxDay] /\ measuredAt \in [Writer -> 0..MaxDay]

Empty == [c \in Candidate |-> [completed_at |-> 1, evidence |-> {}]]

Init == /\ day = 1 /\ file = Empty
        /\ saveLock = [p \in Process |-> None] /\ fileLock = None
        /\ pc = [w \in Writer |-> "off"]
        /\ carried = [w \in Writer |-> {}] /\ data = [w \in Writer |-> Empty]
        /\ now = [w \in Writer |-> 0]
        /\ measuredAt = [w \in Writer |-> 0]
-----------------------------------------------------------------------------
(* The arithmetic of a record.                                             *)

\* load_states: the carried evidence, decayed to the writer's now; a record stamped
\* after it has aged by nothing.
NoTimeElapsed(w, record) == 0
Elapsed(w, record) ==
  IF now[w] > record.completed_at THEN now[w] - record.completed_at ELSE 0

Decayed(w, record) == {[e EXCEPT !.age = @ + Elapsed(w, record)] : e \in record.evidence}

Fresh(w) == {[skill |-> k, by |-> w, age |-> 0] : k \in Measured[w]}

\* {**carried, **measured} for a Session; a post-mortem observes on top of it.
Merged(w) == Fresh(w) \cup (IF w \in PostMortem
                             THEN {e \in carried[w] : e.by # w}
                             ELSE {e \in carried[w] : e.skill \notin Measured[w]})
-----------------------------------------------------------------------------
(* A writer.                                                               *)

Move(w, from, to) == pc[w] = from /\ pc' = [pc EXCEPT ![w] = to]

\* A post-mortem reads the clock before the elicitation.
Start(w) == /\ measuredAt[w] = 0
            /\ Move(w, "off", "driving")
            /\ now' = [now EXCEPT ![w] = day]
            /\ UNCHANGED <<day, file, saveLock, fileLock, carried, data, measuredAt>>

\* COMPLETE is in the checkpoint before the driver reads the clock and saves.
Finish(w) == /\ Move(w, "driving", "thread")
             /\ now' = [now EXCEPT ![w] = IF w \in PostMortem THEN @ ELSE day]
             /\ measuredAt' = [measuredAt EXCEPT ![w] = now'[w]]
             /\ UNCHANGED <<day, file, saveLock, fileLock, carried, data>>

\* The graph of a COMPLETE Session streams its final state, and it is saved again.
ResumeComplete(w) == /\ w \notin PostMortem /\ measuredAt[w] > 0
                     /\ Move(w, "off", "thread")
                     /\ now' = [now EXCEPT ![w] = day]
                     /\ UNCHANGED <<day, file, saveLock, fileLock, carried, data, measuredAt>>

TakeSaveLock(w) == /\ saveLock[ProcessOf[w]] = None
                   /\ Move(w, "thread", "flock")
                   /\ saveLock' = [saveLock EXCEPT ![ProcessOf[w]] = w]
                   /\ UNCHANGED <<day, file, fileLock, carried, data, now, measuredAt>>

FileLockIgnored == TRUE
FileLockFree == fileLock = None

TakeFileLock(w) == /\ FileLockFree
                   /\ Move(w, "flock", "carry")
                   /\ fileLock' = w
                   /\ UNCHANGED <<day, file, saveLock, carried, data, now, measuredAt>>

ReadCarried(w) == /\ Move(w, "carry", "merge")
                  /\ carried' = [carried EXCEPT ![w] = Decayed(w, file[CandidateOf[w]])]
                  /\ UNCHANGED <<day, file, saveLock, fileLock, data, now, measuredAt>>

ReadData(w) == /\ Move(w, "merge", "publish")
               /\ data' = [data EXCEPT ![w] = file]
               /\ UNCHANGED <<day, file, saveLock, fileLock, carried, now, measuredAt>>

Updated(w) == [data[w] EXCEPT ![CandidateOf[w]] =
                 [completed_at |-> now[w], evidence |-> Merged(w)]]

\* The rename publishes the whole file, or the write failed and changed nothing.
Publish(w) == /\ Move(w, "publish", "release")
              /\ file' \in {file, Updated(w)}
              /\ UNCHANGED <<day, saveLock, fileLock, carried, data, now, measuredAt>>

UnlockedFileOnly(w) == fileLock' = None /\ UNCHANGED saveLock
Unlocked(w) == /\ saveLock' = [saveLock EXCEPT ![ProcessOf[w]] = None]
               /\ fileLock' = None

\* What the writer read dies with its call.
Release(w) == /\ Move(w, "release", "off")
              /\ Unlocked(w)
              /\ carried' = [carried EXCEPT ![w] = {}]
              /\ data' = [data EXCEPT ![w] = Empty]
              /\ UNCHANGED <<day, file, now, measuredAt>>

\* A process dies; the kernel closes its descriptors.
Kill(p) == /\ \E w \in Writer : ProcessOf[w] = p /\ pc[w] # "off"
           /\ pc' = [w \in Writer |-> IF ProcessOf[w] = p THEN "off" ELSE pc[w]]
           /\ saveLock' = [saveLock EXCEPT ![p] = None]
           /\ fileLock' = IF fileLock # None /\ ProcessOf[fileLock] = p THEN None ELSE fileLock
           /\ carried' = [w \in Writer |-> IF ProcessOf[w] = p THEN {} ELSE carried[w]]
           /\ data' = [w \in Writer |-> IF ProcessOf[w] = p THEN Empty ELSE data[w]]
           /\ UNCHANGED <<day, file, now, measuredAt>>

\* A save takes milliseconds: no day passes during one.
Tick == /\ day < MaxDay /\ \A w \in Writer : pc[w] \notin Saving
        /\ day' = day + 1
        /\ UNCHANGED <<file, saveLock, fileLock, pc, carried, data, now, measuredAt>>
-----------------------------------------------------------------------------
SaveStep(w) == \/ TakeSaveLock(w) \/ TakeFileLock(w) \/ ReadCarried(w)
               \/ ReadData(w) \/ Publish(w) \/ Release(w)

Next == \/ Tick
        \/ \E p \in Process : Kill(p)
        \/ \E w \in Writer : Start(w) \/ Finish(w) \/ ResumeComplete(w) \/ SaveStep(w)

Spec == Init /\ [][Next]_vars

\* Threads inside a save are scheduled, and a lock that is freed again and again is
\* got at last. Nothing makes a Session start or end.
Fairness == \A w \in Writer :
  /\ SF_vars(TakeSaveLock(w)) /\ SF_vars(TakeFileLock(w))
  /\ WF_vars(ReadCarried(w) \/ ReadData(w) \/ Publish(w) \/ Release(w))

FairSpec == Spec /\ Fairness
-----------------------------------------------------------------------------
(* Properties.                                                             *)

\* No writer, of any thread or process, drops evidence it did not read: a record
\* loses a piece only to a Session of that Candidate which measured that Skill
\* itself (ledger.py:301-305, 332-336).
SupersededBy(w, c, e) == /\ pc[w] = "publish" /\ pc'[w] = "release"
                         /\ CandidateOf[w] = c /\ w \notin PostMortem
                         /\ e.skill \in Measured[w]

EvidenceOnlySuperseded ==
  [][\A c \in Candidate : \A e \in file[c].evidence :
       \/ \E f \in file'[c].evidence : f.skill = e.skill /\ f.by = e.by
       \/ \E w \in Writer : SupersededBy(w, c, e)]_vars

\* Carried evidence never gets young again: every piece is charged at least for the
\* time since its writer handed it in, however often others carried its record along
\* and stamped it anew (ledger.py:208-211).
CarriedKeepsAgeing ==
  \A c \in Candidate : \A e \in file[c].evidence :
    e.age + (day - file[c].completed_at) >= day - now[e.by]

\* The same since the evidence was measured. Refuted by the resume of a COMPLETE
\* Session, which hands the old posteriors in again as of today.
EvidenceNeverUndecays ==
  \A c \in Candidate : \A e \in file[c].evidence :
    e.age + (day - file[c].completed_at) >= day - measuredAt[e.by]

\* What EvidenceNeverUndecays needs of the people who resume: a COMPLETE Session is
\* taken up again on the day it was finished only (web_session_driver.py:260).
ResavedOnItsDay == \A w \in Writer \ PostMortem :
  pc[w] = "off" /\ pc'[w] = "thread" => measuredAt[w] = day

\* A save that has begun ends, whoever holds the locks and dies with them.
SavesFinish == \A w \in Writer : pc[w] \in Saving ~> pc[w] = "off"
=============================================================================
