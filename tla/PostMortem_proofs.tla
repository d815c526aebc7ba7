-------------------------- MODULE PostMortem_proofs --------------------------
(***************************************************************************)
(* Proofs about SkillLedger and PostMortem, for any number of writers,     *)
(* commands, processes, Candidates, days and questions. No writer drops    *)
(* evidence it did not read, and carried evidence never gets young again,  *)
(* measured evidence neither unless a Session is resumed on a later day.   *)
(* To the ledger a post-mortem command is a writer like any other, so what *)
(* is proved of SkillLedger holds of it; and nothing of a debrief cut      *)
(* short is ever in the ledger.                                            *)
(***************************************************************************)
EXTENDS PostMortem, TLAPS

-----------------------------------------------------------------------------
(* The writers of the ledger.                                              *)

\* Who is between the lock and its release holds the flock.
SectionHeld == \A w \in Writer : pc[w] \in Section => fileLock = w

\* What was read under the lock is still what the file says.
ReadsCurrent ==
  \A w \in Writer :
    /\ pc[w] \in {"merge", "publish"} => carried[w] = Decayed(w, file[CandidateOf[w]])
    /\ pc[w] = "publish" => data[w] = file

\* A writer's clock was read, and not in the future.
ClocksRead == \A w \in Writer : now[w] <= day /\ (pc[w] # "off" => now[w] >= 1)

\* A piece of evidence is one its writer measured.
MeasuredByItsWriter ==
  \A c \in Candidate : \A e \in file[c].evidence : e.skill \in Measured[e.by]

\* CarriedKeepsAgeing without the day, which cancels out.
AgesCover ==
  \A c \in Candidate : \A e \in file[c].evidence : e.age + now[e.by] >= file[c].completed_at

LedgerInv == /\ TypeOK /\ SectionHeld /\ ReadsCurrent /\ ClocksRead
             /\ MeasuredByItsWriter /\ AgesCover

\* Decay keeps the Skill and the writer of a piece of evidence and adds to its age.
LEMMA DecayKeeps ==
  ASSUME TypeOK, NEW w \in Writer, NEW r \in Record
  PROVE  /\ Elapsed(w, r) \in Nat /\ r.completed_at + Elapsed(w, r) >= now[w]
         /\ Decayed(w, r) \in SUBSET Evidence
         /\ \A f \in Decayed(w, r) : \E e \in r.evidence :
              f.skill = e.skill /\ f.by = e.by /\ f.age = e.age + Elapsed(w, r)
         /\ \A e \in r.evidence : \E f \in Decayed(w, r) : f.skill = e.skill /\ f.by = e.by
<1>1. r.completed_at \in Nat /\ now[w] \in Nat /\ r.evidence \in SUBSET Evidence
  BY LedgerBoundAssumption DEF TypeOK, Record
<1>2. Elapsed(w, r) \in Nat /\ r.completed_at + Elapsed(w, r) >= now[w]
  BY <1>1 DEF Elapsed
<1> DEFINE aged(e) == [e EXCEPT !.age = @ + Elapsed(w, r)]
<1>3. ASSUME NEW e \in Evidence
      PROVE  /\ aged(e) \in Evidence /\ aged(e).skill = e.skill /\ aged(e).by = e.by
             /\ aged(e).age = e.age + Elapsed(w, r)
  BY <1>2 DEF Evidence
<1>4. Decayed(w, r) = {aged(e) : e \in r.evidence}
  BY DEF Decayed
<1> QED
  <2> HIDE DEF aged
  <2> QED BY <1>1, <1>2, <1>3, <1>4

\* Where the evidence of a merged record comes from, and what it keeps.
LEMMA MergeKeeps ==
  ASSUME TypeOK, NEW w \in Writer
  PROVE  /\ Merged(w) \in SUBSET Evidence
         /\ \A f \in Merged(w) :
              \/ f \in carried[w]
              \/ f.by = w /\ f.age = 0 /\ f.skill \in Measured[w]
         /\ \A f \in carried[w] :
              \/ f \in Merged(w)
              \/ w \notin PostMortem /\ f.skill \in Measured[w]
              \/ w \in PostMortem /\ f.by = w
         /\ \A k \in Measured[w] : \E f \in Merged(w) : f.skill = k /\ f.by = w
<1>1. \A f \in Fresh(w) : f \in Evidence /\ f.by = w /\ f.age = 0 /\ f.skill \in Measured[w]
  BY WriterAssumption DEF Fresh, Evidence
<1>2. \A k \in Measured[w] : \E f \in Fresh(w) : f.skill = k /\ f.by = w
  <2> USE DEF Fresh
  <2> TAKE k \in Measured[w]
  <2> WITNESS [skill |-> k, by |-> w, age |-> 0] \in Fresh(w)
  <2> QED OBVIOUS
<1>3. carried[w] \in SUBSET Evidence
  BY DEF TypeOK
<1>4. CASE w \in PostMortem
  BY <1>1, <1>2, <1>3, <1>4 DEF Merged
<1>5. CASE w \notin PostMortem
  BY <1>1, <1>2, <1>3, <1>5 DEF Merged
<1> QED BY <1>4, <1>5

\* What a publish writes: only the writer's own record changes.
LEMMA UpdateWrites ==
  ASSUME LedgerInv, NEW w \in Writer, pc[w] = "publish"
  PROVE  /\ Updated(w) \in Ledger
         /\ \A c \in Candidate : c # CandidateOf[w] => Updated(w)[c] = file[c]
         /\ Updated(w)[CandidateOf[w]] = [completed_at |-> now[w], evidence |-> Merged(w)]
<1>1. data[w] = file /\ file \in Ledger /\ CandidateOf[w] \in Candidate
  BY WriterAssumption DEF LedgerInv, ReadsCurrent, TypeOK
<1>2. now[w] \in 1..MaxDay
  BY LedgerBoundAssumption DEF LedgerInv, TypeOK, ClocksRead
<1>3. Merged(w) \in SUBSET Evidence
  BY MergeKeeps DEF LedgerInv
<1>4. [completed_at |-> now[w], evidence |-> Merged(w)] \in Record
  BY <1>2, <1>3 DEF Record
<1> QED
  BY <1>1, <1>4 DEF Updated, Ledger

\* A published record covers the age of everything in it.
LEMMA PublishedCovers ==
  ASSUME LedgerInv, NEW w \in Writer, pc[w] = "publish", NEW f \in Merged(w)
  PROVE  f.age + now[f.by] >= now[w] /\ f.skill \in Measured[f.by]
<1> DEFINE r == file[CandidateOf[w]]
<1>1. r \in Record /\ carried[w] = Decayed(w, r) /\ now[w] \in Nat
  BY WriterAssumption DEF LedgerInv, ReadsCurrent, TypeOK, Ledger
<1>2. CASE f \in carried[w]
  <2>1. PICK e \in r.evidence : /\ f.skill = e.skill /\ f.by = e.by
                                /\ f.age = e.age + Elapsed(w, r)
    BY <1>1, <1>2, DecayKeeps DEF LedgerInv
  <2>2. e.age + now[e.by] >= r.completed_at /\ e.skill \in Measured[e.by]
    BY WriterAssumption DEF LedgerInv, AgesCover, MeasuredByItsWriter
  <2>3. Elapsed(w, r) \in Nat /\ r.completed_at + Elapsed(w, r) >= now[w]
    BY <1>1, DecayKeeps DEF LedgerInv
  <2>4. e.age \in Nat /\ now[e.by] \in Nat /\ r.completed_at \in Nat
    BY <1>1 DEF LedgerInv, TypeOK, Record, Evidence
  <2> HIDE DEF r
  <2> QED BY <1>1, <2>1, <2>2, <2>3, <2>4
<1>3. CASE f.by = w /\ f.age = 0 /\ f.skill \in Measured[w]
  BY <1>1, <1>3
<1> QED BY <1>2, <1>3, MergeKeeps DEF LedgerInv

\* The step of a publish, for the conjuncts about the file.
LEMMA PublishStep ==
  ASSUME LedgerInv, NEW w \in Writer, Publish(w)
  PROVE  /\ file' \in Ledger /\ MeasuredByItsWriter' /\ AgesCover'
         /\ \A v \in Writer : pc'[v] \notin {"merge", "publish"}
<1>1. pc[w] = "publish" /\ pc' = [pc EXCEPT ![w] = "release"] /\ now' = now
  BY DEF Publish, Move
<1>2. file' = file \/ file' = Updated(w)
  BY DEF Publish
<1>3. \A v \in Writer : v # w => pc[v] \notin Section
  BY <1>1 DEF LedgerInv, SectionHeld, Section
<1>4. \A v \in Writer : pc'[v] \notin {"merge", "publish"}
  BY <1>1, <1>3 DEF LedgerInv, TypeOK, Section
<1>5. ASSUME file' = Updated(w) PROVE file' \in Ledger /\ MeasuredByItsWriter' /\ AgesCover'
  <2>1. /\ file' \in Ledger
        /\ \A c \in Candidate : c # CandidateOf[w] => file'[c] = file[c]
        /\ file'[CandidateOf[w]] = [completed_at |-> now[w], evidence |-> Merged(w)]
    BY <1>1, <1>5, UpdateWrites
  <2>2. \A f \in Merged(w) : f.age + now[f.by] >= now[w] /\ f.skill \in Measured[f.by]
    BY <1>1, PublishedCovers
  <2>3. \A c \in Candidate : \A e \in file'[c].evidence :
          e.age + now[e.by] >= file'[c].completed_at /\ e.skill \in Measured[e.by]
    <3> SUFFICES ASSUME NEW c \in Candidate, NEW e \in file'[c].evidence
                 PROVE e.age + now[e.by] >= file'[c].completed_at /\ e.skill \in Measured[e.by]
      OBVIOUS
    <3>1. CASE c = CandidateOf[w]
      BY <2>1, <2>2, <3>1
    <3>2. CASE c # CandidateOf[w]
      BY <2>1, <3>2 DEF LedgerInv, AgesCover, MeasuredByItsWriter
    <3> QED BY <3>1, <3>2
  <2> QED BY <1>1, <2>1, <2>3 DEF MeasuredByItsWriter, AgesCover
<1>6. CASE file' = file
  BY <1>1, <1>4, <1>6 DEF LedgerInv, TypeOK, AgesCover, MeasuredByItsWriter
<1> QED BY <1>2, <1>4, <1>5, <1>6

\* A clock that only moves forward leaves the ages covered.
LEMMA ClockStep ==
  ASSUME LedgerInv, file' = file, now' \in [Writer -> Nat],
         \A v \in Writer : now'[v] >= now[v]
  PROVE  AgesCover' /\ MeasuredByItsWriter'
<1>1. ASSUME NEW c \in Candidate, NEW e \in file[c].evidence
      PROVE e.age + now'[e.by] >= file[c].completed_at
  <2>1. e.by \in Writer /\ e.age \in Nat /\ file[c].completed_at \in Nat
    BY DEF LedgerInv, TypeOK, Ledger, Record, Evidence
  <2>2. e.age + now[e.by] >= file[c].completed_at /\ now'[e.by] >= now[e.by]
    BY <2>1 DEF LedgerInv, AgesCover
  <2>3. now[e.by] \in Nat /\ now'[e.by] \in Nat
    BY <2>1 DEF LedgerInv, TypeOK
  <2> QED BY <2>1, <2>2, <2>3
<1> QED BY <1>1 DEF AgesCover, LedgerInv, MeasuredByItsWriter

\* Every step keeps the invariant.
LEMMA LedgerStep == ASSUME LedgerInv, [Next]_vars PROVE LedgerInv'
<1>0. /\ TypeOK /\ SectionHeld /\ ReadsCurrent /\ ClocksRead
      /\ MeasuredByItsWriter /\ AgesCover
  BY DEF LedgerInv
<1>d. day \in 1..MaxDay /\ MaxDay \in Nat /\ now \in [Writer -> Nat]
  BY <1>0, LedgerBoundAssumption DEF TypeOK
<1>e. CandidateOf \in [Writer -> Candidate] /\ Empty \in Ledger
  BY WriterAssumption, LedgerBoundAssumption DEF Empty, Ledger, Record
<1>1. CASE UNCHANGED vars
  BY <1>0, <1>1 DEF vars, LedgerInv, TypeOK, SectionHeld, ReadsCurrent, ClocksRead,
     MeasuredByItsWriter, AgesCover, Decayed, Elapsed
<1>2. CASE Tick
  <2>1. day' \in 1..MaxDay /\ day' >= day
    BY <1>2, <1>d DEF Tick
  <2>2. UNCHANGED <<file, saveLock, fileLock, pc, carried, data, now, measuredAt>>
    BY <1>2 DEF Tick
  <2>3. ClocksRead'
    BY <1>0, <1>d, <2>1, <2>2 DEF ClocksRead
  <2> QED
    BY <1>0, <2>1, <2>2, <2>3 DEF LedgerInv, TypeOK, SectionHeld, ReadsCurrent,
       MeasuredByItsWriter, AgesCover, Decayed, Elapsed
<1>3. ASSUME NEW w \in Writer, Start(w) \/ Finish(w) \/ ResumeComplete(w) PROVE LedgerInv'
  <2>1. /\ UNCHANGED <<day, file, saveLock, fileLock, carried, data>>
        /\ now' = [now EXCEPT ![w] = now'[w]] /\ now'[w] \in {day, now[w]}
        /\ pc[w] = "off" => now'[w] = day
        /\ pc[w] \in {"off", "driving"}
        /\ pc' = [pc EXCEPT ![w] = pc'[w]] /\ pc'[w] \in {"driving", "thread"}
    BY <1>0, <1>3 DEF Start, Finish, ResumeComplete, Move, TypeOK
  <2>2. measuredAt' \in [Writer -> 0..MaxDay]
    BY <1>0, <1>3, <1>d, <2>1 DEF Start, Finish, ResumeComplete, TypeOK
  <2>3. TypeOK'
    <3>1. now' \in [Writer -> 0..MaxDay]
      BY <1>0, <1>d, <2>1 DEF TypeOK
    <3>2. pc' \in [Writer -> {"off", "driving"} \cup Saving]
      BY <1>0, <2>1 DEF TypeOK, Saving
    <3> QED BY <1>0, <2>1, <2>2, <3>1, <3>2 DEF TypeOK
  <2>4. SectionHeld'
    BY <1>0, <2>1 DEF SectionHeld, Section, TypeOK
  <2>5. ClocksRead'
    BY <1>0, <1>d, <2>1 DEF ClocksRead, TypeOK
  <2>6. ReadsCurrent'
    <3>1. \A v \in Writer : pc'[v] \in {"merge", "publish"} => pc'[v] = pc[v] /\ now'[v] = now[v]
      BY <1>0, <2>1 DEF TypeOK
    <3> QED
      BY <1>0, <2>1, <3>1 DEF ReadsCurrent, Decayed, Elapsed
  <2>7. AgesCover' /\ MeasuredByItsWriter'
    <3>1. now' \in [Writer -> Nat] /\ \A v \in Writer : now'[v] >= now[v]
      BY <1>0, <1>d, <2>1 DEF ClocksRead
    <3> QED BY <2>1, <3>1, ClockStep
  <2> QED BY <2>3, <2>4, <2>5, <2>6, <2>7 DEF LedgerInv
<1>4. ASSUME NEW w \in Writer, TakeSaveLock(w) \/ TakeFileLock(w) PROVE LedgerInv'
  <2>1. /\ UNCHANGED <<day, file, carried, data, now, measuredAt>>
        /\ pc[w] \in {"thread", "flock"} /\ pc' = [pc EXCEPT ![w] = pc'[w]]
        /\ pc'[w] \in {"flock", "carry"}
        /\ pc'[w] = "carry" => fileLock = None /\ fileLock' = w
        /\ pc'[w] = "flock" => fileLock' = fileLock
    BY <1>0, <1>4 DEF TakeSaveLock, TakeFileLock, FileLockFree, Move, TypeOK
  <2>2. TypeOK'
    BY <1>0, <1>4, <2>1 DEF TypeOK, Saving, Section, TakeSaveLock, TakeFileLock
  <2>3. SectionHeld'
    BY <1>0, <2>1, WriterAssumption DEF SectionHeld, Section, TypeOK
  <2>4. ReadsCurrent' /\ ClocksRead'
    BY <1>0, <2>1 DEF ReadsCurrent, ClocksRead, Decayed, Elapsed, TypeOK
  <2>5. AgesCover' /\ MeasuredByItsWriter'
    BY <1>0, <2>1 DEF AgesCover, MeasuredByItsWriter
  <2> QED BY <2>2, <2>3, <2>4, <2>5 DEF LedgerInv
<1>5. ASSUME NEW w \in Writer, ReadCarried(w) \/ ReadData(w) PROVE LedgerInv'
  <2>1. /\ UNCHANGED <<day, file, saveLock, fileLock, now, measuredAt>>
        /\ pc[w] \in {"carry", "merge"} /\ pc' = [pc EXCEPT ![w] = pc'[w]]
        /\ pc'[w] \in {"merge", "publish"}
        /\ pc'[w] = "merge" =>
             /\ carried' = [carried EXCEPT ![w] = Decayed(w, file[CandidateOf[w]])]
             /\ data' = data
        /\ pc'[w] = "publish" => data' = [data EXCEPT ![w] = file] /\ carried' = carried
                                 /\ pc[w] = "merge"
    BY <1>0, <1>5 DEF ReadCarried, ReadData, Move, TypeOK
  <2>2. file[CandidateOf[w]] \in Record
    BY <1>0, <1>e DEF TypeOK, Ledger
  <2>3. Decayed(w, file[CandidateOf[w]]) \in SUBSET Evidence
    BY <1>0, <2>2, DecayKeeps
  <2>4. TypeOK'
    BY <1>0, <2>1, <2>3 DEF TypeOK, Saving, Section
  <2>5. SectionHeld'
    BY <1>0, <2>1 DEF SectionHeld, Section, TypeOK
  <2>6. ReadsCurrent'
    <3>1. \A v \in Writer : v # w =>
            pc'[v] = pc[v] /\ carried'[v] = carried[v] /\ data'[v] = data[v]
      BY <1>0, <2>1 DEF TypeOK
    <3>2. carried'[w] = Decayed(w, file[CandidateOf[w]])
      BY <1>0, <2>1 DEF TypeOK, ReadsCurrent
    <3>3. pc'[w] = "publish" => data'[w] = file
      BY <1>0, <2>1 DEF TypeOK
    <3>4. \A v \in Writer : Decayed(v, file[CandidateOf[v]])' = Decayed(v, file[CandidateOf[v]])
      BY <2>1 DEF Decayed, Elapsed
    <3> QED BY <1>0, <2>1, <3>1, <3>2, <3>3, <3>4 DEF ReadsCurrent
  <2>7. ClocksRead' /\ AgesCover' /\ MeasuredByItsWriter'
    BY <1>0, <2>1 DEF ClocksRead, AgesCover, MeasuredByItsWriter, TypeOK
  <2> QED BY <2>4, <2>5, <2>6, <2>7 DEF LedgerInv
<1>6. ASSUME NEW w \in Writer, Publish(w) PROVE LedgerInv'
  <2>1. /\ file' \in Ledger /\ MeasuredByItsWriter' /\ AgesCover'
        /\ \A v \in Writer : pc'[v] \notin {"merge", "publish"}
    BY <1>6, PublishStep
  <2>2. /\ pc' = [pc EXCEPT ![w] = "release"] /\ pc[w] = "publish"
        /\ UNCHANGED <<day, saveLock, fileLock, carried, data, now, measuredAt>>
    BY <1>6 DEF Publish, Move
  <2>3. TypeOK'
    BY <1>0, <2>1, <2>2 DEF TypeOK, Saving, Section
  <2>4. SectionHeld' /\ ReadsCurrent' /\ ClocksRead'
    BY <1>0, <2>1, <2>2 DEF SectionHeld, Section, ReadsCurrent, ClocksRead, TypeOK
  <2> QED BY <2>1, <2>3, <2>4 DEF LedgerInv
<1>7. ASSUME NEW w \in Writer, Release(w) PROVE LedgerInv'
  <2>1. /\ UNCHANGED <<day, file, now, measuredAt>>
        /\ pc[w] = "release" /\ pc' = [pc EXCEPT ![w] = "off"]
        /\ saveLock' = [saveLock EXCEPT ![ProcessOf[w]] = None] /\ fileLock' = None
        /\ carried' = [carried EXCEPT ![w] = {}] /\ data' = [data EXCEPT ![w] = Empty]
    BY <1>7 DEF Release, Move, Unlocked
  <2>2. \A v \in Writer : v # w => pc[v] \notin Section
    BY <1>0, <2>1 DEF SectionHeld, Section
  <2>3. \A v \in Writer : pc'[v] \notin Section
    BY <1>0, <2>1, <2>2 DEF TypeOK, Section
  <2>4. TypeOK'
    BY <1>0, <1>e, <2>1 DEF TypeOK
  <2>5. SectionHeld' /\ ReadsCurrent'
    BY <2>3 DEF SectionHeld, ReadsCurrent, Section
  <2>6. ClocksRead' /\ AgesCover' /\ MeasuredByItsWriter'
    BY <1>0, <2>1 DEF ClocksRead, AgesCover, MeasuredByItsWriter, TypeOK
  <2> QED BY <2>4, <2>5, <2>6 DEF LedgerInv
<1>8. ASSUME NEW p \in Process, Kill(p) PROVE LedgerInv'
  <2>1. /\ UNCHANGED <<day, file, now, measuredAt>>
        /\ pc' = [w \in Writer |-> IF ProcessOf[w] = p THEN "off" ELSE pc[w]]
        /\ saveLock' = [saveLock EXCEPT ![p] = None]
        /\ fileLock' = IF fileLock # None /\ ProcessOf[fileLock] = p THEN None ELSE fileLock
        /\ carried' = [w \in Writer |-> IF ProcessOf[w] = p THEN {} ELSE carried[w]]
        /\ data' = [w \in Writer |-> IF ProcessOf[w] = p THEN Empty ELSE data[w]]
    BY <1>8 DEF Kill
  <2>2. \A v \in Writer : pc'[v] # "off" =>
          /\ ProcessOf[v] # p /\ pc'[v] = pc[v]
          /\ carried'[v] = carried[v] /\ data'[v] = data[v]
    BY <2>1
  <2>3. TypeOK'
    BY <1>0, <1>e, <2>1 DEF TypeOK
  <2>4. SectionHeld'
    BY <1>0, <2>1, <2>2 DEF SectionHeld, Section
  <2>5. ReadsCurrent'
    <3>1. \A v \in Writer : Decayed(v, file[CandidateOf[v]])' = Decayed(v, file[CandidateOf[v]])
      BY <2>1 DEF Decayed, Elapsed
    <3> QED BY <1>0, <2>1, <2>2, <3>1 DEF ReadsCurrent
  <2>6. ClocksRead' /\ AgesCover' /\ MeasuredByItsWriter'
    BY <1>0, <2>1, <2>2 DEF ClocksRead, AgesCover, MeasuredByItsWriter
  <2> QED BY <2>3, <2>4, <2>5, <2>6 DEF LedgerInv
<1> QED
  BY <1>1, <1>2, <1>3, <1>4, <1>5, <1>6, <1>7, <1>8 DEF Next, SaveStep

\* It holds when nobody has written.
LEMMA LedgerStarts == Init => LedgerInv
<1> SUFFICES ASSUME Init PROVE LedgerInv
  OBVIOUS
<1>1. Empty \in Ledger /\ \A c \in Candidate : Empty[c].evidence = {}
  BY LedgerBoundAssumption DEF Empty, Ledger, Record
<1>2. TypeOK
  BY <1>1, LedgerBoundAssumption DEF Init, TypeOK
<1>3. SectionHeld /\ ReadsCurrent /\ ClocksRead
  BY DEF Init, SectionHeld, Section, ReadsCurrent, ClocksRead
<1>4. MeasuredByItsWriter /\ AgesCover
  BY <1>1 DEF Init, MeasuredByItsWriter, AgesCover
<1> QED BY <1>2, <1>3, <1>4 DEF LedgerInv

\* The invariant holds of every behaviour.
LEMMA InductiveLedger == Spec => []LedgerInv
<1>1. Init => LedgerInv
  BY LedgerStarts
<1>2. LedgerInv /\ [Next]_vars => LedgerInv'
  BY LedgerStep
<1> QED BY <1>1, <1>2, PTL DEF Spec

\* Every variable of the ledger keeps its type; nothing is published with a clock that
\* was never read (ledger.py:252).
THEOREM TypeCorrect == Spec => []TypeOK
<1>1. LedgerInv => TypeOK
  BY DEF LedgerInv
<1> QED BY <1>1, InductiveLedger, PTL

\* Carried evidence is charged for all the time since its writer handed it in, over
\* any number of Sessions that carried it along and stamped the record anew, and over
\* stamps in a reader's future (ledger.py:208-211).
THEOREM CarriedAges == Spec => []CarriedKeepsAgeing
<1>1. LedgerInv => CarriedKeepsAgeing
  <2> SUFFICES ASSUME LedgerInv, NEW c \in Candidate, NEW e \in file[c].evidence
               PROVE e.age + (day - file[c].completed_at) >= day - now[e.by]
    BY DEF CarriedKeepsAgeing
  <2>1. e.by \in Writer /\ e.age \in Nat /\ file[c].completed_at \in Nat
    BY DEF LedgerInv, TypeOK, Ledger, Record, Evidence
  <2>2. now[e.by] \in Nat /\ day \in Nat
    BY <2>1, LedgerBoundAssumption DEF LedgerInv, TypeOK
  <2>3. e.age + now[e.by] >= file[c].completed_at
    BY DEF LedgerInv, AgesCover
  <2> QED BY <2>1, <2>2, <2>3
<1> QED BY <1>1, InductiveLedger, PTL

\* Evidence is handed in before it is saved.
SavedWasMeasured ==
  /\ \A w \in Writer : pc[w] \in Saving => measuredAt[w] > 0
  /\ \A c \in Candidate : \A e \in file[c].evidence : measuredAt[e.by] > 0

\* A writer's clock is a day once it has been started.
LEMMA ClockOfWriter ==
  ASSUME LedgerInv, NEW w \in Writer
  PROVE  /\ now[w] \in Nat /\ measuredAt[w] \in Nat /\ day \in Nat /\ day >= 1
         /\ pc[w] # "off" => now[w] >= 1
  BY LedgerBoundAssumption DEF LedgerInv, TypeOK, ClocksRead

\* What any step of the ledger does to what has been handed in.
LEMMA MeasuredStep ==
  ASSUME LedgerInv, SavedWasMeasured, [Next]_vars
  PROVE  /\ SavedWasMeasured'
         /\ \A w \in Writer : measuredAt'[w] # measuredAt[w] => Finish(w)
<1>0. measuredAt \in [Writer -> Nat] /\ pc \in [Writer -> {"off", "driving"} \cup Saving]
  BY ClockOfWriter, LedgerBoundAssumption DEF LedgerInv, TypeOK
<1>1. ASSUME NEW w \in Writer, Finish(w) PROVE
        /\ measuredAt' = [measuredAt EXCEPT ![w] = now'[w]] /\ now'[w] > 0
        /\ file' = file /\ pc' = [pc EXCEPT ![w] = "thread"]
  <2>1. now \in [Writer -> 0..MaxDay] /\ pc[w] = "driving"
    BY <1>1 DEF Finish, Move, LedgerInv, TypeOK
  <2>2. now'[w] \in {now[w], day}
    BY <1>1, <2>1 DEF Finish
  <2> QED BY <1>1, <2>1, <2>2, ClockOfWriter DEF Finish, Move
<1>2. \/ \E w \in Writer : Finish(w)
      \/ UNCHANGED measuredAt
  BY DEF Next, vars, Tick, Kill, Start, ResumeComplete, SaveStep, TakeSaveLock,
     TakeFileLock, ReadCarried, ReadData, Publish, Release
<1>3. CASE \E w \in Writer : Finish(w)
  <2>1. PICK w \in Writer : Finish(w)
    BY <1>3
  <2>2. /\ measuredAt' = [measuredAt EXCEPT ![w] = now'[w]] /\ now'[w] > 0
        /\ file' = file /\ pc' = [pc EXCEPT ![w] = "thread"]
    BY <1>1, <2>1
  <2>3. \A v \in Writer : v # w => measuredAt'[v] = measuredAt[v] /\ pc'[v] = pc[v]
    BY <1>0, <2>2
  <2>4. measuredAt'[w] > 0 /\ pc'[w] = "thread"
    BY <1>0, <2>2
  <2>5. \A v \in Writer : measuredAt[v] > 0 => measuredAt'[v] > 0
    BY <2>3, <2>4
  <2>6. \A c \in Candidate : \A e \in file[c].evidence : e.by \in Writer
    BY DEF LedgerInv, TypeOK, Ledger, Record, Evidence
  <2>7. SavedWasMeasured'
    <3>1. \A v \in Writer : pc'[v] \in Saving => measuredAt'[v] > 0
      BY <2>3, <2>4 DEF SavedWasMeasured
    <3>2. \A c \in Candidate : \A e \in file'[c].evidence : measuredAt'[e.by] > 0
      BY <2>2, <2>5, <2>6 DEF SavedWasMeasured
    <3> QED BY <3>1, <3>2 DEF SavedWasMeasured
  <2> QED BY <2>1, <2>3, <2>7
<1>4. ASSUME UNCHANGED measuredAt PROVE SavedWasMeasured'
  <2>1. \A v \in Writer : pc'[v] \in Saving => pc[v] \in Saving \/ ResumeComplete(v) \/ Finish(v)
    BY <1>0 DEF Next, vars, Tick, Kill, Start, ResumeComplete, Finish, SaveStep, TakeSaveLock,
       TakeFileLock, ReadCarried, ReadData, Publish, Release, Move, Saving, Section
  <2>2. ASSUME NEW v \in Writer, pc'[v] \in Saving PROVE measuredAt'[v] > 0
    <3>1. CASE pc[v] \in Saving
      BY <1>4, <3>1 DEF SavedWasMeasured
    <3>2. CASE ResumeComplete(v)
      BY <1>4, <3>2 DEF ResumeComplete
    <3>3. CASE Finish(v)
      BY <1>0, <1>1, <3>3
    <3>4. pc[v] \in Saving \/ ResumeComplete(v) \/ Finish(v)
      BY <2>1, <2>2
    <3> QED BY <3>1, <3>2, <3>3, <3>4
  <2>3. file' = file \/ \E w \in Writer : Publish(w) /\ file' = Updated(w)
    BY DEF Next, SaveStep, vars, Tick, Kill, Start, Finish, ResumeComplete, TakeSaveLock,
       TakeFileLock, ReadCarried, ReadData, Publish, Release
  <2>4. ASSUME NEW w \in Writer, Publish(w), file' = Updated(w),
               NEW c \in Candidate, NEW e \in file'[c].evidence
        PROVE  measuredAt[e.by] > 0
    <3>1. pc[w] = "publish"
      BY <2>4 DEF Publish, Move
    <3>2. /\ \A d \in Candidate : d # CandidateOf[w] => file'[d] = file[d]
          /\ file'[CandidateOf[w]] = [completed_at |-> now[w], evidence |-> Merged(w)]
      BY <2>4, <3>1, UpdateWrites
    <3>3. CASE c # CandidateOf[w]
      BY <2>4, <3>2, <3>3 DEF SavedWasMeasured
    <3>4. CASE c = CandidateOf[w]
      <4>1. e \in Merged(w)
        BY <2>4, <3>2, <3>4
      <4>2. CASE e.by = w
        BY <3>1, <4>2 DEF SavedWasMeasured, Saving, Section
      <4>3. CASE e \in carried[w]
        <5>1. file[c] \in Record /\ carried[w] = Decayed(w, file[c])
          BY <3>1, <3>4 DEF LedgerInv, TypeOK, Ledger, ReadsCurrent
        <5>2. PICK f \in file[c].evidence : e.by = f.by
          BY <4>3, <5>1, DecayKeeps DEF LedgerInv
        <5> QED BY <5>2 DEF SavedWasMeasured
      <4> QED BY <4>1, <4>2, <4>3, MergeKeeps DEF LedgerInv
    <3> QED BY <3>3, <3>4
  <2>5. \A c \in Candidate : \A e \in file'[c].evidence : measuredAt'[e.by] > 0
    BY <1>4, <2>3, <2>4 DEF SavedWasMeasured
  <2> QED BY <2>2, <2>5 DEF SavedWasMeasured
<1> QED BY <1>2, <1>3, <1>4
\* While Sessions are resumed on their own day, the clock a writer stamps its evidence
\* with is the day it was measured.
ClockIsMeasured == \A w \in Writer : measuredAt[w] > 0 => now[w] = measuredAt[w]

FreshInv == LedgerInv /\ SavedWasMeasured /\ ClockIsMeasured

\* Every step keeps it but a resume on a later day.
LEMMA FreshStep == ASSUME FreshInv, [Next /\ ResavedOnItsDay]_vars PROVE FreshInv'
<1>0. /\ LedgerInv /\ SavedWasMeasured /\ ClockIsMeasured
      /\ now \in [Writer -> Nat] /\ measuredAt \in [Writer -> Nat]
  BY LedgerBoundAssumption DEF FreshInv, LedgerInv, TypeOK
<1>1. LedgerInv' /\ SavedWasMeasured'
  BY <1>0, LedgerStep, MeasuredStep
<1>2. ASSUME UNCHANGED <<now, measuredAt>> PROVE ClockIsMeasured'
  BY <1>0, <1>2 DEF ClockIsMeasured
<1>3. ASSUME NEW w \in Writer, Start(w) PROVE ClockIsMeasured'
  <2>1. measuredAt[w] = 0 /\ measuredAt' = measuredAt /\ now' = [now EXCEPT ![w] = day]
    BY <1>3 DEF Start
  <2> QED BY <1>0, <2>1 DEF ClockIsMeasured
<1>4. ASSUME NEW w \in Writer, Finish(w) PROVE ClockIsMeasured'
  <2>1. /\ now' = [now EXCEPT ![w] = now'[w]]
        /\ measuredAt' = [measuredAt EXCEPT ![w] = now'[w]]
    BY <1>0, <1>4 DEF Finish
  <2> QED BY <1>0, <2>1 DEF ClockIsMeasured
<1>5. ASSUME NEW w \in Writer, ResumeComplete(w), ResavedOnItsDay PROVE ClockIsMeasured'
  <2>1. measuredAt' = measuredAt /\ now' = [now EXCEPT ![w] = day]
    BY <1>5 DEF ResumeComplete
  <2>2. measuredAt[w] = day
    BY <1>5 DEF ResumeComplete, Move, ResavedOnItsDay, FreshInv, LedgerInv, TypeOK
  <2> QED BY <1>0, <2>1, <2>2 DEF ClockIsMeasured
<1>6. \/ UNCHANGED <<now, measuredAt>>
      \/ \E w \in Writer : Start(w) \/ Finish(w) \/ (ResumeComplete(w) /\ ResavedOnItsDay)
  BY DEF vars, Next, SaveStep, Tick, Kill, TakeSaveLock, TakeFileLock, ReadCarried, ReadData,
         Publish, Release
<1> QED BY <1>1, <1>2, <1>3, <1>4, <1>5, <1>6 DEF FreshInv

\* Evidence gets young again in one way only: somebody resumes a COMPLETE Session on a
\* later day (web_session_driver.py:260). Deaths, failed writes, the clock of a post-
\* mortem read long before its save and any number of carries do not do it.
THEOREM OnlyResumesRejuvenate ==
  Spec /\ [][ResavedOnItsDay]_vars => []EvidenceNeverUndecays
<1>1. Init => FreshInv
  <2> SUFFICES ASSUME Init PROVE SavedWasMeasured /\ ClockIsMeasured
    BY LedgerStarts DEF FreshInv
  <2> QED BY DEF Init, Empty, ClockIsMeasured, SavedWasMeasured, Saving, Section
<1>2. FreshInv /\ [Next /\ ResavedOnItsDay]_vars => FreshInv'
  BY FreshStep
<1>3. FreshInv => EvidenceNeverUndecays
  <2> SUFFICES ASSUME FreshInv, NEW c \in Candidate, NEW e \in file[c].evidence
               PROVE e.age + (day - file[c].completed_at) >= day - measuredAt[e.by]
    BY DEF EvidenceNeverUndecays
  <2>1. /\ e.by \in Writer /\ e.age \in Nat /\ file[c].completed_at \in Nat
    BY DEF FreshInv, LedgerInv, TypeOK, Ledger, Record, Evidence
  <2>2. now[e.by] \in Nat /\ day \in Nat
    BY <2>1, LedgerBoundAssumption DEF FreshInv, LedgerInv, TypeOK
  <2>3. e.age + now[e.by] >= file[c].completed_at /\ now[e.by] = measuredAt[e.by]
    BY <2>1 DEF FreshInv, LedgerInv, AgesCover, ClockIsMeasured, SavedWasMeasured
  <2> QED BY <2>1, <2>2, <2>3
<1>4. [Next]_vars /\ [ResavedOnItsDay]_vars => [Next /\ ResavedOnItsDay]_vars
  OBVIOUS
<1> QED BY <1>1, <1>2, <1>3, <1>4, PTL DEF Spec

\* What a step may take out of the ledger.
SupersededOrKept ==
  \A c \in Candidate : \A e \in file[c].evidence :
    \/ \E f \in file'[c].evidence : f.skill = e.skill /\ f.by = e.by
    \/ \E w \in Writer : SupersededBy(w, c, e)

\* Between a writer's read and its write nobody else publishes, so the record it
\* replaces is the one it carried.
LEMMA StepSupersedes == ASSUME LedgerInv, [Next]_vars PROVE SupersededOrKept
<1>1. CASE file' = file
  BY <1>1 DEF SupersededOrKept
<1>2. ASSUME NEW w \in Writer, Publish(w), file' = Updated(w) PROVE SupersededOrKept
  <2>1. pc[w] = "publish" /\ pc'[w] = "release"
    BY <1>2 DEF Publish, Move, LedgerInv, TypeOK
  <2>2. /\ \A c \in Candidate : c # CandidateOf[w] => file'[c] = file[c]
        /\ file'[CandidateOf[w]].evidence = Merged(w)
    <3>1. file' = Updated(w)
      BY <1>2
    <3>2. /\ \A c \in Candidate : c # CandidateOf[w] => file'[c] = file[c]
          /\ file'[CandidateOf[w]] = [completed_at |-> now[w], evidence |-> Merged(w)]
      BY <2>1, <3>1, UpdateWrites
    <3> QED BY <3>2
  <2> SUFFICES ASSUME NEW c \in Candidate, NEW e \in file[c].evidence
               PROVE  \/ \E f \in file'[c].evidence : f.skill = e.skill /\ f.by = e.by
                      \/ \E v \in Writer : SupersededBy(v, c, e)
    BY DEF SupersededOrKept
  <2>3. CASE c # CandidateOf[w]
    BY <2>2, <2>3
  <2>4. CASE c = CandidateOf[w]
    <3>1. file[c] \in Record /\ carried[w] = Decayed(w, file[c])
      BY <2>1, <2>4 DEF LedgerInv, TypeOK, Ledger, ReadsCurrent
    <3>2. PICK f \in carried[w] : f.skill = e.skill /\ f.by = e.by
      BY <3>1, DecayKeeps DEF LedgerInv
    <3>3. CASE f \in Merged(w)
      BY <2>2, <2>4, <3>2, <3>3
    <3>4. CASE w \notin PostMortem /\ f.skill \in Measured[w]
      BY <2>1, <2>4, <3>2, <3>4 DEF SupersededBy
    <3>5. CASE w \in PostMortem /\ f.by = w
      <4>1. e.skill \in Measured[w]
        BY <3>2, <3>5 DEF LedgerInv, MeasuredByItsWriter
      <4>2. \E g \in Merged(w) : g.skill = e.skill /\ g.by = w
        BY <4>1, MergeKeeps DEF LedgerInv
      <4> QED BY <2>2, <2>4, <3>2, <3>5, <4>2
    <3> QED BY <3>2, <3>3, <3>4, <3>5, MergeKeeps DEF LedgerInv
  <2> QED BY <2>3, <2>4
<1>3. file' = file \/ \E w \in Writer : Publish(w) /\ file' = Updated(w)
  BY DEF Next, SaveStep, vars, Tick, Kill, Start, Finish, ResumeComplete, TakeSaveLock,
     TakeFileLock, ReadCarried, ReadData, Publish, Release
<1> QED BY <1>1, <1>2, <1>3

\* No writer drops evidence it did not read, for any number of Sessions, post-mortems
\* and processes: thread lock and flock make the read-merge-publish of a record one
\* step (ledger.py:301-305, 318-336).
THEOREM NothingLost == Spec => EvidenceOnlySuperseded
<1>1. LedgerInv /\ [Next]_vars => [SupersededOrKept]_vars
  BY StepSupersedes
<1>2. Spec => [][SupersededOrKept]_vars
  BY <1>1, InductiveLedger, PTL DEF Spec
<1>3. [SupersededOrKept]_vars <=> [\A c \in Candidate : \A e \in file[c].evidence :
       \/ \E f \in file'[c].evidence : f.skill = e.skill /\ f.by = e.by
       \/ \E w \in Writer : SupersededBy(w, c, e)]_vars
  BY DEF SupersededOrKept
<1> QED BY <1>2, <1>3, PTL DEF EvidenceOnlySuperseded
-----------------------------------------------------------------------------
(* The command is a writer.                                                *)

\* A step of the command is a step of its writer, the death of its process, or none.
LEMMA CommandStepRefines ==
  ASSUME NEW w \in PostMortem, CommandStep(w)
  PROVE  [Next]_vars
<1>1. w \in Writer /\ ProcessOf[w] \in Process
  BY WriterAssumption DEF Process
<1>2. CASE Refuse(w) \/ Exhausted(w) \/ Plan(w)
  BY <1>2 DEF Refuse, Exhausted, Plan
<1>3. CASE Open(w)
  BY <1>1, <1>3 DEF Open, Next
<1>4. CASE Elicit(w)
  BY <1>1, <1>4 DEF Elicit, LeavesDebrief, Next
<1>5. CASE Reconstruct(w)
  BY <1>1, <1>5 DEF Reconstruct, LeavesDebrief, Next
<1>6. CASE Fuse(w)
  BY <1>1, <1>6 DEF Fuse, Next
<1> QED BY <1>2, <1>3, <1>4, <1>5, <1>6 DEF CommandStep

LEMMA CommandNextRefines == [CommandNext]_commandVars => [Next]_vars
<1> SUFFICES ASSUME [CommandNext]_commandVars PROVE [Next]_vars
  OBVIOUS
<1>1. CASE \E w \in PostMortem : CommandStep(w)
  BY <1>1, CommandStepRefines
<1>2. CASE \E w \in Session : SessionStep(w)
  BY <1>2 DEF Session, SessionStep, Next
<1>3. CASE (\E p \in Process : Dies(p)) \/ Elapse \/ UNCHANGED commandVars
  BY <1>3 DEF Dies, Elapse, commandVars, Next
<1> QED BY <1>1, <1>2, <1>3 DEF CommandNext

\* To the ledger the command is a writer like any other.
THEOREM CommandImplementsLedger == CommandSpec => ImplementsLedger
<1>1. CommandInit => Init
  BY DEF CommandInit
<1> QED BY <1>1, CommandNextRefines, PTL DEF CommandSpec, Spec, ImplementsLedger

LEMMA CommandLedgerInv == CommandSpec => []LedgerInv
  BY CommandImplementsLedger, InductiveLedger, PTL DEF ImplementsLedger

\* So no writer drops evidence it did not read, with whole debriefs among the writers.
THEOREM CommandLosesNothing == CommandSpec => EvidenceOnlySuperseded
  BY CommandImplementsLedger, NothingLost, PTL DEF ImplementsLedger
-----------------------------------------------------------------------------
(* What a debrief has to reach before its evidence exists.                 *)

DebriefTypes == /\ stage \in [PostMortem -> Stage]
                /\ answers \in [PostMortem -> 0..MaxAnswers]
                /\ exit \in [PostMortem -> Exit]

\* Where a command stands, how far its debrief got and what its writer has handed in.
Earned(w) == /\ stage[w] \in {"gate", "elicit", "reconstruct"} => measuredAt[w] = 0
             /\ stage[w] \in {"reconstruct", "fuse", "plan"} => answers[w] >= MinAnswers
             /\ measuredAt[w] > 0 => answers[w] >= MinAnswers
             /\ exit[w] = "aborted" => measuredAt[w] = 0 /\ stage[w] = "over"
             /\ pc[w] = "driving" => stage[w] \in {"elicit", "reconstruct"}
             /\ stage[w] \in {"gate", "over"} => pc[w] = "off"
             /\ stage[w] = "plan" => pc[w] = "off"

DebriefInv == DebriefTypes /\ (\A w \in PostMortem : Earned(w)) /\ SavedWasMeasured

-----------------------------------------------------------------------------
(* The commands.                                                           *)

\* A command whose variables and writer a step leaves alone has earned what it had.
LEMMA EarnedKept ==
  ASSUME NEW w \in PostMortem, Earned(w),
         stage'[w] = stage[w], answers'[w] = answers[w], exit'[w] = exit[w],
         pc'[w] = pc[w], measuredAt'[w] = measuredAt[w]
  PROVE  Earned(w)'
  BY DEF Earned

\* A command that leaves its debrief has nothing handed in, nor ever will.
LEMMA EarnedAfterLeaving ==
  ASSUME LedgerInv, DebriefInv, NEW w \in PostMortem, NEW how \in Exit \ {"none"},
         stage[w] \in {"elicit", "reconstruct"}, LeavesDebrief(w, how)
  PROVE  DebriefTypes' /\ \A v \in PostMortem : Earned(v)'
<1>1. /\ measuredAt' = measuredAt /\ w \in Writer
      /\ stage' = [stage EXCEPT ![w] = "over"] /\ exit' = [exit EXCEPT ![w] = how]
      /\ answers' = [answers EXCEPT ![w] = 0]
      /\ pc' = [v \in Writer |-> IF ProcessOf[v] = ProcessOf[w] THEN "off" ELSE pc[v]]
  BY WriterAssumption DEF LeavesDebrief, Kill, Ends
<1>2. DebriefTypes'
  BY <1>1, DebriefAssumption DEF DebriefInv, DebriefTypes, Stage, Exit
<1>3. Earned(w)'
  BY <1>1 DEF DebriefInv, DebriefTypes, Earned
<1>4. ASSUME NEW v \in PostMortem, v # w PROVE Earned(v)'
  <2>1. v \in Writer /\ ProcessOf[v] # ProcessOf[w]
    BY <1>4, WriterAssumption, CommandAssumption
  <2> QED BY <1>1, <1>4, <2>1, EarnedKept DEF DebriefInv, DebriefTypes
<1> QED BY <1>2, <1>3, <1>4

LEMMA CommandStepEarns ==
  ASSUME LedgerInv, DebriefInv, NEW w \in PostMortem, CommandStep(w)
  PROVE  DebriefTypes' /\ \A v \in PostMortem : Earned(v)'
<1>0. /\ w \in Writer /\ Earned(w) /\ answers[w] \in 0..MaxAnswers
      /\ MinAnswers \in Nat /\ MaxAnswers \in Nat /\ 0 < MinAnswers /\ MinAnswers <= MaxAnswers
      /\ measuredAt \in [Writer -> Nat] /\ pc \in [Writer -> {"off", "driving"} \cup Saving]
      /\ now[w] \in Nat
  BY WriterAssumption, DebriefAssumption, ClockOfWriter, LedgerBoundAssumption
     DEF DebriefInv, DebriefTypes, LedgerInv, TypeOK
<1>e. "failed" \in Exit \ {"none"} /\ "aborted" \in Exit \ {"none"}
  BY DEF Exit
<1>s. ASSUME stage' = [stage EXCEPT ![w] = stage'[w]], stage'[w] \in Stage,
             answers' = [answers EXCEPT ![w] = answers'[w]], answers'[w] \in 0..MaxAnswers,
             exit' = [exit EXCEPT ![w] = exit'[w]], exit'[w] \in Exit,
             \A v \in PostMortem \ {w} : pc'[v] = pc[v] /\ measuredAt'[v] = measuredAt[v],
             Earned(w)'
      PROVE DebriefTypes' /\ \A v \in PostMortem : Earned(v)'
  <2>1. DebriefTypes'
    BY <1>s DEF DebriefInv, DebriefTypes
  <2>2. ASSUME NEW v \in PostMortem, v # w PROVE Earned(v)'
    BY <1>s, <2>2, EarnedKept DEF DebriefInv, DebriefTypes
  <2> QED BY <1>s, <2>1, <2>2
<1>1. CASE Refuse(w)
  <2>1. /\ stage[w] = "gate" /\ UNCHANGED <<pc, measuredAt, answers>>
        /\ stage' = [stage EXCEPT ![w] = "over"] /\ exit' = [exit EXCEPT ![w] = "failed"]
    BY <1>1 DEF Refuse, Ends, vars
  <2>2. stage'[w] = "over" /\ exit'[w] = "failed"
    BY <2>1 DEF DebriefInv, DebriefTypes
  <2>3. Earned(w)'
    BY <1>0, <2>1, <2>2 DEF Earned
  <2> QED BY <1>0, <1>s, <2>1, <2>2, <2>3 DEF Stage, Exit, DebriefInv, DebriefTypes
<1>2. CASE Open(w)
  <2>1. /\ stage[w] = "gate" /\ UNCHANGED <<measuredAt, answers, exit>>
        /\ stage' = [stage EXCEPT ![w] = "elicit"] /\ pc' = [pc EXCEPT ![w] = "driving"]
    BY <1>2 DEF Open, Start, Move, Onward
  <2>2. stage'[w] = "elicit" /\ pc'[w] = "driving"
    BY <1>0, <2>1 DEF DebriefInv, DebriefTypes
  <2>3. Earned(w)'
    BY <1>0, <2>1, <2>2 DEF Earned
  <2> QED BY <1>0, <1>s, <2>1, <2>2, <2>3, WriterAssumption
          DEF Stage, Exit, DebriefInv, DebriefTypes
<1>3. CASE Elicit(w)
  <2>1. CASE LeavesDebrief(w, "failed") \/ LeavesDebrief(w, "aborted")
    BY <1>3, <1>e, <2>1, EarnedAfterLeaving DEF Elicit
  <2>2. CASE MayStopAsking(w) /\ Onward(w, "reconstruct") /\ UNCHANGED <<vars, answers>>
    <3>1. stage'[w] = "reconstruct" /\ answers[w] >= MinAnswers /\ exit' = exit
          /\ stage[w] = "elicit" /\ UNCHANGED <<pc, measuredAt>>
          /\ stage' = [stage EXCEPT ![w] = "reconstruct"]
      BY <1>3, <2>2 DEF Elicit, MayStopAsking, Onward, vars, DebriefInv, DebriefTypes
    <3>2. Earned(w)'
      BY <1>0, <2>2, <3>1 DEF Earned
    <3> QED BY <1>0, <1>s, <2>2, <3>1, <3>2 DEF Stage, Exit, DebriefInv, DebriefTypes
  <2>3. CASE answers' = [answers EXCEPT ![w] = @ + 1] /\ UNCHANGED <<vars, stage, exit>>
    <3>1. stage[w] = "elicit" /\ answers'[w] = answers[w] + 1 /\ UNCHANGED <<pc, measuredAt>>
          /\ answers[w] < MaxAnswers
      BY <1>3, <2>3 DEF Elicit, vars, DebriefInv, DebriefTypes
    <3>2. Earned(w)'
      BY <1>0, <2>3, <3>1 DEF Earned
    <3> QED BY <1>0, <1>s, <2>3, <3>1, <3>2 DEF Stage, Exit, DebriefInv, DebriefTypes
  <2> QED BY <1>3, <2>1, <2>2, <2>3 DEF Elicit
<1>4. CASE Exhausted(w)
  <2>1. stage'[w] = "reconstruct" /\ answers[w] >= MinAnswers /\ UNCHANGED <<exit, answers>>
        /\ stage[w] = "elicit" /\ UNCHANGED <<pc, measuredAt>>
        /\ stage' = [stage EXCEPT ![w] = "reconstruct"]
    BY <1>0, <1>4 DEF Exhausted, Onward, vars, DebriefInv, DebriefTypes
  <2>2. Earned(w)'
    BY <1>0, <2>1 DEF Earned
  <2> QED BY <1>0, <1>s, <2>1, <2>2 DEF Stage, Exit, DebriefInv, DebriefTypes
<1>5. CASE Reconstruct(w)
  <2>1. CASE LeavesDebrief(w, "failed")
    BY <1>5, <1>e, <2>1, EarnedAfterLeaving DEF Reconstruct
  <2>2. CASE Finish(w) /\ Onward(w, "fuse") /\ UNCHANGED answers
    <3>1. /\ stage[w] = "reconstruct" /\ stage' = [stage EXCEPT ![w] = "fuse"]
          /\ pc' = [pc EXCEPT ![w] = "thread"]
          /\ measuredAt' = [measuredAt EXCEPT ![w] = now'[w]]
          /\ UNCHANGED <<answers, exit>>
      BY <1>5, <2>2 DEF Reconstruct, Finish, Move, Onward
    <3>2. stage'[w] = "fuse" /\ pc'[w] = "thread" /\ answers[w] >= MinAnswers
          /\ exit[w] # "aborted"
      BY <1>0, <3>1 DEF DebriefInv, DebriefTypes, Earned
    <3>3. Earned(w)'
      BY <3>1, <3>2 DEF Earned
    <3>4. \A v \in PostMortem \ {w} : pc'[v] = pc[v] /\ measuredAt'[v] = measuredAt[v]
      BY <1>0, <3>1, WriterAssumption
    <3> QED BY <1>0, <1>s, <3>1, <3>2, <3>3, <3>4 DEF Stage, Exit, DebriefInv, DebriefTypes
  <2> QED BY <1>5, <2>1, <2>2 DEF Reconstruct
<1>6. CASE Fuse(w)
  <2>1. /\ stage[w] = "fuse" /\ UNCHANGED <<answers, exit, measuredAt>>
        /\ pc' = [pc EXCEPT ![w] = pc'[w]] /\ pc'[w] \notin {"driving"}
        /\ stage' = [stage EXCEPT ![w] = stage'[w]]
        /\ \/ stage'[w] = "plan" /\ pc'[w] = "off"
           \/ stage'[w] = "fuse"
    BY <1>0, <1>6 DEF Fuse, SaveStep, TakeSaveLock, TakeFileLock, ReadCarried, ReadData,
       Publish, Release, Move, Onward, DebriefInv, DebriefTypes
  <2>2. Earned(w)'
    BY <1>0, <2>1 DEF Earned
  <2>3. \A v \in PostMortem \ {w} : pc'[v] = pc[v]
    BY <1>0, <2>1, WriterAssumption
  <2> QED BY <1>0, <1>s, <2>1, <2>2, <2>3 DEF Stage, Exit, DebriefInv, DebriefTypes
<1>7. CASE Plan(w)
  <2>1. PICK how \in {"reported", "failed"} : Ends(w, how)
    BY <1>7 DEF Plan
  <2>2. /\ stage[w] = "plan" /\ UNCHANGED <<pc, measuredAt, answers>>
        /\ stage' = [stage EXCEPT ![w] = "over"] /\ exit' = [exit EXCEPT ![w] = how]
    BY <1>7, <2>1 DEF Plan, Ends, vars
  <2>3. stage'[w] = "over" /\ exit'[w] = how
    BY <2>2 DEF DebriefInv, DebriefTypes
  <2>4. Earned(w)'
    BY <1>0, <2>2, <2>3 DEF Earned
  <2> QED BY <1>0, <1>s, <2>2, <2>3, <2>4 DEF Stage, Exit, DebriefInv, DebriefTypes
<1> QED BY <1>1, <1>2, <1>3, <1>4, <1>5, <1>6, <1>7 DEF CommandStep

LEMMA NextDebriefInv ==
  ASSUME LedgerInv, DebriefInv, [CommandNext]_commandVars PROVE DebriefInv'
<1>0. [Next]_vars
  BY CommandNextRefines
<1>1. SavedWasMeasured'
  BY <1>0, MeasuredStep DEF DebriefInv
<1>2. CASE \E w \in PostMortem : CommandStep(w)
  BY <1>1, <1>2, CommandStepEarns DEF DebriefInv
<1>3. ASSUME NEW s \in Session, SessionStep(s) PROVE DebriefInv'
  <2>1. UNCHANGED <<stage, answers, exit>> /\ s \in Writer /\ s \notin PostMortem
    BY <1>3 DEF SessionStep, debrief, Session
  <2>2. /\ pc' = [pc EXCEPT ![s] = pc'[s]]
        /\ measuredAt' = [measuredAt EXCEPT ![s] = measuredAt'[s]]
    BY <1>3, <2>1 DEF SessionStep, Start, Finish, ResumeComplete, SaveStep, TakeSaveLock,
       TakeFileLock, ReadCarried, ReadData, Publish, Release, Move, LedgerInv, TypeOK
  <2>3. \A w \in PostMortem : pc'[w] = pc[w] /\ measuredAt'[w] = measuredAt[w]
    BY <2>1, <2>2, WriterAssumption DEF LedgerInv, TypeOK
  <2>4. \A w \in PostMortem : Earned(w)'
    BY <2>1, <2>3, EarnedKept DEF DebriefInv
  <2> QED BY <1>1, <2>1, <2>4 DEF DebriefInv, DebriefTypes
<1>4. ASSUME NEW p \in Process, Dies(p) PROVE DebriefInv'
  <2>1. /\ pc' = [w \in Writer |-> IF ProcessOf[w] = p THEN "off" ELSE pc[w]]
        /\ UNCHANGED measuredAt
        /\ stage' = [w \in PostMortem |-> IF ProcessOf[w] = p THEN "over" ELSE stage[w]]
        /\ exit' = [w \in PostMortem |-> IF ProcessOf[w] = p THEN "failed" ELSE exit[w]]
        /\ answers' = [w \in PostMortem |-> IF ProcessOf[w] = p /\ pc[w] = "driving"
                                              THEN 0 ELSE answers[w]]
    BY <1>4 DEF Dies, Kill
  <2>2. DebriefTypes'
    BY <2>1, DebriefAssumption DEF DebriefInv, DebriefTypes, Stage, Exit
  <2>3. ASSUME NEW w \in PostMortem PROVE Earned(w)'
    <3>1. w \in Writer /\ Earned(w)
      BY WriterAssumption DEF DebriefInv
    <3>2. CASE ProcessOf[w] = p
      BY <2>1, <3>1, <3>2 DEF Earned
    <3>3. CASE ProcessOf[w] # p
      BY <2>1, <3>1, <3>3, EarnedKept
    <3> QED BY <3>2, <3>3
  <2> QED BY <1>1, <2>2, <2>3 DEF DebriefInv
<1>5. CASE Elapse \/ UNCHANGED commandVars
  <2>1. UNCHANGED <<stage, answers, exit, pc, measuredAt>>
    BY <1>5 DEF Elapse, Tick, debrief, commandVars, vars
  <2> QED BY <1>1, <2>1, EarnedKept DEF DebriefInv, DebriefTypes
<1> QED BY <1>2, <1>3, <1>4, <1>5 DEF CommandNext

LEMMA DebriefInvariant == CommandSpec => []DebriefInv
<1>1. CommandInit => DebriefInv
  <2> SUFFICES ASSUME CommandInit PROVE DebriefInv
    OBVIOUS
  <2>1. \A c \in Candidate : file[c].evidence = {}
    BY DEF CommandInit, Init, Empty
  <2>2. DebriefTypes
    BY DebriefAssumption DEF CommandInit, DebriefTypes, Stage, Exit
  <2>3. \A w \in PostMortem : Earned(w)
    BY WriterAssumption DEF CommandInit, Init, Earned
  <2> QED BY <2>1, <2>2, <2>3 DEF CommandInit, Init, DebriefInv, SavedWasMeasured, Saving, Section
<1>2. LedgerInv /\ DebriefInv /\ [CommandNext]_commandVars => DebriefInv'
  BY NextDebriefInv
<1> QED BY <1>1, <1>2, CommandLedgerInv, PTL DEF CommandSpec

\* Second-hand evidence is in the ledger only from a debrief that reached its minimum.
THEOREM WholeDebriefs == CommandSpec => []EvidenceFromWholeDebriefs
<1>1. LedgerInv /\ DebriefInv => EvidenceFromWholeDebriefs
  BY DEF DebriefInv, Earned, SavedWasMeasured, EvidenceFromWholeDebriefs
<1> QED BY <1>1, CommandLedgerInv, DebriefInvariant, PTL

\* A command that tells the Candidate it was aborted wrote nothing.
THEOREM AbortsAreClean == CommandSpec => []AbortLeavesNoTrace
<1>1. DebriefInv => AbortLeavesNoTrace
  BY DEF DebriefInv, Earned, SavedWasMeasured, AbortLeavesNoTrace
<1> QED BY <1>1, DebriefInvariant, PTL

\* Every variable of the command keeps its type: a debrief never goes past its limit of answers.
THEOREM CommandTypeCorrect == CommandSpec => []CommandTypeOK
<1>1. LedgerInv /\ DebriefInv => CommandTypeOK
  BY DEF LedgerInv, DebriefInv, DebriefTypes, CommandTypeOK
<1> QED BY <1>1, CommandLedgerInv, DebriefInvariant, PTL
=============================================================================
