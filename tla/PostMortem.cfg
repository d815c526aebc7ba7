CONSTANTS
  s = s
  t = t
  pm = pm
  ann = ann
  ben = ben
  sql = sql
  go = go
  None = None
  Writer <- Writers
  PostMortem <- PostMortems
  ProcessOf <- Processes
  Candidate <- Candidates
  CandidateOf <- Owners
  Skill <- Skills
  Measured <- Evidences
  MaxDay = 2
  MinAnswers = 1
  MaxAnswers = 2
SPECIFICATION FairCommandSpec
INVARIANTS CarriedKeepsAgeing EvidenceFromWholeDebriefs AbortLeavesNoTrace
PROPERTIES EvidenceOnlySuperseded SavesFinish
CHECK_DEADLOCK FALSE
