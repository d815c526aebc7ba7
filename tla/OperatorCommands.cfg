CONSTANTS
  Errored = Errored
  Stopped = Stopped
  None = None
  Provider <- Providers
  Validated <- Benched
  MaxDrafts = 2
  Near = {"copy"}
  TopicCount = 2
  Catalog <- Shelf
  PerTopic = 1
  Days = 2
  MaxResourceless = 1
  Orders <- Commands
  Configs <- Settings
  Ledgers <- Books
  Judgments <- Judgements
  GoldenCases <- Golden
  PerPass = 2
  PerDraft = 2
  Flat = 3
  PlanReplies <- Plans
  DraftSets <- Batches
  StudyDrafts <- StudyReplies
  MaxRetries = 1
SPECIFICATION Spec
INVARIANTS OnlyWholeRunsAreFiled GateVerdict SilentGreenIsUnanimous QueueIsEarned SeedsComeFromTheCandidate JudgeIsMeasured NobodyWeakerPassedOver
CHECK_DEADLOCK FALSE
