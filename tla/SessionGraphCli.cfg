CONSTANTS
  ml = ml
  dl = dl
  ops = ops
  nlp = nlp
  None = None
  Skill <- Skills
  Plan <- PlanOfThree
  Seeds <- SeedCounts
  MaxQuestions = 4
  Surface <- CliOnly
SPECIFICATION FairSpec
PROPERTY CompleteIsSaved
CHECK_DEADLOCK FALSE
