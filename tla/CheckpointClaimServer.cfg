CONSTANTS
  Shell = {s1, s2}
  Run = {w}
  Unclaimed = Unclaimed
  MaxAnswers = 3
SPECIFICATION ClaimSpec
INVARIANT OneWriterPerThread
