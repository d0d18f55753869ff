SPECIFICATION FairSpec
CONSTANT MaxBytes = 1
INVARIANT DoneTruthful
PROPERTIES RequestSurvives Halts
CHECK_DEADLOCK FALSE
