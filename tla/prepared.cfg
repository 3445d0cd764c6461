SPECIFICATION FairSpec
CONSTANTS
    Name <- Names
    Unnamed = ""
    Query <- Queries
    None = "none"
    Foreign = "foreign"
    Outcome <- Outcomes
    Backend = {b1, b2}
    Batches <- Usual
    Patient = TRUE
    MaxBatches = 3
    MaxOthers = 1
INVARIANTS BindMeaning
PROPERTIES CyclesServed
CHECK_DEADLOCK FALSE
