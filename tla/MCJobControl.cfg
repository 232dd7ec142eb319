SPECIFICATION FairSpec
CONSTANTS
    Job = {j1, j2, j3}
    Shell = sh
INVARIANTS TypeOK PromptOwnsTerminal WaitsForForeground
PROPERTIES StartsInForeground PromptComesBack
CHECK_DEADLOCK FALSE
