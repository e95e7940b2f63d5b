\* The agent with the code's values: 120 s, 5 s and 15 s in waitForServer,
\* 20 s between cycles, 60 s and 30 s for their stages.
SPECIFICATION AgentSpec
CONSTANTS
    Limit = 120
    CallTimeout = 5
    Cap = 15
    Capabilities <- MCCapabilities
    Defaults <- MCDefaults
    MaxRestarts = 1
    Period = 2
    Budget <- MCBudget
INVARIANTS
    AgentTypeOK
    GivesUpInTime
    ChosenIsPrefix
PROPERTIES
    NoBurst
    KeepsCollecting
    EndsOnSignal
\* The process ends.
CHECK_DEADLOCK FALSE
