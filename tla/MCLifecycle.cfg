\* Two agents, two reports, one HTTP request.
SPECIFICATION ProcessSpec
CONSTANTS
    Agents = {a1, a2}
    Reports = {m1, m2}
    Requests = {q1}
INVARIANTS
    ProcessTypeOK
    NoStreamCut
PROPERTIES
    StopsWhenAlone
\* The process ends.
CHECK_DEADLOCK FALSE
