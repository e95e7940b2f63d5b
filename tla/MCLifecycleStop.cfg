\* Refutes StopsOnSignal.
SPECIFICATION ProcessSpec
CONSTANTS
    Agents = {a1, a2}
    Reports = {m1, m2}
    Requests = {q1}
PROPERTIES
    StopsOnSignal
\* The process ends.
CHECK_DEADLOCK FALSE
