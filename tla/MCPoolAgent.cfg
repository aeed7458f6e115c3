\* main pins its connection first; two gatherers then fight over what is left,
\* and Close arrives while they connect, wait for the mutex and use handles.
SPECIFICATION AgentSpec
CONSTANTS
    NoHandle = NoHandle
    NoDatabase = NoDatabase
    Callers = {main, c1, c2}
    Pinners = {main}
    Databases = {d1, d2, d3}
    Handles = {h1, h2, h3, h4}
    Max = 2
INVARIANTS NoLeak PinnedUntilClose WithinLimit
PROPERTIES ImplementsHandleLease CloseDrains
CHECK_DEADLOCK FALSE
