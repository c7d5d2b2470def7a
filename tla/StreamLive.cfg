SPECIFICATION FairSpec
CONSTANTS
    Chats = {c1, c2}
    NumParallel = 1
    Done = Done
    Error = Error
    MaxChunks = 1
    MaxRunners = 1
PROPERTIES LeaverReturns ChatAnswered
\* All chats may have been answered, or be stuck behind one that hangs.
CHECK_DEADLOCK FALSE
