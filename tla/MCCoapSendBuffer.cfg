\* Two sending threads and three messages: one can be in the buffer, one in
\* the worker's hand and one in a caller's, with another caller waiting.
SPECIFICATION SendSpec
CONSTANTS
    Threads = {t1, t2}
    Messages = {m1, m2, m3}
    NoThread = NoThread
INVARIANTS
    SendTypeOK
    NoStrandedMessage
PROPERTIES
    ImplementsOutbox
    PromptlySent
    WorkerEndsAfterClose
CHECK_DEADLOCK FALSE
