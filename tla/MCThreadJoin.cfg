\* One Thread object started twice, joinable or detached, by an owner
\* that then deletes it (joinable) or leaves it (detached).
CONSTANTS
    Starts = 2
    DetachChoices = {FALSE, TRUE}
    Priority = 1
    PriMin = 1
    PriMax = 99
    Pris = {0}
    Width = 16

SPECIFICATION Spec

INVARIANT ObjectOutlivesThreads
