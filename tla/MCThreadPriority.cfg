\* setPriority() with an argument of 2^(Width - 1): the `(int)pri` conversion makes
\* it negative.
CONSTANTS
    Starts = 1
    DetachChoices = {FALSE}
    Priority = 1
    PriMin = 1
    PriMax = 99
    Pris = {0, 5, 200, 32768}
    Width = 16

SPECIFICATION Spec

INVARIANT SchedInRange
