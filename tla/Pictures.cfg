SPECIFICATION Spec
CONSTANT Jobs <- MCJobs
INVARIANTS
    PictureKept
    IncompleteRefused
CHECK_DEADLOCK FALSE
