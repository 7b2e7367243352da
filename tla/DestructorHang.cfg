SPECIFICATION FairSpec
PROPERTIES
    DestructorReturns
CHECK_DEADLOCK FALSE
