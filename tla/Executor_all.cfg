SPECIFICATION FairSpec
CONSTANTS
  None = None
  MaxFailedPosts = 1
INVARIANT TypeOK
INVARIANT OdsGetsThisYear
INVARIANT WhatIsToldIsTrue
INVARIANT FailureIsTold
PROPERTY ImplementsExecutorReport
PROPERTY EveryExecutionEnds
CHECK_DEADLOCK FALSE
