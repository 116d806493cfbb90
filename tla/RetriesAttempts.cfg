SPECIFICATION Spec
CONSTANTS
  Limits <- MCLimits
  PageSizes = {0, 1, 2}
  MaxPages = 3
  MaxRequests = 7
\* A call that has ended stays as it is.
CHECK_DEADLOCK FALSE
INVARIANT
  AttemptsIncludeTheFirst
