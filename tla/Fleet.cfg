\* Two jobs, three deliveries, and no or one extra runner for each.
SPECIFICATION FairSpec
CONSTANTS
  first = first
  again = again
  second = second
  j1 = j1
  j2 = j2
  linux = linux
  Requests = {first, again, second}
  Jobs = {j1, j2}
  JobOf <- MCJobOf
  ClassOf <- MCClassOf
  Extras = {0, 1}
  NoRunner = noRunner
\* Everything may have been delivered and every job be done.
CHECK_DEADLOCK FALSE
INVARIANTS
  TypeOK
  NoDeficit
PROPERTY
  ServedJobsStart
