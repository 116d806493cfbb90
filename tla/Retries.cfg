\* Listings of up to three pages of up to two items, and one request too many
\* for the largest limit.
SPECIFICATION FairSpec
CONSTANTS
  Limits <- MCLimits
  PageSizes = {0, 1, 2}
  MaxPages = 3
  MaxRequests = 7
\* A call that has ended stays as it is.
CHECK_DEADLOCK FALSE
INVARIANTS
  TypeOK
  ListingsAreWhole
  RequestsAreBounded
PROPERTIES
  BrokenListingsFail
  EveryCallEnds
