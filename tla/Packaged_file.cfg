SPECIFICATION Spec
CONSTANTS
  Wide <- MCWide
  Lenient <- MCLenient
  Requests <- AllRequests
  Runtime = TRUE
  MaxDumps = 2
INVARIANTS ReadingsAgree TiersTogether
