\* Is the length in a record's header right for every string?
SPECIFICATION Spec
CONSTANTS
  Octets = 3
  MaxStrings = 2
  Lengths <- MCLengths
INVARIANT DeclaredIsExact
CHECK_DEADLOCK FALSE
