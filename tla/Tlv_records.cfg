\* Records of two and of four strings.
SPECIFICATION Spec
CONSTANTS
  Octets = 3
  MaxStrings = 4
  Lengths <- MCLengths
INVARIANTS
  TypeOK
  LengthsReadBack
  ShortIsExact
\* write_tlv_log returns.
CHECK_DEADLOCK FALSE
