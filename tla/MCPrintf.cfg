SPECIFICATION PrintfSpec
CONSTANTS
  INT_MAX = 127
  Nibbles = 2
  InFormat <- MCFormat
  InArguments <- MCArguments
INVARIANT PrintsText
