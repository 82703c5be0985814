\* Every text of six characters, for the parser and for the address programs.
\* A text ends: the system stops.
SPECIFICATION MCSpec
CONSTANTS
  Alphabet = {"letter", "newline", "{", "=", ";", "quote", "#", "/", "*"}
  Starts <- MCStarts
  MaxLen = 6
INVARIANTS ConfOfText AddressesOfText
CHECK_DEADLOCK FALSE
