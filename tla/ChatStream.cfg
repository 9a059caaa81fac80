SPECIFICATION Spec
CONSTANTS
  buffer_size = 5
  MaxChunks = 31
CHECK_DEADLOCK FALSE
INVARIANTS
  WholeReply
  Framing
