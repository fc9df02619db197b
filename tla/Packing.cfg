SPECIFICATION Spec
CONSTANTS
  Shapes <- MCShapes
  Kinds = {"contig", "noncontig", "left", "block"}
  Spaces = {"left", "right"}
INVARIANTS TypeOK Intact NothingLost ErrorsCounted
\* One message is sent.
CHECK_DEADLOCK FALSE
