CONSTANTS
  NoOp = NoOp
  Screens = {s1, s2, s3}
  Ops = {o1, o2}
  Kinds = {"delete"}
  Overlaps <- TwoDeletes
SPECIFICATION Spec
INVARIANT Sequential
CHECK_DEADLOCK FALSE
