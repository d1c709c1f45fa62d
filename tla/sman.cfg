SPECIFICATION SmanFairSpec
CONSTANTS
  Pid = {p1, p2, p3, p4}
  Options = {"window", "hypertex", "graphics"}
  MayFail = TRUE
  MaxForks = 6
INVARIANTS FindsTheChild MenuSocketHasOwner
PROPERTIES DeathOfOneEndsAll GraphicsComesBack
