SPECIFICATION ViewmanFairSpec
CONSTANTS
  v1 = v1
  v2 = v2
  v3 = v3
  s1 = s1
  s2 = s2
  Viewport = {v1, v2, v3}
  Flat = {v1, v2}
  Slot = {s1, s2}
  Null = Null
  Command = {"scale", "putGraph", "axesColor2D"}
  MayCrash = {v1}
  Lapse = {{"hasty"}, {"fork"}, {"colour"}, {"early", "crash"}}
  MaxRequests = 3
  MaxKey = 1
  MaxClicks = 2
  MaxLinks = 3
INVARIANT ShownAreRecorded
INVARIANT NoneForgotten
PROPERTY GoodbyeEnds
PROPERTY LispIsServed
CHECK_DEADLOCK FALSE
