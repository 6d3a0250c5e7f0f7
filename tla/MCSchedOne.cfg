SPECIFICATION Spec
CONSTANTS
  c1 = c1
  c2 = c2
  k1 = k1
  k2 = k2
  i1 = i1
  i2 = i2
  i3 = i3
  i4 = i4
  Guard = g
  Stale = Stale
  Useless = Useless
  Core = {c1}
  Boot <- OneBoot
  Idle <- OneIdle
  User = {u1}
  Ops = {"sleep", "exit", "yield"}
INVARIANTS ThreadsAreAccounted  FlagsAreMine
CONSTRAINT OutsideWindow
