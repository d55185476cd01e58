SPECIFICATION Spec
CONSTANTS
  s1 = s1
  s2 = s2
  p1 = p1
  Publishers = {p1, p2}
  Subs = {s1, s2}
  Subjects = {j1}
  SubConfigs <- LosslessAndLossy
  BufferSize = 1
  CacheCap = 1
  Closers <- OneCloserEach
  MaxPublish = 1
INVARIANT NoSendOnClosedChannel
CHECK_DEADLOCK FALSE
