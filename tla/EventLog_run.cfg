SPECIFICATION FairSpec
CONSTANTS
  h1 = h1  h2 = h2  w1 = w1  w2 = w2  p1 = p1  s1 = s1
  Threads = {h1, h2}
  Writers = {w1, w2}
  Pollers = {p1}
  Streams = {s1}
  Watched = h1
  Capacity = 1
  OneWriter = TRUE
  MaxSeq = 4
  MaxFaults = 1
  MaxCrashes = 1
CHECK_DEADLOCK FALSE
INVARIANTS SeqsAreUnique StreamedInOrder
PROPERTIES PollersFollow
