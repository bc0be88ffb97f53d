SPECIFICATION FairSpec
CONSTANTS
  k1 = k1
  k2 = k2
  t1 = t1
  t2 = t2
  a = a
  inline = inline
  detached = detached
  Absent = Absent
  NoThread = NoThread
  NoSink = NoSink
  Threads = {t1, t2}
  Sinks = {inline, detached}
  Inline = {inline}
  Accepts <- PlansOfTwo
  Keys = {k1, k2}
  Values = {a}
  Batches <- ListsOfTwo
  MaxCommits = 3
  MaxSubscriptions = 2
INVARIANTS TypeOK InlineInOrder NoGapOnceFed
PROPERTIES AnnouncedToAll WritesReturn
