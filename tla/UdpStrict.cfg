SPECIFICATION FairSpec
CONSTANTS
  c1 = c1
  c2 = c2
  t1 = t1
  t2 = t2
  Clients = {c1, c2}
  Tasks = {t1, t2}
  None = None
  Datagrams <- TwoDatagrams
  Buffers <- FourBuffers
  MaxPacket = 5
  HeaderLen = 2
  IgnoreError = FALSE
INVARIANTS ReceivedQueryIsRead ReaderKeepsSocket
PROPERTIES RepliesAreSound ClosedSocketEndsTask
