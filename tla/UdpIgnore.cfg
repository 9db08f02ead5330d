SPECIFICATION Spec
CONSTANTS
  c1 = c1
  c2 = c2
  t1 = t1
  t2 = t2
  Clients = {c1, c2}
  Tasks = {t1}
  None = None
  Datagrams <- ThreeDatagrams
  Buffers <- FourBuffers
  MaxPacket = 5
  HeaderLen = 2
  IgnoreError = TRUE
INVARIANTS TypeOK ReaderKeepsSocket
PROPERTIES RepliesAreSound DeafForGood
