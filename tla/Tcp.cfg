SPECIFICATION FairSpec
CONSTANTS
  q1 = q1
  q2 = q2
  None = None
  Lookups = {q1, q2}
  BodyLen = 2
  MaxLen = 3
  MaxCloses = 1
INVARIANTS TypeOK EachReplyOnce
PROPERTIES SequentialAnswersAreOwn ShortReplyIsNotReturned LostIsNeverHealed LookupEnds
CHECK_DEADLOCK FALSE
