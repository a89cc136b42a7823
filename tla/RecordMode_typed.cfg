CONSTANT MaxLines = 5
SPECIFICATION FairSpec
INVARIANTS
  SentLogIsClosed
  SentRecordIsRooted
  RepliesFindTheirQuestions
PROPERTIES
  ClosedSessionsExit
