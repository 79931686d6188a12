CONSTANTS
  Plain = {"close", "view"}
  Closing = {"close"}
  AnswerSize <- MCAnswerSize
  Room <- MCRoom
  ListenerRoom = 1
  Notifiers = {"own", "timer"}
  Own = "own"
  MaxNotices = 3
SPECIFICATION FairSpec
INVARIANTS WireTypeOK AnswersMatched AnswerUnderway
PROPERTIES MainAnswered
CHECK_DEADLOCK FALSE
