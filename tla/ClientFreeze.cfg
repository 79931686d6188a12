CONSTANTS
  Plain = {"close", "view"}
  Closing = {"close"}
  AnswerSize <- MCAnswerSize
  Room <- MCRoom
  ListenerRoom = 1
  Notifiers = {"own", "timer"}
  Own = "own"
  MaxNotices = 0
SPECIFICATION FairSpec
PROPERTIES NeverInterferes
CHECK_DEADLOCK FALSE
