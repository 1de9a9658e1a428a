SPECIFICATION Spec
CONSTANTS
  Warnings = {w1, w2}
  Plain = {ssl}
  TokenId = token
  Tabs = {about, settings}
  NoId = NoId
  Torn = Torn
  MaxWindows = 3
  MaxCrashes = 1
INVARIANTS
  RefsOpen
  SilencedAsAsked
  AnswerIsTheUsers
PROPERTIES
  AnswersArrive
CHECK_DEADLOCK FALSE
