SPECIFICATION Spec
CONSTANTS
  Switches = {logging}
  Selects = {priority}
  Theme = theTheme
  Host = host
  Langs = {tr, en}
  Windows = {prefs, message}
  Prefs = prefs
  MaxInputs = 3
  MaxOpens = 3
INVARIANTS
  ShownIsSaved
  SavedAsWished
  OneLanguage
  TabFollows
PROPERTIES
  Settles
CHECK_DEADLOCK FALSE
