SPECIFICATION Spec
CONSTANTS
  p1 = p1
  p2 = p2
  Processes = {p1, p2}
  Settings = {s1, s2}
  Values = {v1, v2}
  v1 = v1
  Absent = Absent
  Torn = Torn
  NoConfig = NoConfig
  tr = tr
  Default = v1
  Locales = {tr, en}
  DefaultLocale = tr
  Starts <- UsualStart
  MaxLaunches = 2
  MaxChanges = 2
INVARIANTS
  SettingsKept
CHECK_DEADLOCK FALSE
