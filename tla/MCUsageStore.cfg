SPECIFICATION Spec
CONSTANTS
  Requests = {"r1", "r2"}
  Detailed = {"r1"}
  Admins = {"a1", "a2"}
  FlagDays <- MCFlagDays
  DayChoices = {0}
  DefaultDays = 1
  QueueSize = 1
  BatchSize = 2
  MaxDay = 2
  Loads <- MCLoads
  MaxOpens = 2
  NoRow = NoRow
  NoMeta = NoMeta
  NoCutoff = NoCutoff
INVARIANTS TypeOK DetailsHaveRequest StopDrainsQueue SettingsArePersisted
PROPERTIES ImplementsEventLog
CHECK_DEADLOCK FALSE
