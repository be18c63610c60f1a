\* A daily task on the day that the clocks go forward by an hour.
CONSTANTS
  MinutesPerHour = 2
  HoursPerDay = 2
  DaysPerWeek = 2
  MonthDays <- Months
  MaxIterations = 30
  TicksPerMinute = 2
  Latency = 1
  Horizon = 28
  ClockChange <- SpringForward
  Client = {ann}
  Path = {"items"}
  Class = {mine, other}
  NoItem = NoItem
  Anonymous = Anonymous
  group = group
  Group = {group}
  Policy <- Policies
  Lookups = {"socket", "request"}
  QueueMaxsize = 1
  Retries = 1
  MaxEdits = 2
  MaxMessages = 3
  None = None
  Manifests <- DailyApps
  Writers = {"sweep", "manual"}
  Connections <- ConnectionNames
  Default = ""
SPECIFICATION Spec
INVARIANT OnSchedule
CHECK_DEADLOCK FALSE
