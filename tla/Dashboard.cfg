SPECIFICATION DashboardSpec
CONSTANTS
  Items = {"b/db", "x/web"}
  First = "x/web"
  ServiceOf <- MCServiceOf
  NameOf <- MCNameOf
  Names = {"data", "web"}
  Owners = {"b/db", "old/web", "other"}
  Label <- MCLabel
  RunsAs <- MCRunsAs
  ChanCap = 1
  MaxStarts = 3
  MaxCommands = 1
INVARIANT LastMoveIsShown
PROPERTIES ActionsHitTheService LinesAreDrained StatusesKeepComing
