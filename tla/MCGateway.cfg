SPECIFICATION Spec
CONSTANTS
  Flows = {"app", "service", "tab1", "tab2", "ghost"}
  Ghost = "ghost"
  App = "app"
  Service = "service"
  Tabs = {"tab1", "tab2"}
  Calls = {"c1", "c2", "c3"}
  TabOf <- MCTabOf
  AccessTTL = 2
  RefreshTTL = 2
  Tasks = {"t1", "t2"}
  Margin = 2
  MaxTime = 3
  MaxSignIns = 3
  MaxFaults = 1
  MaxRange = 2678400
  Devices = {"d1", "d2"}
  MaxChanges = 2
  FirstTables <- MCFirstTables
  Queries <- MCQueries
INVARIANTS
  TypeOK
  TokenIsSpentOnce
  RefusedOnlyToRivals
  SessionSurvives
  ListingIsFaithful
  RecordsAgree
PROPERTIES
  AuthSpec
  EveryCallSettles
CHECK_DEADLOCK FALSE
