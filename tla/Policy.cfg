SPECIFICATION Spec
CONSTANTS
  Pods = {p1}
  Tools = {"drop_table", "list_pods"}
  Servers = {"s1"}
  Tokens <- MCTokens
  Exposes <- MCExposes
  Calls <- MCCalls
  ProfileTables <- MCProfileTables
  ManualLevels <- MCManualLevels
  TTL = 1
  MaxWrites = 2
  MaxFaults = 1
INVARIANTS StaleEntriesAreDoomed 
PROPERTIES PruneSparesServedTools
