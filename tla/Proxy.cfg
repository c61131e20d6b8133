SPECIFICATION PSpec
CONSTANTS
  k8s = k8s
  web = web
  Servers = {db, k8s, web}
  db = db
  Fleets <- MCFleets
  Addrs <- MCAddrs
  a1 = a1
  a2 = a2
  a3 = a3
  NoAddr = NoAddr
  Profile <- MCProfile
  ToolOrder <- MCToolOrder
  TTL = 1
  MaxFetch = 0
  MaxEditions = 2
INVARIANTS ListingConverges  ClientsAgree
SYMMETRY Moves
