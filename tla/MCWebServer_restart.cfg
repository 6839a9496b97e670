SPECIFICATION Spec
CONSTANTS
  g1 = g1
  g2 = g2
  Goroutines = {g1}
  a1 = a1
  a2 = a2
  Addrs = {a1, a2}
  InitialAddr = a1
  users = users
  orders = orders
  getUsers = getUsers
  getOrders = getOrders
  postOrders = postOrders
  home = home
  hook = hook
  Registrars = {users, orders}
  RoutesOf <- MCRoutesOf
  FlakyRegistrars = {}
  Suspects = {}
  DirectPatterns = {home}
  Hooks = {hook}
  NewAddrs = {a2}
  MaxCalls = 5
  MaxFaults = 0
  None = None
INVARIANTS RestartIsSafe
CHECK_DEADLOCK FALSE
