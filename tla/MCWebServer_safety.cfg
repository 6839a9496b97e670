SPECIFICATION FairSpec
CONSTANTS
  g1 = g1
  g2 = g2
  Goroutines = {g1, g2}
  a1 = a1
  a2 = a2
  Addrs = {a1, a2}
  InitialAddr = a1
  users = users
  orders = orders
  getUsers = getUsers
  getOrders = getOrders
  postOrders = postOrders
  home = home
  hook = hook
  Registrars = {users, orders}
  RoutesOf <- MCRoutesOf
  FlakyRegistrars = {orders}
  Suspects = {postOrders}
  DirectPatterns = {home}
  Hooks = {hook}
  NewAddrs = {a2}
  MaxCalls = 5
  MaxFaults = 1
  None = None
INVARIANTS TypeOK ListenersOwned StopsAreExclusive RoutesListed PanicsNeedTwoStarts
PROPERTIES StopClosesListener
CHECK_DEADLOCK FALSE
