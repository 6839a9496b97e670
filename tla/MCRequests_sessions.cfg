SPECIFICATION Spec
CONSTANTS
  Requests = {r1, r2, r3}
  admin = admin
  cart = cart
  blob = blob
  Nobody = Nobody
  Issuer = Issuer
  Routes = {"open", "private"}
  Group <- MCGroup
  Traffic <- MCTraffic
  Configs <- MCConfigs
  Keys = {"user", "roles", cart, blob}
  Unencodable = {blob}
  ApiKeys = {admin}
  MaxOpen <- MCOpen
  MaxRestarts = 1
INVARIANTS TypeOK GuardsHold SessionKept Observed
SYMMETRY Symmetry
CHECK_DEADLOCK FALSE
