SPECIFICATION FairSpec
CONSTANTS
  p1 = p1  p2 = p2  l1 = l1  l2 = l2  g1 = g1  g2 = g2  v1 = v1  v2 = v2
  Proc = {p1,p2}  Scheduler = {p1}  Listing = {l1}  Group = {g1}  Value = {v1,v2}
  MaxDay = 1  MaxChanges = 1  MaxTrouble = 1
  Ops <- AllOps
INVARIANTS TypeOK AlertsReplay
PROPERTIES BookSpec AllHandled
