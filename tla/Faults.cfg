SPECIFICATION Spec
CONSTANTS
  g1 = g1  g2 = g2  b1 = b1  b2 = b2
  Item = {g1}  Clocked = {}  Beat = {b1,b2}
  MinSleep = 1  MaxSleep = 3  LateAfter = 2  Cooldown = 2  Grace = 1  MaxPass = 1
  Dates = {0,4}  MaxTime = 6  MaxFaults = 1  Ops = {"stall","crash","delete","beat"}
INVARIANTS CeilingHolds OneAlertPerWindow
SYMMETRY BeatSymmetry
