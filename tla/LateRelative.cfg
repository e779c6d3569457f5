SPECIFICATION Spec
CONSTANTS
  g1 = g1  g2 = g2  b1 = b1  b2 = b2
  Item = {g1}  Clocked = {}  Beat = {}
  MinSleep = 1  MaxSleep = 4  LateAfter = 2  Cooldown = 3  Grace = 1  MaxPass = 1
  Dates = {0,3,5}  MaxTime = 10  MaxFaults = 0  Ops = {}
INVARIANTS LateMeansTrouble

