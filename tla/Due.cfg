SPECIFICATION FairSpec
CONSTANTS
  t1 = t1  s1 = s1  i1 = i1  i2 = i2  c1 = c1
  Template = {t1}  Source = {s1}  Fixed = {t1}  Pass = {i1}  Click = {c1}
  Interval = 1  Lead = 0  MaxSeq = 2  MaxTime = 1  MaxFaults = 1  MaxDeletes = 1
  Ops <- DueOps
INVARIANTS AlarmMeansTrouble
PROPERTIES DueIsMade
