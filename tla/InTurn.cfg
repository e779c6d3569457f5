SPECIFICATION Spec
CONSTANTS
  t1 = t1  s1 = s1  i1 = i1  i2 = i2  c1 = c1
  Template = {}  Source = {s1}  Fixed = {}  Pass = {i1,i2}  Click = {}
  Interval = 1  Lead = 1  MaxSeq = 3  MaxTime = 0  MaxFaults = 1  MaxDeletes = 1
  Ops <- AllOps
SYMMETRY Symmetry
INVARIANTS ClaimsOK OnceEach
PROPERTIES LedgerSpec
