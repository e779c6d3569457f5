SPECIFICATION Spec
CONSTANTS
  emma = emma  ann = ann  max = max  w1 = w1  w2 = w2  t1 = t1  t2 = t2
  User = {emma,ann,max}  Admin = {ann}  Owner = emma
  Window = {w1,w2}  Terms = {t1}  MaxWrites = 6
PROPERTIES NoStageSkipped
