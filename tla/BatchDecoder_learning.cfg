\* A post-edit is read while another line is decoded.
SPECIFICATION Spec
CONSTANTS
  w1 = w1
  w2 = w2
  Main = Main
  None = None
  Workers <- TwoWorkers
  Inputs <- Files
  MaxLines = 5
  NumTranslate = 3
  HasOL = TRUE
  HasNBest = TRUE
  StartId = 0
  MaxIterations = 2
INVARIANTS LearnsFromOwnPostEdit
