SPECIFICATION Spec
CONSTANTS
  MinWindow = 1
  MaxWindow = 2
  CountMax = 1
  Lag = 1
  MaxSlice = 4
  MaxAdds = 5
  MaxStatus = 1
INVARIANTS VisibleExact SeriesBounded CopyIsLastReport
