SPECIFICATION BundleSpec
CONSTANTS
  b1 = b1
  b2 = b2
  i1 = i1
  i2 = i2
  Branch = {b1, b2}
  Main = b1
  NoBranch = NoBranch
  Importer = {i1, i2}
  Origins = {"genuine", "synthetic"}
  MaxSteps = 5
  MaxRetries = 1
  MaxErrors = 1
  MaxCrashes = 1
CHECK_DEADLOCK FALSE
SYMMETRY ImporterSymmetry
INVARIANT ImportInv ExportIsImportable FailureIsUndone
