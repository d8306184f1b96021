SPECIFICATION Spec
CONSTANTS
  p1 = p1
  p2 = p2
  l1 = l1
  l2 = l2
  a = a
  d = d
  None = None
  Keys <- MCKeys
  Specs <- MCSpecs
  Bindings <- MCBindings
  Call <- MCCall
  DlpPaths <- MCDlpPaths
  Limits <- MCLimits
INVARIANTS NeverRaises
CHECK_DEADLOCK FALSE
