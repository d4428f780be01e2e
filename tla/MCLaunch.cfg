SPECIFICATION Spec
CONSTANTS
  p1 = p1
  p2 = p2
  p3 = p3
  v1 = v1
  v2 = v2
  Procs <- MCProcs
  Values <- MCValues
  Default = "default"
  Programs = {"ui", "core"}
SYMMETRY MCSymmetry
INVARIANTS
  TypeOK
  OneInstance
  SettingsKept
