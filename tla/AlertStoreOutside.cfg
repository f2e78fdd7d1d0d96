SPECIFICATION Spec
CONSTANTS
  Targets = {t1}
  Messages = {m1}
  Legacy = {l1}
  Big = Big
  Unsafe = Unsafe
  Torn = Torn
  Absent = Absent
  Stamps = {s1, s2}
  Names <- TwoNames
  MaxBackups = 1
  MaxOutside = 2
  MaxCrashes = 0
SYMMETRY Symmetry
PROPERTIES
  ReplacesOnlyItsOwn
  DestroyedIsArchived
  
INVARIANTS
  IInv
