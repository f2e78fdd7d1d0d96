SPECIFICATION Spec
CONSTANTS
  Targets = {t1}
  Messages = {m1}
  Legacy = {l1}
  Big = Big
  Unsafe = Unsafe
  Torn = Torn
  Absent = Absent
  Stamps = {s1}
  Names <- ThreeNames
  MaxBackups = 1
  MaxOutside = 0
  MaxCrashes = 2
INVARIANTS
  IInv
  WholeFiles
  BackupSurvives
  RetentionBeforeChange
  SuccessIsDurable

  
