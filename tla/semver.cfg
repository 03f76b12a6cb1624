SPECIFICATION Spec
CONSTANTS
  Numbers = {0, 9, 10, 11, 99, 100, 101, 110, 999}
  MAX_VER = 999
  FieldSize = 1024
INVARIANT LossOnlyAtTenAndHundred
INVARIANT AcceptedIsNewer
