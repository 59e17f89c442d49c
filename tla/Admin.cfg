CONSTANTS
  Tab = {t1}
  Script = {s1}
  Operation <- AllOperations
  MaxForms = 2
  MaxSessions = 2
SPECIFICATION EarlierSpec
SYMMETRY Symmetry
INVARIANTS OneEditPerVersion  
