SPECIFICATION Spec
CONSTANTS
  Worlds <- Registrars
  MaxRtt = 1
  MaxTrouble = 3
INVARIANTS BindingKept NewsHonest Released
PROPERTY Recovers
CHECK_DEADLOCK FALSE
