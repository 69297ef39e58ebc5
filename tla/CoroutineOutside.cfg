CONSTANTS
  Capacity = 4
  CountMod = 8
  MainYields = TRUE
  Main = Main
  Wild = Wild
SPECIFICATION Spec
INVARIANTS ControlIsValid
