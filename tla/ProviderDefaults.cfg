CONSTANTS
  c1 = c1
  c2 = c2
  c3 = c3
  NoCall = NoCall
  Calls = {c1, c2}
  MaxProviders = 3
SPECIFICATION Spec
SYMMETRY Symmetry
INVARIANTS
  TypeOK
  DefaultIsUsable
PROPERTIES
  SwitchesAreDeserved
  KeepsDefault
