SPECIFICATION Spec
CONSTANTS
  Scripts <- MCScripts
  Slots <- MCSlots
  Fuel = 40
  Depth = 3
INVARIANTS TypeOK GraphSound SameButJmpSet RegistersFit
PROPERTY Terminates
