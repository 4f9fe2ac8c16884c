\* Two connections sending commands while three classes are loaded.
SPECIFICATION Spec
CONSTANTS
  Handlers = {h1, h2}
  Classes = {c1, c2, c3}
  Name <- OwnName
SYMMETRY Symmetry
INVARIANTS TypeOK HookedKnown StartCovers StopCovers
