CONSTANTS
  World = 4
  RoceRows = 2
  AccelRows = 2
  HiddenWidth = 2
  Layouts <- MCLayouts
SPECIFICATION Spec
INVARIANTS GroupsAgreed ForwardExact DictExact
