SPECIFICATION Spec
SYMMETRY Developers
CONSTANTS
  Runs = {p1, p2, p3}
  ArgLists <- MCArgLists
  Words <- MCWords
  Spelling <- MCSpelling
  Inline <- MCInline
  Tree <- MCTree
  Faults = {"gomod", "disk", "crash"}
INVARIANTS
  TypeOK
  OptionsMean
  DoneIsWhole
  GenInv
PROPERTY
  NeverBuildsOn
