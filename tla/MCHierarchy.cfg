CONSTANTS
  Name = {a, b, c}
  MaxRefs = 2
  Docs <- MCDocs
SPECIFICATION Spec
INVARIANTS TypeOK VerdictIsRight ErrorNamesCulprit
PROPERTIES Terminates
CHECK_DEADLOCK FALSE
