SPECIFICATION Spec
CONSTANTS
  Sandbox = {s1, s2}
  Faults = {"abort", "crash", "docker", "store"}
SYMMETRY Symmetry
INVARIANTS TypeOK RemovedIsGone OrphanHasCause
