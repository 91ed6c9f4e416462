SPECIFICATION FairSpec
CONSTANTS
  Sandbox = {s1}
  Faults = {"abort", "crash", "docker", "store"}
PROPERTIES RowsRetire ContainersReclaimed
