SPECIFICATION FairSpec
CONSTANTS
  Nodes = {a, b}
  Worlds = {"lossy"}
PROPERTIES NeverHangs
